--------------------------- MODULE CoreServices_proofs ---------------------------
(***************************************************************************)
(* Machine-checked proofs about three services of the core.                *)
(* InteractionRouting: a request that is asked alone reaches somebody who  *)
(* answers it, and its answer comes back to who asked, for every root, set *)
(* of children and bound. Scheduler: recurring messages keep their beat,   *)
(* for any messages, delays, cadences and clock, however late the task     *)
(* comes to send them. PythonRuntime: no answer of a group's worker        *)
(* reaches a call that did not ask for it; the lines on the two pipes      *)
(* carry no identifier, so the claim rests on how many there are: none     *)
(* while a call is not waiting for one, and only its own while it is.      *)
(***************************************************************************)
EXTENDS InteractionRouting, Scheduler, PythonRuntime, FiniteSetTheorems, SequenceTheorems, TLAPS

--------------------------------------------------------------------------------
(* Requests for interaction.                                                *)

(***************************************************************************)
(* The inductive invariant, in named parts.                                *)
(***************************************************************************)

IsResponse(command) == command.kind = "InteractionResponse"

\* No answer in a queue, one answer only, a Stop.
NoneIn(queue) == \A i \in DOMAIN queue : ~ IsResponse(queue[i])

OnlyIn(queue, request) ==
  \E i \in DOMAIN queue :
    /\ IsResponse(queue[i]) /\ queue[i].request = request
    /\ \A j \in DOMAIN queue : IsResponse(queue[j]) => j = i

StopIn(queue) == \E i \in DOMAIN queue : queue[i].kind = "Stop"

NobodyIsAnswered == \A s \in Tree : NoneIn(command_rx[s])

\* The entry of the root is that of the request, or was ended with it.
EntryOf(request) == pending_child_interactions \in {NoChild, request[1]}

\* The stages of a request on its way to a client and back.
Bubbling(request) ==
  /\ runtime_events = <<request>>
  /\ shown = {} /\ NoneIn(core_input) /\ NobodyIsAnswered
  /\ pending_child_interactions = NoChild

Showing(request) ==
  /\ shown = {request}
  /\ runtime_events = <<>> /\ NoneIn(core_input) /\ NobodyIsAnswered
  /\ EntryOf(request)

Answering(request) ==
  /\ OnlyIn(core_input, request)
  /\ runtime_events = <<>> /\ shown = {} /\ NobodyIsAnswered
  /\ EntryOf(request)

Delivered(request, s) ==
  /\ OnlyIn(command_rx[s], request)
  /\ \A t \in Tree \ {s} : NoneIn(command_rx[t])
  /\ runtime_events = <<>> /\ shown = {} /\ NoneIn(core_input)
  /\ pending_child_interactions = NoChild

NothingOpen ==
  /\ runtime_events = <<>> /\ shown = {} /\ NoneIn(core_input)
  /\ NobodyIsAnswered /\ pending_child_interactions = NoChild

\* A request that was asked alone is at one stage only, and so is its entry.
OneStage ==
  overlapped \/ NothingOpen \/
  \E asker \in Tree :
    LET request == <<asker, made>>
    IN \/ Bubbling(request) \/ Showing(request) \/ Answering(request)
       \/ \E s \in Tree : Delivered(request, s)

\* Who asks is the one whose request is on the way, and the way leads back to
\* it; or it is about to be stopped.
Awaited(s) ==
  /\ asks[s] = made
  /\ LET routed == s = Root \/ pending_child_interactions = s
     IN \/ Bubbling(<<s, made>>)
        \/ routed /\ (Showing(<<s, made>>) \/ Answering(<<s, made>>))
        \/ Delivered(<<s, made>>, s)

AskedIsAwaited ==
  overlapped \/ misanswered \/
  \A s \in Tree : Asking(s) => StopIn(command_rx[s]) \/ Awaited(s)

RoutingInv == RoutingTypeOK /\ OneStage /\ AskedIsAwaited

\* The tuples of variables are only abbreviations.
USE DEF channel_vars, client_vars, routing_history, routing_vars

(***************************************************************************)
(* Queues.                                                                 *)
(***************************************************************************)

\* What is appended to a queue of commands is either an answer or a Stop.
LEMMA CommandKinds ==
  ASSUME NEW command \in Commands
  PROVE  /\ IsResponse(command) <=> command.kind # "Stop"
         /\ IsResponse(command) => command.request \in Interactions
  BY DEF Commands, Answers, Response, Stop, IsResponse

\* A command is put at the end (mpsc::Sender::send).
LEMMA Appending ==
  ASSUME NEW queue \in Seq(Commands), NEW command \in Commands, NEW request
  PROVE  LET longer == Append(queue, command)
         IN /\ longer \in Seq(Commands)
            /\ StopIn(queue) \/ ~ IsResponse(command) => StopIn(longer)
            /\ NoneIn(queue) /\ ~ IsResponse(command) => NoneIn(longer)
            /\ OnlyIn(queue, request) /\ ~ IsResponse(command)
                 => OnlyIn(longer, request)
            /\ NoneIn(queue) /\ IsResponse(command) /\ command.request = request
                 => OnlyIn(longer, request)
  <1> DEFINE longer == Append(queue, command)
             n == Len(queue)
  <1>1. /\ longer \in Seq(Commands)
        /\ DOMAIN longer = 1 .. n + 1 /\ DOMAIN queue = 1 .. n /\ n \in Nat
        /\ longer[n + 1] = command
        /\ \A i \in 1 .. n : longer[i] = queue[i]
    OBVIOUS
  <1>2. StopIn(queue) \/ ~ IsResponse(command) => StopIn(longer)
    BY <1>1, CommandKinds DEF StopIn
  <1>3. NoneIn(queue) /\ ~ IsResponse(command) => NoneIn(longer)
    BY <1>1 DEF NoneIn
  <1>4. ASSUME OnlyIn(queue, request), ~ IsResponse(command)
        PROVE  OnlyIn(longer, request)
    <2>1. PICK i \in 1 .. n :
            /\ IsResponse(queue[i]) /\ queue[i].request = request
            /\ \A j \in 1 .. n : IsResponse(queue[j]) => j = i
      BY <1>4, <1>1 DEF OnlyIn
    <2>2. \A j \in 1 .. n + 1 : IsResponse(longer[j]) => j = i
      BY <1>4, <1>1, <2>1
    <2> QED BY <1>1, <2>1, <2>2 DEF OnlyIn
  <1>5. ASSUME NoneIn(queue), IsResponse(command), command.request = request
        PROVE  OnlyIn(longer, request)
    <2>1. \A j \in 1 .. n + 1 : IsResponse(longer[j]) => j = n + 1
      BY <1>5, <1>1 DEF NoneIn
    <2> QED BY <1>5, <1>1, <2>1 DEF OnlyIn
  <1> QED BY <1>1, <1>2, <1>3, <1>4, <1>5

\* The oldest command is taken (mpsc::Receiver::recv).
LEMMA Taking ==
  ASSUME NEW queue \in Seq(Commands), queue # <<>>, NEW request
  PROVE  LET rest == Tail(queue)
             command == Head(queue)
         IN /\ rest \in Seq(Commands) /\ command \in Commands
            /\ StopIn(queue) /\ IsResponse(command) => StopIn(rest)
            /\ NoneIn(queue) => NoneIn(rest) /\ ~ IsResponse(command)
            /\ OnlyIn(queue, request) /\ ~ IsResponse(command)
                 => OnlyIn(rest, request)
            /\ OnlyIn(queue, request) /\ IsResponse(command)
                 => NoneIn(rest) /\ command.request = request
  <1> DEFINE rest == Tail(queue)
             command == Head(queue)
             n == Len(queue)
  <1>1. /\ rest \in Seq(Commands) /\ command \in Commands
        /\ n \in Nat \ {0} /\ DOMAIN queue = 1 .. n /\ DOMAIN rest = 1 .. n - 1
        /\ command = queue[1]
        /\ \A i \in 1 .. n - 1 : rest[i] = queue[i + 1]
    OBVIOUS
  <1>2. ASSUME StopIn(queue), IsResponse(command) PROVE StopIn(rest)
    <2>1. PICK i \in 1 .. n : queue[i].kind = "Stop"
      BY <1>2, <1>1 DEF StopIn
    <2>2. i # 1
      BY <1>1, <1>2, <2>1, CommandKinds
    <2>3. i - 1 \in 1 .. n - 1 /\ rest[i - 1] = queue[i]
      BY <1>1, <2>1, <2>2
    <2> QED BY <1>1, <2>1, <2>3 DEF StopIn
  <1>3. NoneIn(queue) => NoneIn(rest) /\ ~ IsResponse(command)
    BY <1>1 DEF NoneIn
  <1>4. ASSUME OnlyIn(queue, request), ~ IsResponse(command)
        PROVE  OnlyIn(rest, request)
    <2>1. PICK i \in 1 .. n :
            /\ IsResponse(queue[i]) /\ queue[i].request = request
            /\ \A j \in 1 .. n : IsResponse(queue[j]) => j = i
      BY <1>4, <1>1 DEF OnlyIn
    <2>2. i - 1 \in 1 .. n - 1 /\ rest[i - 1] = queue[i]
      BY <1>1, <1>4, <2>1
    <2>3. \A j \in 1 .. n - 1 : IsResponse(rest[j]) => j = i - 1
      BY <1>1, <2>1
    <2> QED BY <1>1, <2>1, <2>2, <2>3 DEF OnlyIn
  <1>5. ASSUME OnlyIn(queue, request), IsResponse(command)
        PROVE  NoneIn(rest) /\ command.request = request
    <2>1. PICK i \in 1 .. n :
            /\ IsResponse(queue[i]) /\ queue[i].request = request
            /\ \A j \in 1 .. n : IsResponse(queue[j]) => j = i
      BY <1>5, <1>1 DEF OnlyIn
    <2>2. i = 1
      BY <1>1, <1>5, <2>1
    <2>3. \A j \in 1 .. n - 1 : ~ IsResponse(rest[j])
      BY <1>1, <2>1, <2>2
    <2> QED BY <1>1, <2>1, <2>2, <2>3 DEF NoneIn
  <1> QED BY <1>1, <1>2, <1>3, <1>4, <1>5

(***************************************************************************)
(* Types.                                                                  *)
(***************************************************************************)

\* What the core loop sends, each session gets as it is or not at all.
LEMMA Sending ==
  ASSUME RoutingTypeOK, NEW targets, NEW command \in Commands,
         SendTo(targets, command)
  PROVE  /\ command_rx' \in [Tree -> Seq(Commands)]
         /\ \A s \in Tree :
              command_rx'[s] = IF s \in targets /\ Registered(s)
                               THEN Append(command_rx[s], command)
                               ELSE command_rx[s]
  BY DEF SendTo, Registered, RoutingTypeOK

LEMMA RoutingTypeStep ==
  ASSUME RoutingTypeOK, [RoutingNext]_routing_vars
  PROVE  RoutingTypeOK'
  <1> USE DEF RoutingTypeOK
  <1> USE RoutingAssumption
  <1>1. ASSUME NEW s \in Tree, NEW kind \in {"approval", "question"}, Ask(s, kind)
        PROVE  RoutingTypeOK'
    <2>1. made + 1 \in 1 .. MaxAsks /\ <<s, made + 1>> \in Interactions
      BY <1>1 DEF Ask, Interactions
    <2>2. /\ runtime_events' \in Seq(Children \X (1 .. MaxAsks))
          /\ shown' \subseteq Interactions
      <3>1. CASE s = Root
        BY <1>1, <2>1, <3>1 DEF Ask
      <3>2. CASE s # Root
        <4>1. <<s, made + 1>> \in Children \X (1 .. MaxAsks)
          BY <2>1, <3>2 DEF Tree
        <4>2. /\ runtime_events' = Append(runtime_events, <<s, made + 1>>)
              /\ shown' = shown
          BY <1>1, <3>2 DEF Ask
        <4> QED BY <4>1, <4>2
      <3> QED BY <3>1, <3>2
    <2>3. overlapped' \in BOOLEAN
      BY <1>1, Zenon DEF Ask
    <2>4. /\ doing' = [doing EXCEPT ![s] = kind]
          /\ asks' = [asks EXCEPT ![s] = made + 1] /\ made' = made + 1
          /\ UNCHANGED <<core_input, pending_child_interactions, command_rx,
                         stops, misanswered>>
      BY <1>1 DEF Ask
    <2> QED BY <2>1, <2>2, <2>3, <2>4
  <1>2. ASSUME NEW s \in Tree, TakeResponse(s) PROVE RoutingTypeOK'
    <2>1. command_rx' \in [Tree -> Seq(Commands)]
      BY <1>2 DEF TakeResponse, Received
    <2> QED BY <1>2, <2>1 DEF TakeResponse, client_vars
  <1>3. ASSUME NEW s \in Tree, TakeStop(s) PROVE RoutingTypeOK'
    <2>1. command_rx' \in [Tree -> Seq(Commands)]
      BY <1>3 DEF TakeStop, Received
    <2> QED BY <1>3, <2>1 DEF TakeStop
  <1>4. ASSUME NEW s \in Tree, EndTurn(s) \/ StartTurn(s) PROVE RoutingTypeOK'
    BY <1>4 DEF EndTurn, StartTurn
  <1>5. ASSUME NEW s \in Tree, StopSession(s) PROVE RoutingTypeOK'
    <2>1. Stop(s) \in Commands
      BY DEF Commands
    <2> QED BY <1>5, <2>1 DEF StopSession
  <1>6. ASSUME NEW r \in Interactions, NEW v \in BOOLEAN, Answer(r, v)
        PROVE  RoutingTypeOK'
    <2>1. Response(r, v) \in Commands
      BY DEF Answers, Commands
    <2> QED BY <1>6, <2>1 DEF Answer
  <1>7. ASSUME Bubble PROVE RoutingTypeOK'
    <2>1. /\ Head(runtime_events) \in Children \X (1 .. MaxAsks)
          /\ Tail(runtime_events) \in Seq(Children \X (1 .. MaxAsks))
      BY <1>7 DEF Bubble
    <2> QED BY <1>7, <2>1 DEF Bubble, Interactions, Tree
  <1>8. ASSUME RouteResponse PROVE RoutingTypeOK'
    <2>1. Head(core_input) \in Commands /\ Tail(core_input) \in Seq(Commands)
      BY <1>8 DEF RouteResponse
    <2>2. SendTo({ResponseTarget}, Head(core_input))
      BY <1>8 DEF RouteResponse
    <2>3. command_rx' \in [Tree -> Seq(Commands)]
      BY <2>1, <2>2, Sending
    <2> QED BY <1>8, <2>1, <2>3 DEF RouteResponse
  <1>9. ASSUME RouteStop PROVE RoutingTypeOK'
    <2> DEFINE target == Head(core_input).session
               child == IF target = Root THEN pending_child_interactions
                        ELSE NoChild
    <2>1. Head(core_input) \in Commands /\ Tail(core_input) \in Seq(Commands)
      BY <1>9 DEF RouteStop
    <2>2. SendTo({target, child}, Head(core_input))
      BY <1>9 DEF RouteStop
    <2>3. command_rx' \in [Tree -> Seq(Commands)]
      BY <2>1, <2>2, Sending
    <2> QED BY <1>9, <2>1, <2>3 DEF RouteStop
  <1>10. CASE UNCHANGED routing_vars
    BY <1>10
  <1> QED
    BY <1>1, <1>2, <1>3, <1>4, <1>5, <1>6, <1>7, <1>8, <1>9, <1>10
    DEF RoutingNext, AskApproval, AskUser

(***************************************************************************)
(* The stages.                                                             *)
(***************************************************************************)

\* An answer in a queue is an answer: a queue has one, or none.
LEMMA NotBoth ==
  ASSUME NEW queue, NEW request, NoneIn(queue)
  PROVE  ~ OnlyIn(queue, request)
  BY DEF NoneIn, OnlyIn

\* Who asks alone asks when nothing else is open.
LEMMA SettledIsNothing ==
  ASSUME RoutingTypeOK, OneStage, ~ overlapped, Settled
  PROVE  NothingOpen /\ \A s \in Tree : ~ Asking(s)
  <1>1. NoneIn(core_input)
    BY DEF Settled, Underway, NoneIn, IsResponse
  <1>2. NobodyIsAnswered
    BY DEF Settled, InFlight, NobodyIsAnswered, NoneIn, IsResponse
  <1>3. \A s \in Tree : ~ Asking(s)
    BY DEF Settled
  <1>4. shown = {} /\ runtime_events = <<>>
    BY DEF Settled
  <1>5. \A request : ~ Bubbling(request) /\ ~ Showing(request) /\ ~ Answering(request)
    BY <1>1, <1>4, NotBoth DEF Bubbling, Showing, Answering
  <1>6. \A request : \A s \in Tree : ~ Delivered(request, s)
    BY <1>2, NotBoth DEF Delivered, NobodyIsAnswered
  <1> QED BY <1>3, <1>5, <1>6 DEF OneStage

\* A step that neither adds nor takes an answer, and at most ends the entry.
QueuesKeep ==
  /\ UNCHANGED <<runtime_events, shown>>
  /\ pending_child_interactions' \in {pending_child_interactions, NoChild}
  /\ NoneIn(core_input) => NoneIn(core_input')
  /\ \A request : OnlyIn(core_input, request) => OnlyIn(core_input', request)
  /\ \A s \in Tree :
       /\ NoneIn(command_rx[s]) => NoneIn(command_rx'[s])
       /\ \A request : OnlyIn(command_rx[s], request)
                        => OnlyIn(command_rx'[s], request)

LEMMA StageIsKept ==
  ASSUME QueuesKeep, NEW request, NEW s \in Tree
  PROVE  /\ NothingOpen => NothingOpen'
         /\ Bubbling(request) => Bubbling(request)'
         /\ Showing(request) => Showing(request)'
         /\ Answering(request) => Answering(request)'
         /\ Delivered(request, s) => Delivered(request, s)'
  <1>1. /\ UNCHANGED <<runtime_events, shown>>
        /\ pending_child_interactions' \in {pending_child_interactions, NoChild}
        /\ NoneIn(core_input) => NoneIn(core_input')
        /\ OnlyIn(core_input, request) => OnlyIn(core_input', request)
        /\ \A t \in Tree : NoneIn(command_rx[t]) => NoneIn(command_rx'[t])
        /\ OnlyIn(command_rx[s], request) => OnlyIn(command_rx'[s], request)
    BY DEF QueuesKeep
  <1>2. NobodyIsAnswered => NobodyIsAnswered'
    BY <1>1 DEF NobodyIsAnswered
  <1>3. NothingOpen => NothingOpen'
    BY <1>1, <1>2 DEF NothingOpen
  <1>4. Bubbling(request) => Bubbling(request)'
    BY <1>1, <1>2 DEF Bubbling
  <1>5. Showing(request) => Showing(request)'
    BY <1>1, <1>2 DEF Showing, EntryOf
  <1>6. Answering(request) => Answering(request)'
    BY <1>1, <1>2 DEF Answering, EntryOf
  <1>7. Delivered(request, s) => Delivered(request, s)'
    BY <1>1 DEF Delivered
  <1> QED BY <1>3, <1>4, <1>5, <1>6, <1>7

LEMMA OneStageIsKept ==
  ASSUME OneStage, QueuesKeep, UNCHANGED <<made, overlapped>>
  PROVE  OneStage'
  <1>1. CASE overlapped
    BY <1>1 DEF OneStage
  <1>2. CASE NothingOpen
    <2>1. Root \in Tree
      BY DEF Tree
    <2> QED BY <1>2, <2>1, StageIsKept DEF OneStage
  <1>3. ASSUME NEW asker \in Tree,
               LET request == <<asker, made>>
               IN \/ Bubbling(request) \/ Showing(request) \/ Answering(request)
                  \/ \E s \in Tree : Delivered(request, s)
        PROVE  OneStage'
    <2> DEFINE request == <<asker, made>>
    <2>1. request' = request
      OBVIOUS
    <2>2. \/ Bubbling(request)' \/ Showing(request)' \/ Answering(request)'
          \/ \E s \in Tree : Delivered(request, s)'
      BY <1>3, StageIsKept
    <2> QED BY <2>1, <2>2 DEF OneStage
  <1> QED BY <1>1, <1>2, <1>3 DEF OneStage

\* Stops, and the beginnings and ends of turns, leave the answers alone.
LEMMA OthersKeepQueues ==
  ASSUME RoutingTypeOK, NEW s \in Tree,
         TakeStop(s) \/ EndTurn(s) \/ StartTurn(s) \/ StopSession(s)
  PROVE  QueuesKeep
  <1>1. CASE TakeStop(s)
    <2>1. /\ command_rx[s] \in Seq(Commands) /\ command_rx[s] # <<>>
          /\ ~ IsResponse(Head(command_rx[s]))
          /\ \A t \in Tree :
               command_rx'[t] = IF t = s THEN Tail(command_rx[s]) ELSE command_rx[t]
          /\ UNCHANGED <<runtime_events, shown, pending_child_interactions, core_input>>
      BY <1>1 DEF TakeStop, Received, IsResponse, RoutingTypeOK
    <2>2. \A t \in Tree :
            /\ NoneIn(command_rx[t]) => NoneIn(command_rx'[t])
            /\ \A request : OnlyIn(command_rx[t], request)
                             => OnlyIn(command_rx'[t], request)
      BY <2>1, Taking
    <2> QED BY <2>1, <2>2 DEF QueuesKeep
  <1>2. CASE EndTurn(s) \/ StartTurn(s)
    BY <1>2 DEF EndTurn, StartTurn, QueuesKeep
  <1>3. CASE StopSession(s)
    <2>1. /\ core_input \in Seq(Commands) /\ Stop(s) \in Commands
          /\ ~ IsResponse(Stop(s))
          /\ core_input' = Append(core_input, Stop(s))
          /\ UNCHANGED <<runtime_events, shown, pending_child_interactions, command_rx>>
      BY <1>3 DEF StopSession, RoutingTypeOK, Commands, Stop, IsResponse
    <2>2. /\ NoneIn(core_input) => NoneIn(core_input')
          /\ \A request : OnlyIn(core_input, request) => OnlyIn(core_input', request)
      BY <2>1, Appending
    <2> QED BY <2>1, <2>2 DEF QueuesKeep
  <1> QED BY <1>1, <1>2, <1>3

\* Whom a Stop reaches.
StopTargets ==
  {Head(core_input).session,
   IF Head(core_input).session = Root THEN pending_child_interactions ELSE NoChild}

LEMMA RoutedStop ==
  ASSUME RoutingTypeOK, RouteStop
  PROVE  /\ QueuesKeep
         /\ UNCHANGED <<doing, asks, made, overlapped, misanswered>>
         /\ \A s \in Tree :
              /\ StopIn(command_rx[s]) => StopIn(command_rx'[s])
              /\ s \in StopTargets /\ Registered(s) => StopIn(command_rx'[s])
         /\ Head(core_input).session # Root
              => UNCHANGED pending_child_interactions
  <1> DEFINE command == Head(core_input)
  <1>1. /\ core_input \in Seq(Commands) /\ core_input # <<>>
        /\ command \in Commands /\ ~ IsResponse(command)
        /\ core_input' = Tail(core_input)
        /\ UNCHANGED <<runtime_events, shown, doing, asks, made, overlapped,
                       misanswered>>
    BY DEF RouteStop, RoutingTypeOK, IsResponse
  <1>2. /\ SendTo(StopTargets, command)
        /\ pending_child_interactions' =
             IF command.session = Root THEN NoChild ELSE pending_child_interactions
    BY DEF RouteStop, StopTargets
  <1>3. /\ NoneIn(core_input) => NoneIn(core_input')
        /\ \A request : OnlyIn(core_input, request) => OnlyIn(core_input', request)
    BY <1>1, Taking
  <1>4. \A s \in Tree :
          command_rx'[s] = IF s \in StopTargets /\ Registered(s)
                           THEN Append(command_rx[s], command) ELSE command_rx[s]
    BY <1>1, <1>2, Sending
  <1>5. \A s \in Tree : command_rx[s] \in Seq(Commands)
    BY DEF RoutingTypeOK
  <1>6. \A s \in Tree :
          /\ NoneIn(command_rx[s]) => NoneIn(command_rx'[s])
          /\ StopIn(command_rx[s]) => StopIn(command_rx'[s])
          /\ s \in StopTargets /\ Registered(s) => StopIn(command_rx'[s])
          /\ \A request : OnlyIn(command_rx[s], request)
                           => OnlyIn(command_rx'[s], request)
    <2> TAKE s \in Tree
    <2>1. CASE s \in StopTargets /\ Registered(s)
      BY <1>1, <1>4, <1>5, <2>1, Appending
    <2>2. CASE ~ (s \in StopTargets /\ Registered(s))
      <3>1. command_rx'[s] = command_rx[s]
        BY <1>4, <2>2
      <3> QED BY <2>2, <3>1
    <2> QED BY <2>1, <2>2
  <1>7. pending_child_interactions' \in {pending_child_interactions, NoChild}
    BY <1>2
  <1>8. QueuesKeep
    BY <1>1, <1>3, <1>6, <1>7 DEF QueuesKeep
  <1> QED BY <1>1, <1>2, <1>6, <1>8

\* What an answer that the core loop takes was given to, and where it goes.
LEMMA RoutedResponse ==
  ASSUME RoutingTypeOK, RouteResponse, NEW request, Answering(request),
         NEW target, target = ResponseTarget
  PROVE  /\ target \in Tree
         /\ IF Registered(target) THEN Delivered(request, target)' ELSE NothingOpen'
  <1> DEFINE command == Head(core_input)
  <1>1. /\ core_input \in Seq(Commands) /\ core_input # <<>>
        /\ command \in Commands /\ IsResponse(command)
        /\ core_input' = Tail(core_input) /\ pending_child_interactions' = NoChild
        /\ UNCHANGED <<runtime_events, shown>>
        /\ SendTo({target}, command)
    BY DEF RouteResponse, RoutingTypeOK, IsResponse
  <1>2. target \in Tree
    BY DEF ResponseTarget, RoutingTypeOK, Tree
  <1>3. \A s \in Tree :
          command_rx'[s] = IF s \in {target} /\ Registered(s)
                           THEN Append(command_rx[s], command) ELSE command_rx[s]
    BY <1>1, Sending
  <1>4. NoneIn(core_input') /\ command.request = request
    BY <1>1, Taking DEF Answering
  <1>5. runtime_events' = <<>> /\ shown' = {} /\ NobodyIsAnswered
    BY <1>1 DEF Answering
  <1>6. CASE Registered(target)
    <2>1. OnlyIn(command_rx'[target], request)
      <3>1. command_rx'[target] = Append(command_rx[target], command)
        BY <1>2, <1>3, <1>6
      <3>2. command_rx[target] \in Seq(Commands) /\ NoneIn(command_rx[target])
        BY <1>2, <1>5 DEF RoutingTypeOK, NobodyIsAnswered
      <3> QED BY <1>1, <1>4, <3>1, <3>2, Appending
    <2>2. \A s \in Tree \ {target} : NoneIn(command_rx'[s])
      <3> TAKE s \in Tree \ {target}
      <3>1. command_rx'[s] = command_rx[s]
        BY <1>3
      <3> QED BY <1>5, <3>1 DEF NobodyIsAnswered
    <2>3. Delivered(request, target)'
      BY <1>1, <1>4, <1>5, <2>1, <2>2 DEF Delivered
    <2> QED BY <1>2, <1>6, <2>3
  <1>7. CASE ~ Registered(target)
    <2>1. \A s \in Tree : command_rx'[s] = command_rx[s]
      BY <1>3, <1>7
    <2> QED BY <1>1, <1>2, <1>4, <1>5, <1>7, <2>1 DEF NothingOpen, NobodyIsAnswered
  <1> QED BY <1>6, <1>7

\* The client answers what it shows, and nothing else is open.
LEMMA Answered ==
  ASSUME RoutingTypeOK, NEW request, Showing(request),
         NEW r \in Interactions, NEW v \in BOOLEAN, Answer(r, v)
  PROVE  r = request /\ Answering(request)'
  <1>1. /\ core_input \in Seq(Commands) /\ Response(r, v) \in Commands
        /\ IsResponse(Response(r, v)) /\ Response(r, v).request = r
        /\ core_input' = Append(core_input, Response(r, v))
        /\ r \in shown /\ shown' = shown \ {r}
        /\ UNCHANGED <<runtime_events, pending_child_interactions, command_rx>>
    BY DEF Answer, RoutingTypeOK, Commands, Answers, Response, IsResponse
  <1>2. r = request /\ shown' = {}
    BY <1>1 DEF Showing
  <1>3. OnlyIn(core_input', request)
    BY <1>1, <1>2, Appending DEF Showing
  <1> QED
    BY <1>1, <1>2, <1>3 DEF Showing, Answering, EntryOf, NobodyIsAnswered

\* A child's request is shown under its root, with the child as the entry.
LEMMA Bubbled ==
  ASSUME RoutingTypeOK, NEW request, Bubbling(request), Bubble
  PROVE  Showing(request)' /\ pending_child_interactions' = request[1]
  <1>1. /\ Head(runtime_events) = request /\ Tail(runtime_events) = <<>>
        /\ shown = {} /\ NoneIn(core_input) /\ NobodyIsAnswered
    BY DEF Bubbling
  <1>2. /\ runtime_events' = <<>> /\ shown' = {request}
        /\ pending_child_interactions' = request[1]
        /\ UNCHANGED <<core_input, command_rx>>
    BY <1>1 DEF Bubble
  <1> QED
    BY <1>1, <1>2 DEF Showing, EntryOf, NobodyIsAnswered

\* An answer reaches a session when it is the only one there is.
LEMMA CommandTaken ==
  ASSUME RoutingTypeOK, NEW request, NEW t \in Tree, Delivered(request, t),
         NEW s \in Tree, TakeResponse(s)
  PROVE  s = t /\ NothingOpen'
  <1>1. /\ command_rx[s] \in Seq(Commands) /\ command_rx[s] # <<>>
        /\ IsResponse(Head(command_rx[s]))
        /\ \A u \in Tree :
             command_rx'[u] = IF u = s THEN Tail(command_rx[s]) ELSE command_rx[u]
        /\ UNCHANGED <<runtime_events, shown, pending_child_interactions, core_input>>
    BY DEF TakeResponse, Received, IsResponse, RoutingTypeOK, client_vars
  <1>2. ~ NoneIn(command_rx[s])
    BY <1>1, Taking
  <1>3. s = t
    BY <1>2 DEF Delivered
  <1>4. NoneIn(command_rx'[s])
    BY <1>1, <1>3, Taking DEF Delivered
  <1>5. \A u \in Tree : NoneIn(command_rx'[u])
    BY <1>1, <1>3, <1>4 DEF Delivered
  <1> QED
    BY <1>1, <1>3, <1>5 DEF Delivered, NothingOpen, NobodyIsAnswered

\* Who has an answer in its queue is where the request is.
LEMMA TakenIsDelivered ==
  ASSUME RoutingTypeOK, NEW s \in Tree, TakeResponse(s), NEW request
  PROVE  /\ ~ NothingOpen /\ ~ Bubbling(request) /\ ~ Showing(request)
         /\ ~ Answering(request)
  <1>1. /\ command_rx[s] \in Seq(Commands) /\ command_rx[s] # <<>>
        /\ IsResponse(Head(command_rx[s]))
    BY DEF TakeResponse, Received, IsResponse, RoutingTypeOK
  <1>2. ~ NobodyIsAnswered
    BY <1>1, Taking DEF NobodyIsAnswered
  <1> QED BY <1>2 DEF NothingOpen, Bubbling, Showing, Answering

\* The core loop takes an answer only while one is underway.
LEMMA RoutedIsAnswering ==
  ASSUME RoutingTypeOK, RouteResponse, NEW request, NEW s \in Tree
  PROVE  /\ ~ NothingOpen /\ ~ Bubbling(request) /\ ~ Showing(request)
         /\ ~ Delivered(request, s)
  <1>1. /\ core_input \in Seq(Commands) /\ core_input # <<>>
        /\ IsResponse(Head(core_input))
    BY DEF RouteResponse, IsResponse, RoutingTypeOK
  <1>2. ~ NoneIn(core_input)
    BY <1>1, Taking
  <1> QED BY <1>2 DEF NothingOpen, Bubbling, Showing, Delivered

\* A request that is asked alone begins its way.
LEMMA Begun ==
  ASSUME RoutingTypeOK, NothingOpen, NEW s \in Tree,
         NEW kind \in {"approval", "question"}, Ask(s, kind),
         NEW request, request = <<s, made + 1>>
  PROVE  IF s = Root THEN Showing(request)' ELSE Bubbling(request)'
  <1>1. UNCHANGED <<core_input, pending_child_interactions, command_rx>>
    BY DEF Ask
  <1>2. CASE s = Root
    <2>1. runtime_events' = <<>> /\ shown' = {request}
      BY <1>2 DEF Ask, NothingOpen
    <2>2. Showing(request)'
      BY <1>1, <2>1 DEF Showing, NothingOpen, EntryOf, NobodyIsAnswered
    <2> QED BY <1>1, <1>2, <2>2
  <1>3. CASE s # Root
    <2>1. runtime_events' = <<request>> /\ shown' = {}
      BY <1>3 DEF Ask, NothingOpen
    <2>2. Bubbling(request)'
      BY <1>1, <2>1 DEF Bubbling, NothingOpen, NobodyIsAnswered
    <2> QED BY <1>1, <1>3, <2>2
  <1> QED BY <1>2, <1>3

\* What was not so before the step was never so.
LEMMA HistoryGrows ==
  ASSUME [RoutingNext]_routing_vars
  PROVE  (overlapped => overlapped') /\ (misanswered => misanswered')
  <1>1. ASSUME NEW s \in Tree, NEW kind, Ask(s, kind)
        PROVE  (overlapped => overlapped') /\ (misanswered => misanswered')
    BY <1>1, Zenon DEF Ask
  <1>2. ASSUME NEW s \in Tree, TakeResponse(s)
        PROVE  (overlapped => overlapped') /\ (misanswered => misanswered')
    BY <1>2, Zenon DEF TakeResponse
  <1> QED
    BY <1>1, <1>2
    DEF RoutingNext, AskApproval, AskUser, TakeStop, EndTurn, StartTurn, StopSession,
        Answer, Bubble, RouteResponse, RouteStop

LEMMA OneStageStep ==
  ASSUME RoutingTypeOK, OneStage, [RoutingNext]_routing_vars
  PROVE  OneStage'
  <1> DEFINE Stage(request) ==
               \/ Bubbling(request) \/ Showing(request) \/ Answering(request)
               \/ \E s \in Tree : Delivered(request, s)
  <1> SUFFICES ASSUME ~ overlapped' PROVE OneStage'
    BY DEF OneStage
  <1> ~ overlapped
    BY HistoryGrows
  <1>1. NothingOpen \/ \E asker \in Tree : Stage(<<asker, made>>)
    BY DEF OneStage
  <1>2. ASSUME NEW asker \in Tree, NEW request, request = <<asker, made>>',
               Stage(request)'
        PROVE  OneStage'
    BY <1>2 DEF OneStage
  <1>3. NothingOpen' => OneStage'
    BY DEF OneStage
  <1>4. ASSUME NEW s \in Tree, NEW kind \in {"approval", "question"}, Ask(s, kind)
        PROVE  OneStage'
    <2>1. made' = made + 1 /\ Settled
      BY <1>4 DEF Ask
    <2>2. NothingOpen
      BY <2>1, SettledIsNothing
    <2>3. PICK request : request = <<s, made + 1>>
      OBVIOUS
    <2>4. Stage(request)'
      BY <1>4, <2>2, <2>3, Begun
    <2> QED BY <1>2, <2>1, <2>3, <2>4
  <1>5. ASSUME NEW s \in Tree, TakeResponse(s) PROVE OneStage'
    <2>1. PICK asker \in Tree : Stage(<<asker, made>>)
      BY <1>1, <1>5, TakenIsDelivered
    <2>2. \E t \in Tree : Delivered(<<asker, made>>, t)
      BY <1>5, <2>1, TakenIsDelivered
    <2>3. NothingOpen'
      BY <1>5, <2>2, CommandTaken
    <2> QED BY <1>3, <2>3
  <1>6. ASSUME NEW s \in Tree,
               TakeStop(s) \/ EndTurn(s) \/ StartTurn(s) \/ StopSession(s)
        PROVE  OneStage'
    <2>1. UNCHANGED <<made, overlapped>>
      BY <1>6 DEF TakeStop, EndTurn, StartTurn, StopSession
    <2> QED BY <1>6, <2>1, OthersKeepQueues, OneStageIsKept
  <1>7. ASSUME NEW r \in Interactions, NEW v \in BOOLEAN, Answer(r, v)
        PROVE  OneStage'
    <2>1. PICK asker \in Tree : Showing(<<asker, made>>)
      BY <1>1, <1>7
      DEF Answer, NothingOpen, Bubbling, Answering, Delivered
    <2>2. PICK request : request = <<asker, made>>
      OBVIOUS
    <2>3. Answering(request)' /\ made' = made
      BY <1>7, <2>1, <2>2, Answered DEF Answer
    <2> QED BY <1>2, <2>2, <2>3
  <1>8. ASSUME Bubble PROVE OneStage'
    <2>1. PICK asker \in Tree : Bubbling(<<asker, made>>)
      BY <1>1, <1>8
      DEF Bubble, NothingOpen, Showing, Answering, Delivered
    <2>2. PICK request : request = <<asker, made>>
      OBVIOUS
    <2>3. Showing(request)' /\ made' = made
      BY <1>8, <2>1, <2>2, Bubbled DEF Bubble
    <2> QED BY <1>2, <2>2, <2>3
  <1>9. ASSUME RouteResponse PROVE OneStage'
    <2>1. PICK asker \in Tree : Stage(<<asker, made>>)
      BY <1>1, <1>9, RoutedIsAnswering DEF Tree
    <2>2. PICK request : request = <<asker, made>>
      OBVIOUS
    <2>3. Answering(request)
      BY <1>9, <2>1, <2>2, RoutedIsAnswering
    <2>4. PICK target : target = ResponseTarget
      OBVIOUS
    <2>5. NothingOpen' \/ Stage(request)'
      BY <1>9, <2>3, <2>4, RoutedResponse
    <2>6. made' = made
      BY <1>9 DEF RouteResponse
    <2> QED BY <1>2, <1>3, <2>2, <2>5, <2>6
  <1>10. CASE RouteStop
    BY <1>10, RoutedStop, OneStageIsKept
  <1>11. CASE UNCHANGED routing_vars
    BY <1>11, OneStageIsKept DEF QueuesKeep
  <1> QED
    BY <1>4, <1>5, <1>6, <1>7, <1>8, <1>9, <1>10, <1>11
    DEF RoutingNext, AskApproval, AskUser

\* A step that keeps the queues keeps the way of a request, unless it ends the
\* entry the way goes by.
LEMMA AwaitedIsKept ==
  ASSUME QueuesKeep, NEW s \in Tree, Awaited(s), asks'[s] = asks[s], made' = made,
         \/ UNCHANGED pending_child_interactions
         \/ s # Root /\ s # pending_child_interactions
  PROVE  Awaited(s)'
  <1> DEFINE request == <<s, made>>
  <1>1. request' = request
    OBVIOUS
  <1>2. CASE Bubbling(request)
    BY <1>1, <1>2, StageIsKept DEF Awaited
  <1>3. CASE /\ s = Root \/ pending_child_interactions = s
             /\ Showing(request) \/ Answering(request)
    <2>1. UNCHANGED pending_child_interactions
      BY <1>3
    <2> QED BY <1>1, <1>3, <2>1, StageIsKept DEF Awaited
  <1>4. CASE Delivered(request, s)
    BY <1>1, <1>4, StageIsKept DEF Awaited
  <1> QED BY <1>2, <1>3, <1>4 DEF Awaited

LEMMA AskedIsAwaitedStep ==
  ASSUME RoutingTypeOK, OneStage, AskedIsAwaited, [RoutingNext]_routing_vars
  PROVE  AskedIsAwaited'
  <1> SUFFICES ASSUME ~ overlapped', ~ misanswered', NEW s \in Tree, Asking(s)'
               PROVE  StopIn(command_rx'[s]) \/ Awaited(s)'
    BY DEF AskedIsAwaited
  <1> DEFINE Waits == StopIn(command_rx[s]) \/ Awaited(s)
  <1>1. ~ overlapped /\ ~ misanswered
    BY HistoryGrows
  <1>2. Asking(s) => Waits
    BY <1>1 DEF AskedIsAwaited
  <1>3. doing \in [Tree -> {"working", "approval", "question", "idle", "exited"}]
    BY DEF RoutingTypeOK
  <1>4. ASSUME NEW t \in Tree, NEW kind \in {"approval", "question"}, Ask(t, kind)
        PROVE  Awaited(s)'
    <2>1. /\ Settled /\ made' = made + 1 /\ asks' = [asks EXCEPT ![t] = made + 1]
          /\ doing' = [doing EXCEPT ![t] = kind]
      BY <1>4 DEF Ask
    <2>2. NothingOpen /\ ~ Asking(s)
      BY <1>1, <2>1, SettledIsNothing
    <2>3. s = t /\ asks'[s] = made'
      BY <1>3, <2>1, <2>2 DEF Asking, RoutingTypeOK
    <2>4. PICK request : request = <<s, made + 1>>
      OBVIOUS
    <2>5. IF s = Root THEN Showing(request)' ELSE Bubbling(request)'
      BY <1>4, <2>2, <2>3, <2>4, Begun
    <2> QED BY <2>1, <2>3, <2>4, <2>5 DEF Awaited
  <1>5. ASSUME NEW t \in Tree, TakeResponse(t)
        PROVE  StopIn(command_rx'[s])
    <2> DEFINE response == Head(command_rx[t])
               refused == doing[t] = "approval" /\ ~ response.valid
               accepted == Asking(t) /\ ~ refused
    <2>1. /\ doing' = IF accepted THEN [doing EXCEPT ![t] = "working"] ELSE doing
          /\ ~ refused
      BY <1>5 DEF TakeResponse
    <2>2. s # t /\ Asking(s)
      <3>1. CASE accepted
        BY <1>3, <2>1, <3>1 DEF Asking
      <3>2. CASE ~ accepted
        BY <2>1, <3>2 DEF Asking
      <3> QED BY <3>1, <3>2
    <2>3. ~ Awaited(s)
      BY <1>5, <2>2, TakenIsDelivered, CommandTaken DEF Awaited
    <2>4. command_rx'[s] = command_rx[s]
      BY <1>5, <2>2 DEF TakeResponse, Received, RoutingTypeOK
    <2> QED BY <1>2, <2>2, <2>3, <2>4
  <1>6. ASSUME NEW t \in Tree,
               TakeStop(t) \/ EndTurn(t) \/ StartTurn(t) \/ StopSession(t)
        PROVE  StopIn(command_rx'[s]) \/ Awaited(s)'
    <2>1. QueuesKeep
      BY <1>6, OthersKeepQueues
    <2>2. Asking(s) /\ command_rx'[s] = command_rx[s]
      BY <1>3, <1>6
      DEF TakeStop, Received, EndTurn, StartTurn, StopSession, Asking, RoutingTypeOK
    <2>3. UNCHANGED <<asks, made, pending_child_interactions>>
      BY <1>6 DEF TakeStop, EndTurn, StartTurn, StopSession
    <2>4. Awaited(s) => Awaited(s)'
      BY <2>1, <2>3, AwaitedIsKept
    <2> QED BY <1>2, <2>2, <2>4
  <1>7. ASSUME NEW r \in Interactions, NEW v \in BOOLEAN, Answer(r, v)
        PROVE  StopIn(command_rx'[s]) \/ Awaited(s)'
    <2>1. Waits /\ UNCHANGED <<asks, made, command_rx, pending_child_interactions>>
      BY <1>2, <1>7 DEF Answer, Asking
    <2>2. ASSUME Awaited(s) PROVE Awaited(s)'
      <3>1. PICK request : request = <<s, made>>
        OBVIOUS
      <3>2. Showing(request) /\ (s = Root \/ pending_child_interactions = s)
        BY <1>7, <2>2, <3>1 DEF Awaited, Answer, Bubbling, Answering, Delivered
      <3>3. Answering(request)'
        BY <1>7, <3>2, Answered
      <3> QED BY <2>1, <2>2, <3>1, <3>2, <3>3 DEF Awaited
    <2> QED BY <2>1, <2>2
  <1>8. ASSUME Bubble PROVE StopIn(command_rx'[s]) \/ Awaited(s)'
    <2>1. Waits /\ UNCHANGED <<asks, made, command_rx>>
      BY <1>2, <1>8 DEF Bubble, Asking
    <2>2. ASSUME Awaited(s) PROVE Awaited(s)'
      <3>1. PICK request : request = <<s, made>>
        OBVIOUS
      <3>2. Bubbling(request)
        BY <1>8, <2>2, <3>1 DEF Awaited, Bubble, Showing, Answering, Delivered
      <3>3. Showing(request)' /\ pending_child_interactions' = s
        BY <1>8, <3>1, <3>2, Bubbled
      <3> QED BY <2>1, <2>2, <3>1, <3>3 DEF Awaited
    <2> QED BY <2>1, <2>2
  <1>9. ASSUME RouteResponse PROVE StopIn(command_rx'[s]) \/ Awaited(s)'
    <2>1. /\ Asking(s) /\ Waits
          /\ UNCHANGED <<asks, made>>
      BY <1>2, <1>9 DEF RouteResponse, Asking
    <2>2. ASSUME Awaited(s) PROVE Awaited(s)'
      <3>1. PICK request : request = <<s, made>>
        OBVIOUS
      <3>2. Answering(request) /\ (s = Root \/ pending_child_interactions = s)
        BY <1>9, <2>2, <3>1, RoutedIsAnswering DEF Awaited
      <3>3. s # NoChild
        BY RoutingAssumption DEF Tree
      <3>4. s = ResponseTarget
        BY <3>1, <3>2, <3>3, RoutingAssumption
        DEF ResponseTarget, Answering, EntryOf, RoutingTypeOK
      <3>5. Registered(s)
        BY <2>1, <3>3 DEF Registered, Asking
      <3>6. Delivered(request, s)'
        BY <1>9, <3>2, <3>4, <3>5, RoutedResponse
      <3> QED BY <2>1, <2>2, <3>1, <3>6 DEF Awaited
    <2>3. ASSUME StopIn(command_rx[s]) PROVE StopIn(command_rx'[s])
      <3>1. /\ Head(core_input) \in Commands
            /\ SendTo({ResponseTarget}, Head(core_input))
        BY <1>9 DEF RouteResponse, RoutingTypeOK
      <3>2. \/ command_rx'[s] = command_rx[s]
            \/ command_rx'[s] = Append(command_rx[s], Head(core_input))
        BY <3>1, Sending
      <3>3. command_rx[s] \in Seq(Commands)
        BY DEF RoutingTypeOK
      <3> QED BY <2>3, <3>1, <3>2, <3>3, Appending
    <2> QED BY <2>1, <2>2, <2>3
  <1>10. CASE RouteStop
    <2>1. /\ Asking(s) /\ Waits /\ s # NoChild
      BY <1>2, <1>10, RoutingAssumption DEF RouteStop, Asking, Tree
    <2>2. Registered(s)
      BY <2>1 DEF Registered, Asking
    <2>3. CASE StopIn(command_rx[s]) \/ s \in StopTargets
      BY <1>10, <2>2, <2>3, RoutedStop
    <2>4. CASE Awaited(s) /\ s \notin StopTargets
      <3>1. \/ UNCHANGED pending_child_interactions
            \/ s # Root /\ s # pending_child_interactions
        BY <1>10, <2>4, RoutedStop DEF StopTargets
      <3> QED BY <1>10, <2>4, <3>1, RoutedStop, AwaitedIsKept
    <2> QED BY <2>1, <2>3, <2>4
  <1>11. CASE UNCHANGED routing_vars
    <2>1. Asking(s) /\ QueuesKeep
      BY <1>11 DEF Asking, QueuesKeep
    <2> QED BY <1>2, <1>11, <2>1, AwaitedIsKept
  <1> QED
    BY <1>4, <1>5, <1>6, <1>7, <1>8, <1>9, <1>10, <1>11
    DEF RoutingNext, AskApproval, AskUser

(***************************************************************************)
(* Theorems.                                                               *)
(***************************************************************************)

LEMMA RoutingStarts ==
  ASSUME RoutingInit
  PROVE  RoutingInv
  <1>1. RoutingTypeOK
    <2>1. 0 \in 0 .. MaxAsks /\ 0 \in 0 .. MaxStops
      BY RoutingAssumption
    <2>2. <<>> \in Seq(Commands) /\ <<>> \in Seq(Children \X (1 .. MaxAsks))
      OBVIOUS
    <2>3. command_rx \in [Tree -> Seq(Commands)]
      BY <2>2 DEF RoutingInit
    <2>4. /\ doing \in [Tree -> {"working", "approval", "question", "idle", "exited"}]
          /\ asks \in [Tree -> 0 .. MaxAsks]
      BY <2>1 DEF RoutingInit
    <2> QED BY <2>1, <2>2, <2>3, <2>4 DEF RoutingInit, RoutingTypeOK
  <1>2. NothingOpen
    BY DEF RoutingInit, NothingOpen, NobodyIsAnswered, NoneIn
  <1>3. \A s \in Tree : ~ Asking(s)
    BY DEF RoutingInit, Asking
  <1> QED BY <1>1, <1>2, <1>3 DEF RoutingInv, OneStage, AskedIsAwaited

LEMMA RoutingInvariant == RoutingSpec => []RoutingInv
  <1>1. RoutingInv /\ [RoutingNext]_routing_vars => RoutingInv'
    BY RoutingTypeStep, OneStageStep, AskedIsAwaitedStep DEF RoutingInv
  <1> QED BY RoutingStarts, <1>1, PTL DEF RoutingSpec

\* The channels hold what the core loop and the actors expect of them: only
\* children bubble, and every answer names a request that was made
\* (emit_interaction_needed, engine.rs:4786).
THEOREM RoutingTypeCorrect == RoutingSpec => []RoutingTypeOK
  <1>1. RoutingInv => RoutingTypeOK
    BY DEF RoutingInv
  <1> QED BY RoutingInvariant, <1>1, PTL

\* A question or an approval that is asked alone is never lost
\* (engine.rs:4786, 6734, 6920): the request is on its way to a client, or its
\* answer on its way back to who asked, or who asked is about to be stopped.
THEOREM AskIsNeverLostCorrect == RoutingSpec => []AskIsNeverLost
  <1>1. RoutingInv => AskIsNeverLost
    <2> SUFFICES ASSUME RoutingTypeOK, AskedIsAwaited, ~ overlapped, ~ misanswered,
                        NEW s \in Tree, Asking(s)
                 PROVE  LET request == Current(s)
                            routed == s = Root \/ pending_child_interactions = s
                            IsStop(command) == command.kind = "Stop"
                            stopping == Exists(command_rx[s], IsStop)
                                          \/ Exists(core_input, IsStop)
                        IN \/ \E i \in DOMAIN runtime_events : runtime_events[i] = request
                           \/ request \in shown /\ (routed \/ stopping)
                           \/ routed /\ \E i \in Underway : core_input[i].request = request
                           \/ \E i \in InFlight(s) : command_rx[s][i].request = request
                           \/ stopping
      BY DEF RoutingInv, AskIsNeverLost
    <2> DEFINE request == Current(s)
               routed == s = Root \/ pending_child_interactions = s
    <2>1. CASE StopIn(command_rx[s])
      BY <2>1 DEF StopIn, Exists
    <2>2. CASE Awaited(s)
      <3>1. request = <<s, made>>
        BY <2>2 DEF Current, Awaited
      <3>2. CASE Bubbling(request)
        <4>1. 1 \in DOMAIN runtime_events /\ runtime_events[1] = request
          BY <3>2 DEF Bubbling
        <4> QED BY <4>1
      <3>3. CASE routed /\ Showing(request)
        <4>1. request \in shown /\ routed
          BY <3>3 DEF Showing
        <4> QED BY <4>1
      <3>4. CASE routed /\ Answering(request)
        <4>1. routed /\ \E i \in Underway : core_input[i].request = request
          BY <3>4 DEF Answering, OnlyIn, IsResponse, Underway
        <4> QED BY <4>1
      <3>5. CASE Delivered(request, s)
        <4>1. \E i \in InFlight(s) : command_rx[s][i].request = request
          BY <3>5 DEF Delivered, OnlyIn, IsResponse, InFlight
        <4> QED BY <4>1
      <3> QED BY <2>2, <3>1, <3>2, <3>3, <3>4, <3>5 DEF Awaited
    <2> QED BY <2>1, <2>2 DEF AskedIsAwaited
  <1> QED BY RoutingInvariant, <1>1, PTL

--------------------------------------------------------------------------------
(* The scheduler.                                                           *)

USE DEF sched_vars, core_call_vars, history_vars, scheduler_vars

--------------------------------------------------------------------------------
(* The inductive invariant.                                                 *)

\* An entry of a channel that is to put a message into the heap.
IsFor(command, m) == command.kind = "Schedule" /\ command.message = m
Scheduling(channel, m) == \E i \in DOMAIN channel : IsFor(channel[i], m)
ScheduledOnce(channel, m) ==
  \A i, j \in DOMAIN channel : IsFor(channel[i], m) /\ IsFor(channel[j], m) => i = j

IsQueued(queue, m) == \E i \in DOMAIN queue : queue[i].message = m
QueuedOnce(queue, m) ==
  \A i, j \in DOMAIN queue : queue[i].message = m /\ queue[j].message = m => i = j

\* The types of what the proof is about.
BeatTypeOK ==
  /\ clock \in Nat /\ sched_now \in Nat /\ sched_now <= clock /\ clock <= MaxTime
  /\ input \in Seq(SchedulerInputs)
  /\ scheduler_rx \in Seq(SchedulerCommands)
  /\ sched_at = "sending" =>
       sending \in [kind : {"UserMessage"}, message : Messages]
  /\ pending \in Seq(Queued)
  /\ first \in [Messages -> Nat]
  /\ dispatched \in [Messages -> Nat]

\* A message is in one place at most, and there once: with the client, in the
\* core's input, in the scheduler's channel or in the heap.  Nothing was
\* dispatched of a message that was not in the heap yet.
InOnePlace ==
  \A m \in Messages :
    /\ m \notin asked => ~ Scheduling(input, m)
    /\ m \notin asked \/ Scheduling(input, m) => ~ Scheduling(scheduler_rx, m)
    /\ m \notin asked \/ Scheduling(input, m) \/ Scheduling(scheduler_rx, m) =>
         ~ IsQueued(pending, m) /\ dispatched[m] = 0
    /\ ScheduledOnce(input, m) /\ ScheduledOnce(scheduler_rx, m) /\ QueuedOnce(pending, m)

BeatInv == BeatTypeOK /\ InOnePlace /\ KeepsItsBeat

--------------------------------------------------------------------------------
(* Channels and the heap.                                                   *)

LEMMA Appended ==
  ASSUME NEW S, NEW channel \in Seq(S), NEW command \in S, NEW m
  PROVE  /\ Append(channel, command) \in Seq(S)
         /\ Scheduling(Append(channel, command), m)
              => Scheduling(channel, m) \/ IsFor(command, m)
         /\ ScheduledOnce(channel, m) /\ ~ (Scheduling(channel, m) /\ IsFor(command, m))
              => ScheduledOnce(Append(channel, command), m)
<1>1. PICK longer : longer = Append(channel, command)
  OBVIOUS
<1>2. /\ longer \in Seq(S) /\ Len(channel) \in Nat
      /\ DOMAIN channel = 1 .. Len(channel) /\ DOMAIN longer = 1 .. Len(channel) + 1
      /\ \A i \in DOMAIN channel : longer[i] = channel[i]
      /\ longer[Len(channel) + 1] = command
  BY <1>1
<1>3. ASSUME NEW i \in DOMAIN longer
      PROVE  i \in DOMAIN channel \/ (i = Len(channel) + 1 /\ longer[i] = command)
  BY <1>2
<1>4. ASSUME Scheduling(longer, m) PROVE Scheduling(channel, m) \/ IsFor(command, m)
  <2>1. PICK i \in DOMAIN longer : IsFor(longer[i], m)
    BY <1>4 DEF Scheduling
  <2> QED
    BY <1>2, <1>3, <2>1 DEF Scheduling
<1>5. ASSUME ScheduledOnce(channel, m), ~ (Scheduling(channel, m) /\ IsFor(command, m)),
             NEW i \in DOMAIN longer, NEW j \in DOMAIN longer,
             IsFor(longer[i], m), IsFor(longer[j], m)
      PROVE  i = j
  <2>1. CASE i \in DOMAIN channel /\ j \in DOMAIN channel
    BY <1>2, <1>5, <2>1 DEF ScheduledOnce
  <2>2. CASE i \in DOMAIN channel /\ j \notin DOMAIN channel
    BY <1>2, <1>3, <1>5, <2>2 DEF Scheduling
  <2>3. CASE i \notin DOMAIN channel /\ j \in DOMAIN channel
    BY <1>2, <1>3, <1>5, <2>3 DEF Scheduling
  <2>4. CASE i \notin DOMAIN channel /\ j \notin DOMAIN channel
    BY <1>3, <2>4
  <2> QED
    BY <2>1, <2>2, <2>3, <2>4
<1> QED
  BY <1>1, <1>2, <1>4, <1>5 DEF ScheduledOnce

LEMMA HeadTaken ==
  ASSUME NEW S, NEW channel \in Seq(S), channel # <<>>, NEW m
  PROVE  /\ Tail(channel) \in Seq(S) /\ Head(channel) \in S
         /\ Scheduling(Tail(channel), m) => Scheduling(channel, m)
         /\ IsFor(Head(channel), m) => Scheduling(channel, m)
         /\ ScheduledOnce(channel, m) => ScheduledOnce(Tail(channel), m)
         /\ ScheduledOnce(channel, m) /\ IsFor(Head(channel), m)
              => ~ Scheduling(Tail(channel), m)
<1>1. PICK rest : rest = Tail(channel)
  OBVIOUS
<1>2. /\ rest \in Seq(S) /\ Len(channel) \in Nat /\ Len(channel) >= 1
      /\ DOMAIN channel = 1 .. Len(channel) /\ DOMAIN rest = 1 .. Len(channel) - 1
      /\ \A i \in DOMAIN rest : rest[i] = channel[i + 1]
      /\ Head(channel) = channel[1] /\ Head(channel) \in S
  BY <1>1
<1>3. \A i \in DOMAIN rest : i \in Nat /\ i + 1 \in DOMAIN channel /\ i + 1 # 1
  BY <1>2
<1>4. 1 \in DOMAIN channel
  BY <1>2
<1>5. ASSUME Scheduling(rest, m)
      PROVE  \E i \in DOMAIN channel : i # 1 /\ IsFor(channel[i], m)
  <2>1. PICK i \in DOMAIN rest : IsFor(rest[i], m)
    BY <1>5 DEF Scheduling
  <2>2. IsFor(channel[i + 1], m)
    BY <1>2, <2>1
  <2> QED
    BY <1>3, <2>2
<1>6. ASSUME ScheduledOnce(channel, m), NEW i \in DOMAIN rest, NEW j \in DOMAIN rest,
             IsFor(rest[i], m), IsFor(rest[j], m)
      PROVE  i = j
  <2>1. i + 1 \in DOMAIN channel /\ j + 1 \in DOMAIN channel
    BY <1>3
  <2>2. IsFor(channel[i + 1], m) /\ IsFor(channel[j + 1], m)
    BY <1>2, <1>6
  <2>3. i + 1 = j + 1
    BY <1>6, <2>1, <2>2 DEF ScheduledOnce
  <2> QED
    BY <1>3, <2>3
<1>7. Scheduling(rest, m) => Scheduling(channel, m)
  BY <1>5 DEF Scheduling
<1>8. IsFor(Head(channel), m) => Scheduling(channel, m)
  BY <1>2, <1>4 DEF Scheduling
<1>9. ScheduledOnce(channel, m) => ScheduledOnce(rest, m)
  BY <1>6 DEF ScheduledOnce
<1>10. ScheduledOnce(channel, m) /\ IsFor(Head(channel), m) => ~ Scheduling(rest, m)
  BY <1>2, <1>4, <1>5 DEF ScheduledOnce
<1> QED
  BY <1>1, <1>2, <1>7, <1>8, <1>9, <1>10

LEMMA Popped ==
  ASSUME NEW queue \in Seq(Queued), queue # <<>>
  PROVE  /\ Tail(queue) \in Seq(Queued) /\ Head(queue) \in Queued
         /\ Head(queue) = queue[1] /\ 1 \in DOMAIN queue
         /\ \A i \in DOMAIN Tail(queue) :
              \E j \in DOMAIN queue : j # 1 /\ Tail(queue)[i] = queue[j]
         /\ \A m : QueuedOnce(queue, m) => QueuedOnce(Tail(queue), m)
         /\ \A m : QueuedOnce(queue, m) /\ Head(queue).message = m
                     => ~ IsQueued(Tail(queue), m)
<1>1. PICK rest : rest = Tail(queue)
  OBVIOUS
<1>2. /\ rest \in Seq(Queued) /\ Len(queue) \in Nat /\ Len(queue) >= 1
      /\ DOMAIN queue = 1 .. Len(queue) /\ DOMAIN rest = 1 .. Len(queue) - 1
      /\ \A i \in DOMAIN rest : rest[i] = queue[i + 1]
      /\ Head(queue) = queue[1] /\ Head(queue) \in Queued
  BY <1>1
<1>3. \A i \in DOMAIN rest : i \in Nat /\ i + 1 \in DOMAIN queue /\ i + 1 # 1
  BY <1>2
<1>4. 1 \in DOMAIN queue
  BY <1>2
<1>5. \A i \in DOMAIN rest : \E j \in DOMAIN queue : j # 1 /\ rest[i] = queue[j]
  BY <1>2, <1>3
<1>6. ASSUME NEW m, QueuedOnce(queue, m), NEW i \in DOMAIN rest, NEW j \in DOMAIN rest,
             rest[i].message = m, rest[j].message = m
      PROVE  i = j
  <2>1. /\ i + 1 \in DOMAIN queue /\ j + 1 \in DOMAIN queue
        /\ queue[i + 1].message = m /\ queue[j + 1].message = m
    BY <1>2, <1>3, <1>6
  <2>2. i + 1 = j + 1
    BY <1>6, <2>1 DEF QueuedOnce
  <2> QED
    BY <1>3, <2>2
<1>7. ASSUME NEW m, QueuedOnce(queue, m), queue[1].message = m,
             NEW i \in DOMAIN rest, rest[i].message = m
      PROVE  FALSE
  <2>1. PICK j \in DOMAIN queue : j # 1 /\ rest[i] = queue[j]
    BY <1>5
  <2> QED
    BY <1>4, <1>7, <2>1 DEF QueuedOnce
<1>8. \A m : QueuedOnce(queue, m) => QueuedOnce(rest, m)
  BY <1>6 DEF QueuedOnce
<1>9. \A m : QueuedOnce(queue, m) /\ Head(queue).message = m => ~ IsQueued(rest, m)
  BY <1>2, <1>7 DEF IsQueued
<1> QED
  BY <1>1, <1>2, <1>4, <1>5, <1>8, <1>9

\* A queue with one entry more.
HasOneMore(next, queue, queued) ==
  /\ next \in Seq(Queued)
  /\ \A i \in DOMAIN next : next[i] = queued \/ \E j \in DOMAIN queue : next[i] = queue[j]
  /\ \A m : IsQueued(next, m) => IsQueued(queue, m) \/ queued.message = m
  /\ \A m : QueuedOnce(queue, m) /\ ~ (IsQueued(queue, m) /\ queued.message = m)
              => QueuedOnce(next, m)

\* BinaryHeap::push adds one entry, wherever it comes.
LEMMA Pushed ==
  ASSUME NEW queue \in Seq(Queued), NEW queued \in Queued
  PROVE  HasOneMore(Push(queue, queued), queue, queued)
<1> DEFINE earlier == {i \in DOMAIN queue : queue[i].execute_at <= queued.execute_at}
           before == Cardinality(earlier)
           n == Len(queue)
<1>1. n \in Nat /\ DOMAIN queue = 1 .. n
  OBVIOUS
<1>2. before \in 0 .. n
  <2>1. IsFiniteSet(1 .. n) /\ Cardinality(1 .. n) = n
    <3>1. 1 \in Int /\ n \in Int /\ n >= 0
      BY <1>1
    <3>2. Cardinality(1 .. n) = IF 1 > n THEN 0 ELSE n - 1 + 1
      BY <3>1, FS_Interval
    <3> QED
      BY <1>1, <3>1, <3>2, FS_Interval
  <2>2. earlier \subseteq 1 .. n
    BY <1>1
  <2>3. IsFiniteSet(earlier) /\ Cardinality(earlier) <= Cardinality(1 .. n)
    BY <2>1, <2>2, FS_Subset
  <2>4. Cardinality(earlier) \in Nat
    BY <2>3, FS_CardinalityType
  <2> QED
    BY <1>1, <2>1, <2>3, <2>4
<1>3. Push(queue, queued) =
        SubSeq(queue, 1, (before + 1) - 1) \o <<queued>> \o SubSeq(queue, before + 1, n)
  BY DEF Push, InsertAt
<1> HIDE DEF earlier, before
<1>4. (before + 1) - 1 = before
  BY <1>2
<1> DEFINE low == SubSeq(queue, 1, before)
           high == SubSeq(queue, before + 1, n)
<1>5. /\ low \in Seq(Queued) /\ Len(low) = before
      /\ \A i \in 1 .. before : low[i] = queue[i]
  BY <1>1, <1>2
<1>6. /\ high \in Seq(Queued) /\ Len(high) = n - before
      /\ \A i \in 1 .. n - before : high[i] = queue[before + i]
  BY <1>1, <1>2
<1>7. PICK more : more = low \o <<queued>> \o high
  OBVIOUS
<1>8. Push(queue, queued) = more
  BY <1>3, <1>4, <1>7
<1> HIDE DEF low, high, n
<1>9. <<queued>> \in Seq(Queued) /\ Len(<<queued>>) = 1 /\ <<queued>>[1] = queued
  OBVIOUS
<1>10. PICK half : half = low \o <<queued>>
  OBVIOUS
<1>11. half \in Seq(Queued) /\ Len(half) = before + 1
  BY <1>2, <1>5, <1>9, <1>10
<1>12. /\ \A i \in 1 .. before : half[i] = queue[i]
       /\ half[before + 1] = queued
  BY <1>2, <1>5, <1>9, <1>10
<1>13. more = half \o high
  BY <1>7, <1>10
<1>14. more \in Seq(Queued) /\ Len(more) = n + 1
  <2>1. half \in Seq(Queued) /\ high \in Seq(Queued)
    BY <1>6, <1>11
  <2>2. half \o high \in Seq(Queued) /\ Len(half \o high) = Len(half) + Len(high)
    BY <2>1
  <2> QED
    BY <1>1, <1>2, <1>6, <1>11, <1>13, <2>2
<1>15. ASSUME NEW i \in 1 .. before PROVE more[i] = queue[i] /\ i \in DOMAIN queue
  <2>1. i \in 1 .. Len(half) /\ i \in DOMAIN queue
    BY <1>1, <1>2, <1>11
  <2>2. (half \o high)[i] = half[i]
    BY <1>6, <1>11, <2>1
  <2> QED
    BY <1>12, <1>13, <2>1, <2>2
<1>16. more[before + 1] = queued
  <2>1. before + 1 \in 1 .. Len(half)
    BY <1>2, <1>11
  <2>2. (half \o high)[before + 1] = half[before + 1]
    BY <1>6, <1>11, <2>1
  <2> QED
    BY <1>12, <1>13, <2>2
<1>17. ASSUME NEW i \in before + 2 .. n + 1
       PROVE  more[i] = queue[i - 1] /\ i - 1 \in DOMAIN queue
  <2>1. PICK k : k = i - (before + 1)
    OBVIOUS
  <2>2. k \in 1 .. n - before /\ i = (before + 1) + k /\ before + k = i - 1 /\ i - 1 \in 1 .. n
    BY <1>1, <1>2, <2>1
  <2>3. \A j \in 1 .. Len(high) : (half \o high)[Len(half) + j] = high[j]
    BY <1>6, <1>11
  <2>4. (half \o high)[(before + 1) + k] = high[k]
    BY <1>6, <1>11, <2>2, <2>3
  <2>5. high[k] = queue[before + k]
    BY <1>6, <2>2
  <2> QED
    BY <1>1, <1>13, <2>2, <2>4, <2>5
<1>18. ASSUME NEW i \in DOMAIN more
       PROVE  i \in 1 .. before \/ i = before + 1 \/ i \in before + 2 .. n + 1
  BY <1>1, <1>2, <1>14
<1>19. \A i \in DOMAIN more : more[i] = queued \/ \E j \in DOMAIN queue : more[i] = queue[j]
  BY <1>15, <1>16, <1>17, <1>18
<1>20. ASSUME NEW m, IsQueued(more, m) PROVE IsQueued(queue, m) \/ queued.message = m
  BY <1>19, <1>20 DEF IsQueued
<1>21. ASSUME NEW m, QueuedOnce(queue, m), ~ (IsQueued(queue, m) /\ queued.message = m),
              NEW i \in DOMAIN more, NEW j \in DOMAIN more,
              more[i].message = m, more[j].message = m
       PROVE  i = j
  <2>1. CASE queued.message = m
    <3>1. \A k \in DOMAIN queue : queue[k].message # m
      BY <1>21, <2>1 DEF IsQueued
    <3>2. ASSUME NEW k \in DOMAIN more, more[k].message = m PROVE k = before + 1
      BY <1>15, <1>17, <1>18, <3>1, <3>2
    <3> QED
      BY <1>21, <3>2
  <2>2. CASE queued.message # m
    <3> DEFINE Old(k) == IF k \in 1 .. before THEN k ELSE k - 1
    <3>1. ASSUME NEW k \in DOMAIN more, more[k].message = m
          PROVE  /\ Old(k) \in DOMAIN queue /\ queue[Old(k)].message = m
                 /\ k \in 1 .. before \/ k \in before + 2 .. n + 1
      <4>1. k # before + 1
        BY <1>16, <2>2, <3>1
      <4>2. CASE k \in 1 .. before
        BY <1>15, <3>1, <4>2
      <4>3. CASE k \in before + 2 .. n + 1
        <5>1. k \notin 1 .. before
          BY <1>1, <1>2, <4>3
        <5> QED
          BY <1>17, <3>1, <4>3, <5>1
      <4> QED
        BY <1>18, <4>1, <4>2, <4>3
    <3>2. Old(i) = Old(j)
      BY <1>21, <3>1 DEF QueuedOnce
    <3>3. i \in 1 .. before \/ i \in before + 2 .. n + 1
      BY <1>21, <3>1
    <3>4. j \in 1 .. before \/ j \in before + 2 .. n + 1
      BY <1>21, <3>1
    <3> QED
      BY <1>1, <1>2, <3>2, <3>3, <3>4
  <2> QED
    BY <2>1, <2>2
<1> QED
  BY <1>8, <1>14, <1>19, <1>20, <1>21 DEF QueuedOnce, HasOneMore

--------------------------------------------------------------------------------
(* The steps.                                                               *)

LEMMA CommandFacts ==
  ASSUME SchedulerAssumption, NEW command \in SchedulerCommands
  PROVE  /\ command.kind = "Schedule" =>
              /\ command.message \in Messages /\ command.delay \in Nat
              /\ command.cadence \in Cadences
         /\ command.kind # "UserMessage"
         /\ command \in SchedulerInputs
  BY DEF SchedulerCommands, SchedulerInputs, SchedulerAssumption

LEMMA InputFacts ==
  ASSUME NEW operation \in SchedulerInputs, operation.kind # "UserMessage"
  PROVE  operation \in SchedulerCommands
  BY DEF SchedulerInputs

LEMMA BeatInit ==
  ASSUME SchedulerAssumption, SchedulerInit PROVE BeatInv
<1>1. /\ clock = 0 /\ sched_now = 0 /\ input = <<>> /\ scheduler_rx = <<>> /\ pending = <<>>
      /\ sched_at = "drain" /\ asked = {}
      /\ first = [m \in Messages |-> 0] /\ dispatched = [m \in Messages |-> 0]
  BY DEF SchedulerInit
<1>2. MaxTime \in Nat
  BY DEF SchedulerAssumption
<1>3. BeatTypeOK
  <2>1. input \in Seq(SchedulerInputs) /\ scheduler_rx \in Seq(SchedulerCommands)
        /\ pending \in Seq(Queued)
    BY <1>1
  <2> QED
    BY <1>1, <1>2, <2>1 DEF BeatTypeOK
<1>4. DOMAIN <<>> = {}
  OBVIOUS
<1>5. InOnePlace
  BY <1>1, <1>4 DEF InOnePlace, Scheduling, ScheduledOnce, IsQueued, QueuedOnce
<1>6. KeepsItsBeat
  BY <1>1, <1>4 DEF KeepsItsBeat
<1> QED
  BY <1>3, <1>5, <1>6 DEF BeatInv

\* Time passes, the core joins, the scheduler sleeps or wakes up.
LEMMA RestingSteps ==
  ASSUME BeatInv, SchedulerAssumption,
         TimePasses \/ CoreJoins \/ Drained \/ WakeUp \/ UNCHANGED scheduler_vars
  PROVE  BeatInv'
<1>1. UNCHANGED <<input, scheduler_rx, pending, asked, first, dispatched, sending>>
  BY DEF TimePasses, CoreJoins, Drained, WakeUp
<1>2. clock \in Nat /\ MaxTime \in Nat
  BY DEF BeatInv, BeatTypeOK, SchedulerAssumption
<1>3. clock' \in Nat /\ sched_now' \in Nat /\ sched_now' <= clock' /\ clock' <= MaxTime
  <2>1. CASE TimePasses
    BY <1>2, <2>1 DEF BeatInv, BeatTypeOK, TimePasses
  <2>2. CASE CoreJoins \/ Drained \/ UNCHANGED scheduler_vars
    BY <2>2 DEF BeatInv, BeatTypeOK, CoreJoins, Drained
  <2>3. CASE WakeUp
    BY <1>2, <2>3 DEF BeatInv, BeatTypeOK, WakeUp, LoopHead
  <2> QED
    BY <2>1, <2>2, <2>3
<1>4. sched_at' = "sending" => sched_at = "sending"
  BY DEF TimePasses, CoreJoins, Drained, WakeUp, LoopHead
<1>5. BeatTypeOK'
  BY <1>1, <1>3, <1>4 DEF BeatInv, BeatTypeOK
<1>6. InOnePlace' /\ KeepsItsBeat'
  BY <1>1 DEF BeatInv, InOnePlace, KeepsItsBeat
<1> QED
  BY <1>5, <1>6 DEF BeatInv

LEMMA ClientStep ==
  ASSUME BeatInv, SchedulerAssumption, Client
  PROVE  BeatInv'
<1>0. PICK operation \in SchedulerCommands :
        \E what : /\ operation.kind = "Schedule" => what = operation.message
                 /\ Request(what, operation)
  <2>1. PICK operation \in SchedulerCommands :
          LET what == CASE operation.kind = "Schedule" -> operation.message
                        [] operation.kind = "Shutdown" -> "Shutdown"
                        [] OTHER -> operation.request
          IN Request(what, operation)
    BY DEF Client
  <2> DEFINE what == CASE operation.kind = "Schedule" -> operation.message
                       [] operation.kind = "Shutdown" -> "Shutdown"
                       [] OTHER -> operation.request
  <2>2. Request(what, operation)
    BY <2>1
  <2>3. operation.kind = "Schedule" => what = operation.message
    OBVIOUS
  <2> QED
    BY <2>2, <2>3
<1>1. PICK what : /\ operation.kind = "Schedule" => what = operation.message
                  /\ Request(what, operation)
  BY <1>0
<1>2. /\ what \notin asked /\ input' = Append(input, operation) /\ asked' = asked \cup {what}
      /\ UNCHANGED <<clock, core_call_vars, sched_vars, first, dispatched>>
  BY <1>1 DEF Request
<1>3. operation \in SchedulerInputs /\ input \in Seq(SchedulerInputs)
  BY CommandFacts DEF BeatInv, BeatTypeOK
<1>4. BeatTypeOK'
  <2>1. input' \in Seq(SchedulerInputs)
    BY <1>2, <1>3
  <2> QED
    BY <1>2, <2>1 DEF BeatInv, BeatTypeOK
<1>5. InOnePlace'
  <2> SUFFICES ASSUME NEW m \in Messages
               PROVE  /\ m \notin asked' => ~ Scheduling(input', m)
                      /\ m \notin asked' \/ Scheduling(input', m) =>
                           ~ Scheduling(scheduler_rx', m)
                      /\ m \notin asked' \/ Scheduling(input', m) \/ Scheduling(scheduler_rx', m) =>
                           ~ IsQueued(pending', m) /\ dispatched'[m] = 0
                      /\ ScheduledOnce(input', m) /\ ScheduledOnce(scheduler_rx', m)
                      /\ QueuedOnce(pending', m)
    BY DEF InOnePlace
  <2>1. /\ m \notin asked => ~ Scheduling(input, m)
        /\ m \notin asked \/ Scheduling(input, m) => ~ Scheduling(scheduler_rx, m)
        /\ m \notin asked \/ Scheduling(input, m) \/ Scheduling(scheduler_rx, m) =>
             ~ IsQueued(pending, m) /\ dispatched[m] = 0
        /\ ScheduledOnce(input, m) /\ ScheduledOnce(scheduler_rx, m) /\ QueuedOnce(pending, m)
    BY DEF BeatInv, InOnePlace
  <2>2. IsFor(operation, m) => m = what
    BY <1>1 DEF IsFor
  <2>3. /\ Scheduling(input', m) => Scheduling(input, m) \/ IsFor(operation, m)
        /\ ScheduledOnce(input, m) /\ ~ (Scheduling(input, m) /\ IsFor(operation, m))
             => ScheduledOnce(input', m)
    BY <1>2, <1>3, Appended
  <2>4. UNCHANGED <<scheduler_rx, pending, dispatched>>
    BY <1>2
  <2> QED
    BY <1>2, <2>1, <2>2, <2>3, <2>4
<1>6. KeepsItsBeat'
  BY <1>2 DEF BeatInv, KeepsItsBeat
<1> QED
  BY <1>4, <1>5, <1>6 DEF BeatInv

LEMMA CoreUserMessageStep ==
  ASSUME BeatInv, SchedulerAssumption, CoreUserMessage
  PROVE  BeatInv'
<1>1. /\ input # <<>> /\ input' = Tail(input)
      /\ UNCHANGED <<clock, core_call_vars, sched_vars, asked, first, dispatched>>
  BY DEF CoreUserMessage, CoreTakes
<1>2. input \in Seq(SchedulerInputs)
  BY DEF BeatInv, BeatTypeOK
<1>3. BeatTypeOK'
  <2>1. input' \in Seq(SchedulerInputs)
    BY <1>1, <1>2
  <2> QED
    BY <1>1, <2>1 DEF BeatInv, BeatTypeOK
<1>4. \A m : /\ Scheduling(input', m) => Scheduling(input, m)
             /\ ScheduledOnce(input, m) => ScheduledOnce(input', m)
  BY <1>1, <1>2, HeadTaken
<1>5. InOnePlace'
  <2>1. UNCHANGED <<scheduler_rx, pending, asked, dispatched>>
    BY <1>1
  <2> QED
    BY <1>4, <2>1 DEF BeatInv, InOnePlace
<1>6. KeepsItsBeat'
  BY <1>1 DEF BeatInv, KeepsItsBeat
<1> QED
  BY <1>3, <1>5, <1>6 DEF BeatInv

LEMMA CorePassesOnStep ==
  ASSUME BeatInv, SchedulerAssumption, CorePassesOn
  PROVE  BeatInv'
<1>1. PICK operation : operation = Head(input)
  OBVIOUS
<1>2. /\ input # <<>> /\ input' = Tail(input) /\ operation.kind # "UserMessage"
      /\ scheduler_rx' = Append(scheduler_rx, operation)
      /\ UNCHANGED <<clock, sched_vars, history_vars>>
  BY <1>1 DEF CorePassesOn, CoreTakes
<1>3. input \in Seq(SchedulerInputs) /\ scheduler_rx \in Seq(SchedulerCommands)
  BY DEF BeatInv, BeatTypeOK
<1>4. operation \in SchedulerCommands
  <2>1. operation \in SchedulerInputs
    BY <1>1, <1>2, <1>3
  <2> QED
    BY <1>2, <2>1, InputFacts
<1>5. BeatTypeOK'
  <2>1. input' \in Seq(SchedulerInputs) /\ scheduler_rx' \in Seq(SchedulerCommands)
    BY <1>2, <1>3, <1>4
  <2> QED
    BY <1>2, <2>1 DEF BeatInv, BeatTypeOK
<1>6. InOnePlace'
  <2> SUFFICES ASSUME NEW m \in Messages
               PROVE  /\ m \notin asked' => ~ Scheduling(input', m)
                      /\ m \notin asked' \/ Scheduling(input', m) =>
                           ~ Scheduling(scheduler_rx', m)
                      /\ m \notin asked' \/ Scheduling(input', m) \/ Scheduling(scheduler_rx', m) =>
                           ~ IsQueued(pending', m) /\ dispatched'[m] = 0
                      /\ ScheduledOnce(input', m) /\ ScheduledOnce(scheduler_rx', m)
                      /\ QueuedOnce(pending', m)
    BY DEF InOnePlace
  <2>1. /\ m \notin asked => ~ Scheduling(input, m)
        /\ m \notin asked \/ Scheduling(input, m) => ~ Scheduling(scheduler_rx, m)
        /\ m \notin asked \/ Scheduling(input, m) \/ Scheduling(scheduler_rx, m) =>
             ~ IsQueued(pending, m) /\ dispatched[m] = 0
        /\ ScheduledOnce(input, m) /\ ScheduledOnce(scheduler_rx, m) /\ QueuedOnce(pending, m)
    BY DEF BeatInv, InOnePlace
  <2>2. /\ Scheduling(input', m) => Scheduling(input, m)
        /\ IsFor(operation, m) => Scheduling(input, m)
        /\ ScheduledOnce(input, m) => ScheduledOnce(input', m)
        /\ ScheduledOnce(input, m) /\ IsFor(operation, m) => ~ Scheduling(input', m)
    BY <1>1, <1>2, <1>3, HeadTaken
  <2>3. /\ Scheduling(scheduler_rx', m) => Scheduling(scheduler_rx, m) \/ IsFor(operation, m)
        /\ ScheduledOnce(scheduler_rx, m) /\ ~ (Scheduling(scheduler_rx, m) /\ IsFor(operation, m))
             => ScheduledOnce(scheduler_rx', m)
    BY <1>2, <1>3, <1>4, Appended
  <2>4. UNCHANGED <<pending, asked, dispatched>>
    BY <1>2
  <2> QED
    BY <2>1, <2>2, <2>3, <2>4
<1>7. KeepsItsBeat'
  BY <1>2 DEF BeatInv, KeepsItsBeat
<1> QED
  BY <1>5, <1>6, <1>7 DEF BeatInv

LEMMA DispatchSendsStep ==
  ASSUME BeatInv, SchedulerAssumption, DispatchSends
  PROVE  BeatInv'
<1>1. /\ sched_at = "sending" /\ sched_at' = "drain" /\ input' = Append(input, sending)
      /\ UNCHANGED <<clock, core_call_vars, sched_now, pending, history_vars>>
  BY DEF DispatchSends
<1>2. sending \in [kind : {"UserMessage"}, message : Messages] /\ input \in Seq(SchedulerInputs)
  BY <1>1 DEF BeatInv, BeatTypeOK
<1>3. sending \in SchedulerInputs /\ sending.kind = "UserMessage"
  BY <1>2 DEF SchedulerInputs
<1>4. BeatTypeOK'
  <2>1. input' \in Seq(SchedulerInputs)
    BY <1>1, <1>2, <1>3
  <2> QED
    BY <1>1, <2>1 DEF BeatInv, BeatTypeOK
<1>5. \A m : ~ IsFor(sending, m)
  BY <1>3 DEF IsFor
<1>6. \A m : /\ Scheduling(input', m) => Scheduling(input, m)
             /\ ScheduledOnce(input, m) => ScheduledOnce(input', m)
  BY <1>1, <1>2, <1>3, <1>5, Appended
<1>7. InOnePlace'
  <2>1. UNCHANGED <<scheduler_rx, pending, asked, dispatched>>
    BY <1>1
  <2> QED
    BY <1>6, <2>1 DEF BeatInv, InOnePlace
<1>8. KeepsItsBeat'
  BY <1>1 DEF BeatInv, KeepsItsBeat
<1> QED
  BY <1>4, <1>7, <1>8 DEF BeatInv

\* An entry of the heap that keeps its beat.
Beats(entry, at, n) ==
  /\ entry.cadence # Once => entry.execute_at = at + n * entry.cadence
  /\ entry.cadence = Once => n = 0

LEMMA BeatOfEach ==
  KeepsItsBeat <=> \A i \in DOMAIN pending :
    Beats(pending[i], first[pending[i].message], dispatched[pending[i].message])
  BY DEF KeepsItsBeat, Beats

\* The counter of dispatches does not stop while a period lasts.
LEMMA NextBeat ==
  ASSUME NEW at \in Nat, NEW n \in Nat, NEW cadence \in Nat, MaxTime \in Nat,
         at + n * cadence <= MaxTime
  PROVE  at + n * cadence + cadence = at + Saturated(n) * cadence
<1>1. CASE cadence = 0
  <2>1. n * 0 = 0 /\ (n + 1) * 0 = 0
    OBVIOUS
  <2> QED
    BY <1>1, <2>1 DEF Saturated
<1>2. CASE cadence # 0
  <2>1. n <= n * cadence
    BY <1>2
  <2>2. n * cadence \in Nat
    OBVIOUS
  <2>3. ~ n > MaxTime
    BY <2>1, <2>2
  <2>4. Saturated(n) = n + 1
    BY <2>3 DEF Saturated
  <2>5. (n + 1) * cadence = n * cadence + cadence
    OBVIOUS
  <2> QED
    BY <2>2, <2>4, <2>5
<1> QED
  BY <1>1, <1>2

LEMMA DispatchStep ==
  ASSUME BeatInv, SchedulerAssumption, Dispatch
  PROVE  BeatInv'
<1>1. PICK q : q = Head(pending)
  OBVIOUS
<1>2. /\ pending # <<>> /\ q.execute_at <= sched_now
      /\ pending' = Requeued(Tail(pending), q)
      /\ sending' = [kind |-> "UserMessage", message |-> q.message]
      /\ sched_at' = "sending"
      /\ dispatched' = [dispatched EXCEPT ![q.message] = Saturated(@)]
      /\ UNCHANGED <<clock, input, core_call_vars, sched_now, asked, first>>
  BY <1>1 DEF Dispatch, Due
<1>3. /\ pending \in Seq(Queued) /\ sched_now \in Nat /\ clock \in Nat /\ MaxTime \in Nat
      /\ sched_now <= clock /\ clock <= MaxTime
      /\ first \in [Messages -> Nat] /\ dispatched \in [Messages -> Nat]
  BY DEF BeatInv, BeatTypeOK, SchedulerAssumption
<1>4. PICK rest : rest = Tail(pending)
  OBVIOUS
<1>5. /\ rest \in Seq(Queued) /\ q \in Queued /\ q = pending[1] /\ 1 \in DOMAIN pending
      /\ \A i \in DOMAIN rest : \E j \in DOMAIN pending : j # 1 /\ rest[i] = pending[j]
      /\ \A m : QueuedOnce(pending, m) => QueuedOnce(rest, m)
      /\ \A m : QueuedOnce(pending, m) /\ q.message = m => ~ IsQueued(rest, m)
  BY <1>1, <1>2, <1>3, <1>4, Popped
<1>6. PICK me : me = q.message
  OBVIOUS
<1>7. me \in Messages /\ q.execute_at \in Nat /\ q.cadence \in Cadences
  BY <1>5, <1>6 DEF Queued
<1>8. PICK n : n = dispatched[me]
  OBVIOUS
<1>9. n \in Nat /\ first[me] \in Nat
  BY <1>3, <1>7, <1>8
<1>10. /\ Saturated(n) \in Nat
       /\ dispatched' \in [Messages -> Nat] /\ dispatched'[me] = Saturated(n)
       /\ \A m \in Messages : m # me => dispatched'[m] = dispatched[m]
  <2>1. Saturated(n) \in Nat
    BY <1>9 DEF Saturated
  <2> QED
    BY <1>2, <1>3, <1>6, <1>7, <1>8, <2>1
<1>11. Beats(q, first[me], n)
  BY <1>5, <1>6, <1>8, BeatOfEach DEF BeatInv
<1>12. \A m \in Messages : QueuedOnce(pending, m)
  BY DEF BeatInv, InOnePlace
<1>13. QueuedOnce(rest, me) /\ ~ IsQueued(rest, me) /\ IsQueued(pending, me)
  BY <1>5, <1>6, <1>7, <1>12 DEF IsQueued
<1>14. ASSUME NEW i \in DOMAIN rest
       PROVE  /\ rest[i].message \in Messages
              /\ Beats(rest[i], first[rest[i].message], dispatched'[rest[i].message])
  <2>1. PICK j \in DOMAIN pending : j # 1 /\ rest[i] = pending[j]
    BY <1>5
  <2>2. rest[i] \in Queued
    BY <1>5
  <2>3. rest[i].message \in Messages
    BY <2>2 DEF Queued
  <2>4. rest[i].message # me
    BY <1>13 DEF IsQueued
  <2>5. Beats(rest[i], first[rest[i].message], dispatched[rest[i].message])
    BY <2>1, BeatOfEach DEF BeatInv
  <2>6. dispatched'[rest[i].message] = dispatched[rest[i].message]
    BY <1>10, <2>3, <2>4
  <2> QED
    BY <2>3, <2>5, <2>6
<1>15. ASSUME NEW m, IsQueued(rest, m) PROVE IsQueued(pending, m)
  BY <1>5, <1>15 DEF IsQueued
\* The heap after the dispatch.
<1>16. /\ pending' \in Seq(Queued)
       /\ \A i \in DOMAIN pending' :
            Beats(pending'[i], first[pending'[i].message], dispatched'[pending'[i].message])
       /\ \A m \in Messages : IsQueued(pending', m) => IsQueued(pending, m)
       /\ \A m \in Messages : QueuedOnce(pending', m)
  <2>1. CASE q.cadence = Once
    <3>1. pending' = rest
      BY <1>2, <1>4, <2>1 DEF Requeued
    <3>2. \A m \in Messages : QueuedOnce(rest, m)
      BY <1>5, <1>12
    <3> QED
      BY <1>5, <1>14, <1>15, <3>1, <3>2
  <2>2. CASE q.cadence # Once
    <3>1. q.cadence \in Nat
      BY <1>7, <2>2 DEF SchedulerAssumption
    <3>2. PICK e : e = [q EXCEPT !.execute_at = @ + q.cadence]
      OBVIOUS
    <3>3. /\ e = [execute_at |-> q.execute_at + q.cadence, message |-> q.message,
                  cadence |-> q.cadence]
      BY <1>5, <3>2 DEF Queued
    <3>4. e \in Queued /\ e.message = me
      BY <1>6, <1>7, <3>1, <3>3 DEF Queued
    <3>5. q.execute_at = first[me] + n * q.cadence
      BY <1>11, <2>2 DEF Beats
    <3>6. first[me] + n * q.cadence <= MaxTime
      BY <1>2, <1>3, <1>7, <3>5
    <3>7. first[me] + n * q.cadence + q.cadence = first[me] + Saturated(n) * q.cadence
      <4>1. PICK at \in Nat, cadence \in Nat : at = first[me] /\ cadence = q.cadence
        BY <1>9, <3>1
      <4>2. at + n * cadence <= MaxTime
        BY <3>6, <4>1
      <4>3. at + n * cadence + cadence = at + Saturated(n) * cadence
        BY <1>3, <1>9, <4>2, NextBeat
      <4> QED
        BY <4>1, <4>3
    <3>8. Beats(e, first[e.message], dispatched'[e.message])
      BY <1>10, <2>2, <3>3, <3>4, <3>5, <3>7 DEF Beats
    <3>9. PICK next : next = pending'
      OBVIOUS
    <3>10. next = Push(rest, e)
      BY <1>2, <1>4, <2>2, <3>2, <3>9 DEF Requeued
    <3>11. /\ next \in Seq(Queued)
           /\ \A i \in DOMAIN next : next[i] = e \/ \E j \in DOMAIN rest : next[i] = rest[j]
           /\ \A m : IsQueued(next, m) => IsQueued(rest, m) \/ e.message = m
           /\ \A m : QueuedOnce(rest, m) /\ ~ (IsQueued(rest, m) /\ e.message = m)
                       => QueuedOnce(next, m)
      <4>1. HasOneMore(next, rest, e)
        BY <1>5, <3>4, <3>10, Pushed
      <4> QED
        BY <4>1 DEF HasOneMore
    <3>12. \A i \in DOMAIN next :
             Beats(next[i], first[next[i].message], dispatched'[next[i].message])
      BY <1>14, <3>8, <3>11
    <3>13. \A m \in Messages : IsQueued(next, m) => IsQueued(pending, m)
      BY <1>13, <1>15, <3>4, <3>11
    <3>14. \A m \in Messages : QueuedOnce(next, m)
      BY <1>5, <1>12, <1>13, <3>4, <3>11
    <3> QED
      BY <3>9, <3>11, <3>12, <3>13, <3>14
  <2> QED
    BY <2>1, <2>2
<1>17. BeatTypeOK'
  <2>1. sending' \in [kind : {"UserMessage"}, message : Messages]
    BY <1>2, <1>6, <1>7
  <2> QED
    BY <1>2, <1>10, <1>16, <2>1 DEF BeatInv, BeatTypeOK
<1>18. InOnePlace'
  <2>1. UNCHANGED <<input, scheduler_rx, asked>>
    BY <1>2
  <2> SUFFICES ASSUME NEW m \in Messages
               PROVE  /\ m \notin asked => ~ Scheduling(input, m)
                      /\ m \notin asked \/ Scheduling(input, m) =>
                           ~ Scheduling(scheduler_rx, m)
                      /\ m \notin asked \/ Scheduling(input, m) \/ Scheduling(scheduler_rx, m) =>
                           ~ IsQueued(pending', m) /\ dispatched'[m] = 0
                      /\ ScheduledOnce(input, m) /\ ScheduledOnce(scheduler_rx, m)
                      /\ QueuedOnce(pending', m)
    BY <2>1 DEF InOnePlace
  <2>2. /\ m \notin asked => ~ Scheduling(input, m)
        /\ m \notin asked \/ Scheduling(input, m) => ~ Scheduling(scheduler_rx, m)
        /\ m \notin asked \/ Scheduling(input, m) \/ Scheduling(scheduler_rx, m) =>
             ~ IsQueued(pending, m) /\ dispatched[m] = 0
        /\ ScheduledOnce(input, m) /\ ScheduledOnce(scheduler_rx, m)
    BY DEF BeatInv, InOnePlace
  <2>3. ASSUME m \notin asked \/ Scheduling(input, m) \/ Scheduling(scheduler_rx, m)
        PROVE  ~ IsQueued(pending', m) /\ dispatched'[m] = 0
    <3>1. ~ IsQueued(pending, m) /\ dispatched[m] = 0
      BY <2>2, <2>3
    <3>2. m # me
      BY <1>13, <3>1
    <3> QED
      BY <1>10, <1>16, <3>1, <3>2
  <2> QED
    BY <1>16, <2>2, <2>3
<1>19. KeepsItsBeat'
  <2>1. first' = first
    BY <1>2
  <2> QED
    BY <1>16, <2>1 DEF KeepsItsBeat, Beats
<1> QED
  BY <1>17, <1>18, <1>19 DEF BeatInv

\* What the scheduler receives is no longer in its channel.
LEMMA BatchReceived ==
  ASSUME BeatInv, NEW kinds, Receive(kinds)
  PROVE  /\ scheduler_rx # <<>> /\ Head(scheduler_rx).kind \in kinds
         /\ Head(scheduler_rx) \in SchedulerCommands
         /\ UNCHANGED <<clock, input, asked, dispatched>>
         /\ sched_now' = clock /\ sched_at' = "drain"
         /\ scheduler_rx' \in Seq(SchedulerCommands)
         /\ \A m : /\ Scheduling(scheduler_rx', m) => Scheduling(scheduler_rx, m)
                   /\ ScheduledOnce(scheduler_rx, m) => ScheduledOnce(scheduler_rx', m)
                   /\ IsFor(Head(scheduler_rx), m) => Scheduling(scheduler_rx, m)
                   /\ ScheduledOnce(scheduler_rx, m) /\ IsFor(Head(scheduler_rx), m)
                        => ~ Scheduling(scheduler_rx', m)
<1>1. /\ scheduler_rx # <<>> /\ Head(scheduler_rx).kind \in kinds
      /\ scheduler_rx' = Tail(scheduler_rx)
      /\ sched_now' = clock /\ sched_at' = "drain"
      /\ UNCHANGED <<clock, input, asked, dispatched>>
  BY DEF Receive, LoopHead
<1>2. scheduler_rx \in Seq(SchedulerCommands)
  BY DEF BeatInv, BeatTypeOK
<1> QED
  BY <1>1, <1>2, HeadTaken

LEMMA HandleScheduleStep ==
  ASSUME BeatInv, SchedulerAssumption, HandleSchedule
  PROVE  BeatInv'
<1>1. PICK command : command = Head(scheduler_rx)
  OBVIOUS
<1>2. PICK due : due = clock + command.delay
  OBVIOUS
<1>3. PICK q : q = [execute_at |-> due, message |-> command.message, cadence |-> command.cadence]
  OBVIOUS
<1>4. /\ Receive({"Schedule"})
      /\ pending' = Push(pending, q)
      /\ first' = [first EXCEPT ![command.message] = due]
  BY <1>1, <1>2, <1>3 DEF HandleSchedule
<1>5. /\ command.kind = "Schedule" /\ command \in SchedulerCommands
      /\ UNCHANGED <<clock, input, asked, dispatched>>
      /\ sched_now' = clock /\ sched_at' = "drain"
      /\ scheduler_rx' \in Seq(SchedulerCommands)
      /\ \A m : /\ Scheduling(scheduler_rx', m) => Scheduling(scheduler_rx, m)
                /\ ScheduledOnce(scheduler_rx, m) => ScheduledOnce(scheduler_rx', m)
                /\ IsFor(command, m) => Scheduling(scheduler_rx, m)
                /\ ScheduledOnce(scheduler_rx, m) /\ IsFor(command, m)
                     => ~ Scheduling(scheduler_rx', m)
  BY <1>1, <1>4, BatchReceived
<1>6. PICK me : me = command.message
  OBVIOUS
<1>7. /\ me \in Messages /\ command.delay \in Nat /\ command.cadence \in Cadences
      /\ IsFor(command, me)
  BY <1>5, <1>6, CommandFacts DEF IsFor
<1>8. /\ clock \in Nat /\ clock <= MaxTime /\ pending \in Seq(Queued)
      /\ first \in [Messages -> Nat] /\ dispatched \in [Messages -> Nat]
  BY DEF BeatInv, BeatTypeOK
<1>9. due \in Nat /\ q \in Queued /\ q.message = me /\ q.execute_at = due
  <2>1. due \in Nat
    BY <1>2, <1>7, <1>8
  <2> QED
    BY <1>3, <1>6, <1>7, <2>1 DEF Queued
<1>10. /\ first' \in [Messages -> Nat] /\ first'[me] = due
       /\ \A m \in Messages : m # me => first'[m] = first[m]
  BY <1>4, <1>6, <1>7, <1>8, <1>9
<1>11. /\ Scheduling(scheduler_rx, me) /\ ~ Scheduling(scheduler_rx', me)
       /\ me \in asked /\ ~ Scheduling(input, me)
       /\ ~ IsQueued(pending, me) /\ dispatched[me] = 0
  <2>1. Scheduling(scheduler_rx, me) /\ ~ Scheduling(scheduler_rx', me)
    BY <1>5, <1>7 DEF BeatInv, InOnePlace
  <2> QED
    BY <1>7, <2>1 DEF BeatInv, InOnePlace
<1>12. PICK next : next = pending'
  OBVIOUS
<1>13. /\ next \in Seq(Queued)
       /\ \A i \in DOMAIN next : next[i] = q \/ \E j \in DOMAIN pending : next[i] = pending[j]
       /\ \A m : IsQueued(next, m) => IsQueued(pending, m) \/ q.message = m
       /\ \A m : QueuedOnce(pending, m) /\ ~ (IsQueued(pending, m) /\ q.message = m)
                   => QueuedOnce(next, m)
  <2>1. HasOneMore(next, pending, q)
    BY <1>4, <1>8, <1>9, <1>12, Pushed
  <2> QED
    BY <2>1 DEF HasOneMore
<1>14. ASSUME NEW i \in DOMAIN next
       PROVE  Beats(next[i], first'[next[i].message], dispatched[next[i].message])
  <2>1. CASE next[i] = q
    <3>1. due + 0 * command.cadence = due \/ command.cadence = Once
      <4>1. ASSUME command.cadence # Once PROVE due + 0 * command.cadence = due
        <5>1. PICK cadence \in Nat : cadence = command.cadence
          BY <1>7, <4>1 DEF SchedulerAssumption
        <5>2. 0 * cadence = 0
          OBVIOUS
        <5> QED
          BY <1>9, <5>1, <5>2
      <4> QED
        BY <4>1
    <3>2. q.cadence = command.cadence
      BY <1>3
    <3> QED
      BY <1>9, <1>10, <1>11, <2>1, <3>1, <3>2 DEF Beats
  <2>2. ASSUME NEW j \in DOMAIN pending, next[i] = pending[j]
        PROVE  Beats(next[i], first'[next[i].message], dispatched[next[i].message])
    <3>1. pending[j] \in Queued
      BY <1>8
    <3>2. pending[j].message \in Messages
      BY <3>1 DEF Queued
    <3>3. pending[j].message # me
      BY <1>11 DEF IsQueued
    <3>4. Beats(pending[j], first[pending[j].message], dispatched[pending[j].message])
      BY BeatOfEach DEF BeatInv
    <3> QED
      BY <1>10, <2>2, <3>2, <3>3, <3>4
  <2> QED
    BY <1>13, <2>1, <2>2
<1>15. BeatTypeOK'
  <2>1. pending' \in Seq(Queued)
    BY <1>12, <1>13
  <2> QED
    BY <1>5, <1>8, <1>10, <2>1 DEF BeatInv, BeatTypeOK
<1>16. InOnePlace'
  <2>1. UNCHANGED <<input, asked, dispatched>> /\ pending' = next
    BY <1>5, <1>12
  <2> SUFFICES ASSUME NEW m \in Messages
               PROVE  /\ m \notin asked => ~ Scheduling(input, m)
                      /\ m \notin asked \/ Scheduling(input, m) =>
                           ~ Scheduling(scheduler_rx', m)
                      /\ m \notin asked \/ Scheduling(input, m) \/ Scheduling(scheduler_rx', m) =>
                           ~ IsQueued(next, m) /\ dispatched[m] = 0
                      /\ ScheduledOnce(input, m) /\ ScheduledOnce(scheduler_rx', m)
                      /\ QueuedOnce(next, m)
    BY <2>1 DEF InOnePlace
  <2>2. /\ m \notin asked => ~ Scheduling(input, m)
        /\ m \notin asked \/ Scheduling(input, m) => ~ Scheduling(scheduler_rx, m)
        /\ m \notin asked \/ Scheduling(input, m) \/ Scheduling(scheduler_rx, m) =>
             ~ IsQueued(pending, m) /\ dispatched[m] = 0
        /\ ScheduledOnce(input, m) /\ ScheduledOnce(scheduler_rx, m) /\ QueuedOnce(pending, m)
    BY DEF BeatInv, InOnePlace
  <2>3. CASE m = me
    BY <1>5, <1>9, <1>11, <1>13, <2>2, <2>3
  <2>4. CASE m # me
    BY <1>5, <1>9, <1>13, <2>2, <2>4
  <2> QED
    BY <2>3, <2>4
<1>17. KeepsItsBeat'
  <2>1. dispatched' = dispatched /\ pending' = next
    BY <1>5, <1>12
  <2> QED
    BY <1>14, <2>1 DEF KeepsItsBeat, Beats
<1> QED
  BY <1>15, <1>16, <1>17 DEF BeatInv

\* Requests over mailboxes leave the heap alone, and a shutdown empties it.
LEMMA OtherCommandsStep ==
  ASSUME BeatInv, SchedulerAssumption, HandleSendIpc \/ HandleRecvIpc \/ HandleShutdown
  PROVE  BeatInv'
<1>1. /\ \E kinds : Receive(kinds)
      /\ first' = first
      /\ pending' = pending \/ pending' = <<>>
  BY DEF HandleSendIpc, HandleRecvIpc, HandleShutdown, PendingAfterShutdown
<1>2. /\ UNCHANGED <<clock, input, asked, dispatched>>
      /\ sched_now' = clock /\ sched_at' = "drain"
      /\ scheduler_rx' \in Seq(SchedulerCommands)
      /\ \A m : /\ Scheduling(scheduler_rx', m) => Scheduling(scheduler_rx, m)
                /\ ScheduledOnce(scheduler_rx, m) => ScheduledOnce(scheduler_rx', m)
  BY <1>1, BatchReceived
<1>3. /\ pending \in Seq(Queued) /\ <<>> \in Seq(Queued) /\ DOMAIN <<>> = {}
      /\ clock \in Nat /\ clock <= clock /\ clock <= MaxTime
  BY DEF BeatInv, BeatTypeOK
<1>4. BeatTypeOK'
  <2>1. pending' \in Seq(Queued)
    BY <1>1, <1>3
  <2> QED
    BY <1>1, <1>2, <1>3, <2>1 DEF BeatInv, BeatTypeOK
<1>5. \A m : /\ IsQueued(pending', m) => IsQueued(pending, m)
             /\ QueuedOnce(pending, m) => QueuedOnce(pending', m)
  <2>1. CASE pending' = pending
    BY <2>1
  <2>2. CASE pending' = <<>>
    BY <1>3, <2>2 DEF IsQueued, QueuedOnce
  <2> QED
    BY <1>1, <2>1, <2>2
<1>6. InOnePlace'
  BY <1>2, <1>5 DEF BeatInv, InOnePlace
<1>7. KeepsItsBeat'
  <2>1. CASE pending' = pending
    BY <1>1, <1>2, <2>1 DEF BeatInv, KeepsItsBeat
  <2>2. CASE pending' = <<>>
    BY <1>3, <2>2 DEF KeepsItsBeat
  <2> QED
    BY <1>1, <2>1, <2>2
<1> QED
  BY <1>4, <1>6, <1>7 DEF BeatInv

\* A recurring message is due at its first time and one period later for each
\* dispatch (dispatch_scheduled_action): neither a task that comes late, nor a
\* core whose input is full, nor other messages shift it.
THEOREM KeepsItsBeatCorrect == SchedulerSpec => []KeepsItsBeat
<1>1. ASSUME SchedulerInit PROVE BeatInv
  BY <1>1, BeatInit, SchedulerAssumption
<1>2. ASSUME BeatInv, [SchedulerNext]_scheduler_vars PROVE BeatInv'
  <2>1. CASE TimePasses \/ CoreJoins \/ Drained \/ WakeUp \/ UNCHANGED scheduler_vars
    BY <1>2, <2>1, RestingSteps, SchedulerAssumption
  <2>2. CASE Client
    BY <1>2, <2>2, ClientStep, SchedulerAssumption
  <2>3. CASE CoreUserMessage
    BY <1>2, <2>3, CoreUserMessageStep, SchedulerAssumption
  <2>4. CASE CorePassesOn
    BY <1>2, <2>4, CorePassesOnStep, SchedulerAssumption
  <2>5. CASE Dispatch
    BY <1>2, <2>5, DispatchStep, SchedulerAssumption
  <2>6. CASE DispatchSends
    BY <1>2, <2>6, DispatchSendsStep, SchedulerAssumption
  <2>7. CASE HandleSchedule
    BY <1>2, <2>7, HandleScheduleStep, SchedulerAssumption
  <2>8. CASE HandleSendIpc \/ HandleRecvIpc \/ HandleShutdown
    BY <1>2, <2>8, OtherCommandsStep, SchedulerAssumption
  <2> QED
    BY <1>2, <2>1, <2>2, <2>3, <2>4, <2>5, <2>6, <2>7, <2>8
       DEF SchedulerNext, CoreCalls, SchedulerTask
<1> QED
  BY <1>1, <1>2, PTL DEF SchedulerSpec, BeatInv

--------------------------------------------------------------------------------
(* The Python worker of a group.                                            *)

USE DEF vars

PyRequests == [ask : Asks \cup {"restore"}, line : Nat, want : Nat]
PyAnswers == [line : Nat, ok : BOOLEAN, readable : BOOLEAN, globals : Nat]
PyWorkers == [alive : BOOLEAN, env : Nat, inbox : Seq(PyRequests), pipe : Seq(PyAnswers)]
PyFaults == [cancels : Nat, crashes : Nat, prints : Nat]

Places == {"idle", "refused", "failed", "done", "cancelled",
           "ensure", "restore", "restoring", "send", "reading"}
Working == {"ensure", "restore", "restoring", "send", "reading"}
Reading == {"restoring", "reading"}

PyTypeOK ==
  /\ worker \in PyWorkers
  /\ persisted \in Nat
  /\ holder \in PyCallers \cup {NoCaller}
  /\ call \in [PyCallers -> [at : Places, ask : Asks, retried : BOOLEAN, line : Nat]]
  /\ written \in Nat
  /\ overdue \in Nat
  /\ faults \in PyFaults

\* A call works on the group only while it holds the mutex.
HolderWorks == \A c \in PyCallers : call[c].at \in Working => holder = c

SomeoneReads == holder # NoCaller /\ call[holder].at \in Reading
AwaitedLines == IF SomeoneReads THEN 1 ELSE 0

(* The pipes hold the overdue lines and the one that is awaited, or fewer   *)
(* of them when the worker is gone.                                         *)
PipesInStep ==
  /\ worker.alive => Unread = overdue + AwaitedLines
  /\ ~worker.alive => worker.inbox = <<>> /\ Unread <= overdue + AwaitedLines
  /\ SomeoneReads /\ Unread = overdue + 1 => \E i \in 1..Unread : LineAt(i) = call[holder].line

PyInv == PyTypeOK /\ HolderWorks /\ PipesInStep

-------------------------------------------------------------------------------
(* What is common to the steps.                                             *)

LEMMA EmptyPipes == <<>> \in Seq(PyRequests) /\ <<>> \in Seq(PyAnswers)
OBVIOUS

LEMMA PyInit == Init => PyInv
<1> SUFFICES ASSUME Init PROVE PyInv
  OBVIOUS
<1>1. PyTypeOK
  BY EmptyPipes DEF Init, PyTypeOK, PyWorkers, PyFaults, NoWorker, Empty, Resting, Asks, Places
<1>2. ~worker.alive /\ worker.inbox = <<>> /\ Len(worker.inbox) = 0 /\ Len(worker.pipe) = 0 /\ overdue = 0 /\ holder = NoCaller
  BY DEF Init, NoWorker
<1>3. HolderWorks /\ PipesInStep
  BY <1>2 DEF Init, HolderWorks, PipesInStep, SomeoneReads, AwaitedLines, Unread, Resting, Working
<1> QED
  BY <1>1, <1>3 DEF PyInv

\* Returning gives the mutex back and leaves the caller at rest.
LEMMA Returned ==
  ASSUME PyTypeOK, NEW c \in PyCallers,
         NEW result \in {"failed", "done", "cancelled"}, Return(c, result)
  PROVE  /\ holder' \in PyCallers \cup {NoCaller}
         /\ call' \in [PyCallers -> [at : Places, ask : Asks, retried : BOOLEAN, line : Nat]]
         /\ holder' = NoCaller
         /\ call'[c].at = result
         /\ \A d \in PyCallers \ {c} : call'[d] = call[d]
BY DEF PyTypeOK, Return, Resting, Asks, Places

\* Going elsewhere changes the place of one caller.
LEMMA Gone ==
  ASSUME PyTypeOK, NEW c \in PyCallers, NEW place \in Places, call' = Goes(c, place)
  PROVE  /\ call' \in [PyCallers -> [at : Places, ask : Asks, retried : BOOLEAN, line : Nat]]
         /\ call'[c].at = place
         /\ call'[c].line = call[c].line
         /\ \A d \in PyCallers \ {c} : call'[d] = call[d]
BY DEF PyTypeOK, Goes, Places

\* A line that is written is one more on the pipes.
LEMMA Written ==
  ASSUME PyTypeOK, NEW c \in PyCallers, NEW ask \in Asks \cup {"restore"},
         NEW place \in Places, WriteLine(c, ask, place)
  PROVE  /\ worker' \in PyWorkers
         /\ call' \in [PyCallers -> [at : Places, ask : Asks, retried : BOOLEAN, line : Nat]]
         /\ written' \in Nat
         /\ call'[c].at = place
         /\ \A d \in PyCallers \ {c} : call'[d] = call[d]
         /\ worker.alive /\ worker'.alive
         /\ Unread' = Unread + 1 /\ \E i \in 1..Unread' : LineAt(i)' = call'[c].line
<1>1. PICK request : request = [ask |-> ask, line |-> written + 1, want |-> persisted]
  OBVIOUS
<1>2. request \in PyRequests
  BY <1>1 DEF PyTypeOK, PyRequests
<1>3. worker' = [worker EXCEPT !.inbox = Append(worker.inbox, request)]
  BY <1>1 DEF WriteLine
<1>4. Append(worker.inbox, request) \in Seq(PyRequests)
  BY <1>2 DEF PyTypeOK, PyWorkers
<1>5. worker' \in PyWorkers
  BY <1>3, <1>4 DEF PyTypeOK, PyWorkers
<1>6. /\ call' \in [PyCallers -> [at : Places, ask : Asks, retried : BOOLEAN, line : Nat]]
      /\ written' \in Nat
      /\ call'[c].at = place /\ call'[c].line = written + 1
      /\ \A d \in PyCallers \ {c} : call'[d] = call[d]
  <2>1. call' = [call EXCEPT ![c] = [call[c] EXCEPT !.at = place, !.line = written + 1]]
    BY DEF WriteLine, PyTypeOK
  <2>2. [call[c] EXCEPT !.at = place, !.line = written + 1]
          \in [at : Places, ask : Asks, retried : BOOLEAN, line : Nat]
    <3>1. PICK r \in [at : Places, ask : Asks, retried : BOOLEAN, line : Nat] : r = call[c]
      BY DEF PyTypeOK
    <3>2. written + 1 \in Nat
      BY DEF PyTypeOK
    <3>3. \A n \in Nat : [r EXCEPT !.at = place, !.line = n]
                           \in [at : Places, ask : Asks, retried : BOOLEAN, line : Nat]
      OBVIOUS
    <3> QED
      BY <3>1, <3>2, <3>3
  <2>3. written' = written + 1
    BY DEF WriteLine
  <2> QED
    BY <2>1, <2>2, <2>3 DEF PyTypeOK
<1>7. worker'.inbox = Append(worker.inbox, request) /\ worker'.pipe = worker.pipe /\ worker.alive /\ worker'.alive
  BY <1>3 DEF WriteLine, PyTypeOK, PyWorkers
<1>8. PICK m \in Nat, n \in Nat : m = Len(worker.pipe) /\ n = Len(worker.inbox)
  BY DEF PyTypeOK, PyWorkers
<1>9. Len(worker'.pipe) = m /\ Len(worker'.inbox) = n + 1 /\ worker'.inbox[n + 1] = request
  BY <1>7, <1>8 DEF PyTypeOK, PyWorkers
<1>10. Unread = m + n /\ Unread' = m + (n + 1)
  BY <1>8, <1>9 DEF Unread
<1>11. LineAt(m + (n + 1))' = request.line
  <2>1. ~(m + (n + 1) <= m) /\ (m + (n + 1)) - m = n + 1
    OBVIOUS
  <2> QED
    BY <1>9, <2>1 DEF LineAt
<1>12. \E i \in 1..Unread' : LineAt(i)' = call'[c].line
  <2>1. m + (n + 1) \in 1..Unread'
    BY <1>10
  <2> QED
    BY <1>1, <1>6, <1>11, <2>1
<1> QED
  BY <1>5, <1>6, <1>7, <1>10, <1>12

\* Counting a print keeps the type of the counters.
LEMMA PrintsCounted ==
  ASSUME faults \in PyFaults, NEW n \in Nat, MorePrints(n)
  PROVE  faults' \in PyFaults
<1>1. faults.prints + n \in Nat
  BY DEF PyFaults
<1> QED
  BY <1>1 DEF MorePrints, PyFaults

\* The answer that is read is the head of the pipe, which loses it.
LEMMA TakesOne ==
  ASSUME PyTypeOK, HasAnswer, worker' = Consumed
  PROVE  /\ worker' \in PyWorkers /\ worker'.alive = worker.alive /\ worker'.inbox = worker.inbox
         /\ TheAnswer \in PyAnswers
         /\ Unread > 0 /\ Unread' = Unread - 1
<1>1. worker.pipe \in Seq(PyAnswers) /\ worker.pipe # <<>>
  BY DEF PyTypeOK, PyWorkers, HasAnswer
<1>2. PICK rest \in Seq(PyAnswers) : rest = Tail(worker.pipe)
  <2>1. Tail(worker.pipe) \in Seq(PyAnswers)
    BY <1>1
  <2> QED
    BY <2>1
<1>3. Head(worker.pipe) \in PyAnswers /\ Len(rest) = Len(worker.pipe) - 1
  BY <1>1, <1>2
<1>4. /\ worker' \in PyWorkers
      /\ worker'.pipe = rest /\ worker'.inbox = worker.inbox /\ worker'.alive = worker.alive
  BY <1>2 DEF PyTypeOK, PyWorkers, Consumed
<1>5. PICK m \in Nat, n \in Nat : m = Len(worker.pipe) /\ n = Len(worker.inbox) /\ m > 0
  BY <1>1 DEF PyTypeOK, PyWorkers
<1>6. Unread = m + n /\ Unread' = (m - 1) + n
  <2>1. Len(worker'.pipe) = m - 1 /\ Len(worker'.inbox) = n
    BY <1>3, <1>4, <1>5
  <2> QED
    BY <1>5, <2>1 DEF Unread
<1>7. Unread > 0 /\ Unread' = Unread - 1
  <2>1. (m - 1) + n = (m + n) - 1
    OBVIOUS
  <2>2. m + n > 0
    <3>1. m > 0
      BY <1>5
    <3> QED
      BY <3>1
  <2> QED
    BY <1>6, <2>1, <2>2
<1> QED
  BY <1>3, <1>4, <1>7 DEF TheAnswer

\* A line that is added to the pipe leaves the others where they are or one further.
LEMMA LineAdded ==
  ASSUME PyTypeOK, NEW answer \in PyAnswers, worker'.pipe = Append(worker.pipe, answer), NEW line,
         \/ worker'.inbox = worker.inbox
         \/ worker.inbox # <<>> /\ worker'.inbox = Tail(worker.inbox) /\ answer.line = Head(worker.inbox).line,
         \E i \in 1..Unread : LineAt(i) = line
  PROVE  \E i \in 1..Unread' : LineAt(i)' = line
<1>1. PICK m \in Nat, n \in Nat : m = Len(worker.pipe) /\ n = Len(worker.inbox)
  BY DEF PyTypeOK, PyWorkers
<1>2. worker.pipe \in Seq(PyAnswers) /\ worker.inbox \in Seq(PyRequests)
  BY DEF PyTypeOK, PyWorkers
<1>3. Len(worker'.pipe) = m + 1 /\ worker'.pipe[m + 1] = answer /\ \A i \in 1..m : worker'.pipe[i] = worker.pipe[i]
  BY <1>1, <1>2
<1>4. PICK i \in 1..(m + n) : LineAt(i) = line
  BY <1>1 DEF Unread
<1>5. CASE i <= m
  <2>1. LineAt(i)' = line
    <3>1. LineAt(i) = worker.pipe[i].line /\ i \in 1..m /\ i <= m + 1
      BY <1>1, <1>4, <1>5 DEF LineAt
    <3>2. LineAt(i)' = worker'.pipe[i].line
      BY <1>3, <3>1 DEF LineAt
    <3> QED
      BY <1>3, <1>4, <3>1, <3>2
  <2>2. i \in 1..Unread'
    <3>1. PICK k \in Nat : k = Len(worker'.inbox)
      <4>1. Len(worker'.inbox) \in Nat
        BY <1>2
      <4> QED
        BY <4>1
    <3>2. Unread' = (m + 1) + k
      BY <1>3, <3>1 DEF Unread
    <3> QED
      BY <1>4, <1>5, <3>2
  <2> QED
    BY <2>1, <2>2
<1>6. CASE i > m
  <2>1. PICK j \in 1..n : j = i - m
    BY <1>4, <1>6
  <2>2. worker.inbox[j].line = line
    BY <1>1, <1>4, <1>6, <2>1 DEF LineAt
  <2>3. CASE worker'.inbox = worker.inbox
    <3>1. ~(i + 1 <= m + 1) /\ (i + 1) - (m + 1) = j
      BY <1>4, <1>6, <2>1
    <3>2. LineAt(i + 1)' = line
      BY <1>3, <2>2, <2>3, <3>1 DEF LineAt
    <3>3. Unread' = (m + 1) + n
      BY <1>1, <1>3, <2>3 DEF Unread
    <3>4. i + 1 \in 1..Unread'
      BY <1>4, <3>3
    <3> QED
      BY <3>2, <3>4
  <2>4. CASE worker.inbox # <<>> /\ worker'.inbox = Tail(worker.inbox) /\ answer.line = Head(worker.inbox).line
    <3>1. Head(worker.inbox) = worker.inbox[1] /\ Len(worker'.inbox) = n - 1
          /\ \A k \in 1..(n - 1) : worker'.inbox[k] = worker.inbox[k + 1]
      BY <1>1, <1>2, <2>4
    <3>2. Unread' = (m + 1) + (n - 1)
      BY <1>3, <3>1 DEF Unread
    <3>3. i \in 1..Unread'
      BY <1>4, <3>2
    <3>4. LineAt(i)' = line
      <4>1. CASE j = 1
        <5>1. i = m + 1 /\ i <= m + 1
          BY <1>4, <2>1, <4>1
        <5>2. LineAt(i)' = worker'.pipe[m + 1].line
          BY <1>3, <5>1 DEF LineAt
        <5> QED
          BY <1>3, <2>2, <2>4, <3>1, <4>1, <5>2
      <4>2. CASE j # 1
        <5>1. ~(i <= m + 1) /\ i - (m + 1) = j - 1 /\ j - 1 \in 1..(n - 1) /\ (j - 1) + 1 = j
          BY <1>4, <2>1, <4>2
        <5>2. LineAt(i)' = worker'.inbox[j - 1].line
          BY <1>3, <5>1 DEF LineAt
        <5>3. worker'.inbox[j - 1] = worker.inbox[j]
          BY <3>1, <5>1
        <5> QED
          BY <2>2, <5>2, <5>3
      <4> QED
        BY <4>1, <4>2
    <3> QED
      BY <3>3, <3>4
  <2> QED
    BY <2>3, <2>4
<1> QED
  BY <1>4, <1>5, <1>6

\* One step of the worker moves one line from the inbox to the pipe.
LEMMA WorkerAnswers ==
  ASSUME PyTypeOK, WorkerStep
  PROVE  /\ worker' \in PyWorkers /\ faults' \in PyFaults
         /\ worker.inbox # <<>> /\ worker.alive /\ worker'.alive
         /\ worker'.inbox = Tail(worker.inbox)
         /\ \E answer \in PyAnswers : /\ answer.line = Head(worker.inbox).line
                                    /\ worker'.pipe = Append(worker.pipe, answer)
<1>1. PICK request : request = Head(worker.inbox)
  OBVIOUS
<1>2. worker.inbox \in Seq(PyRequests) /\ worker.inbox # <<>> /\ worker.alive
  BY DEF WorkerStep, PyTypeOK, PyWorkers
<1>3. request \in PyRequests /\ Tail(worker.inbox) \in Seq(PyRequests)
  BY <1>1, <1>2
<1>4. PICK ok \in BOOLEAN, env \in Nat, readable \in BOOLEAN :
        /\ worker' = [worker EXCEPT !.inbox = Tail(worker.inbox), !.env = env,
                      !.pipe = Append(worker.pipe, WorkerAnswer(request, ok, env, readable))]
        /\ MorePrints(IF readable THEN 0 ELSE 1)
  <2> DEFINE Env == CASE request.ask = "exec" -> worker.env + 1
                      [] request.ask = "restore" -> request.want
                      [] OTHER -> worker.env
             Reply(ok, env) ==
               \E readable \in Readable :
                   /\ worker' = [worker EXCEPT !.inbox = Tail(@), !.env = env,
                                               !.pipe = Append(@, WorkerAnswer(request, ok, env, readable))]
                   /\ MorePrints(IF readable THEN 0 ELSE 1)
  <2>1. Env \in Nat /\ worker.env \in Nat
    BY <1>3 DEF PyTypeOK, PyWorkers, PyRequests
  <2>2. \E ok \in BOOLEAN, env \in {Env, worker.env} : Reply(ok, env)
    BY <1>1, Zenon DEF WorkerStep
  <2>3. PICK ok \in BOOLEAN, env \in {Env, worker.env} : Reply(ok, env)
    BY <2>2
  <2>4. env \in Nat
    BY <2>1, <2>3
  <2>5. Readable \subseteq BOOLEAN
    BY Zenon DEF Readable
  <2>6. PICK readable \in BOOLEAN :
          /\ worker' = [worker EXCEPT !.inbox = Tail(@), !.env = env,
                                      !.pipe = Append(@, WorkerAnswer(request, ok, env, readable))]
          /\ MorePrints(IF readable THEN 0 ELSE 1)
    BY <2>3, <2>5
  <2> QED
    BY <2>4, <2>6
<1>5. PICK answer : answer = WorkerAnswer(request, ok, env, readable)
  OBVIOUS
<1>6. answer \in PyAnswers /\ answer.line = request.line
  BY <1>3, <1>4, <1>5 DEF WorkerAnswer, PyAnswers, PyRequests, Empty
<1>7. Append(worker.pipe, answer) \in Seq(PyAnswers)
  BY <1>6 DEF PyTypeOK, PyWorkers
<1>8. faults' \in PyFaults
  BY <1>4, PrintsCounted DEF PyTypeOK
<1> QED
  BY <1>1, <1>2, <1>3, <1>4, <1>5, <1>6, <1>7, <1>8 DEF PyTypeOK, PyWorkers

-------------------------------------------------------------------------------
(* The steps, one by one.                                                   *)

CallRecord == [at : Places, ask : Asks, retried : BOOLEAN, line : Nat]

\* What any step of call c does to the calls: it moves c alone, and c is at
\* work only with the mutex in its hands.
CallMoves(c) ==
  /\ \A d \in PyCallers \ {c} : call'[d] = call[d]
  /\ call'[c].at \in Working => holder' = c
  /\ holder' = holder \/ holder = c \/ holder = NoCaller

LEMMA CallStep ==
  ASSUME PyTypeOK, NEW c \in PyCallers, ExecCall(c)
  PROVE  PyTypeOK' /\ CallMoves(c)
<1> USE DEF PyTypeOK, CallMoves
<1>1. CASE RefuseRequest(c)
  <2>1. "refused" \in Places /\ "refused" \notin Working
    BY DEF Places, Working
  <2> QED
    BY <1>1, <2>1, Gone DEF RefuseRequest
<1>2. ASSUME NEW ask \in Asks, TakeGroup(c, ask) PROVE PyTypeOK' /\ CallMoves(c)
  <2>1. [Resting EXCEPT !.at = "ensure", !.ask = ask] \in CallRecord
    BY <1>2 DEF Resting, CallRecord, Places
  <2> QED
    BY <1>2, <2>1 DEF TakeGroup, CallRecord
<1>3. CASE EnsureProcess(c)
  <2>1. NewWorker \in PyWorkers
    BY EmptyPipes DEF PyWorkers, NewWorker, NoWorker, Empty
  <2>2. CASE Return(c, "failed")
    <3>1. "failed" \in {"failed", "done", "cancelled"} /\ "failed" \notin Working
      BY DEF Working
    <3>2. PyTypeOK' /\ call'[c].at = "failed" /\ holder = c
          /\ \A d \in PyCallers \ {c} : call'[d] = call[d]
      BY <1>3, <2>1, <2>2, <3>1, Returned DEF EnsureProcess, At
    <3> QED
      BY <3>1, <3>2
  <2>3. ASSUME NEW place \in {"send", "restore"}, call' = Goes(c, place), holder' = holder
        PROVE  PyTypeOK' /\ CallMoves(c)
    <3>1. place \in Places
      BY DEF Places
    <3>2. worker' \in {worker, NewWorker} /\ overdue' \in Nat
          /\ UNCHANGED <<persisted, written, faults>>
      BY <1>3 DEF EnsureProcess
    <3> QED
      BY <1>3, <2>1, <2>3, <3>1, <3>2, Gone DEF EnsureProcess, At
  <2> QED
    BY <1>3, <2>2, <2>3 DEF EnsureProcess
<1>4. CASE SendRestore(c)
  <2>1. "restoring" \in Places
    BY DEF Places
  <2> QED
    BY <1>4, <2>1, Written DEF SendRestore, At
<1>5. CASE SendRequest(c)
  <2>1. "reading" \in Places /\ call[c].ask \in Asks \cup {"restore"}
    BY DEF Places
  <2>2. PICK ask \in Asks \cup {"restore"} : ask = call[c].ask
    BY <2>1
  <2>3. WriteLine(c, ask, "reading")
    BY <1>5, <2>2 DEF SendRequest
  <2> QED
    BY <1>5, <2>1, <2>3, Written DEF SendRequest, At
<1>6. CASE ReadRestored(c)
  <2>1. "send" \in Places /\ "failed" \notin Working
    BY DEF Places, Working
  <2>2. CASE TheAnswer.ok
    BY <1>6, <2>1, <2>2, TakesOne, Gone DEF ReadRestored, At
  <2>3. CASE ~ TheAnswer.ok
    BY <1>6, <2>1, <2>3, TakesOne, Returned DEF ReadRestored, At
  <2> QED
    BY <2>2, <2>3
<1>7. CASE ReadAnswer(c)
  <2>1. "failed" \notin Working /\ "done" \notin Working
    BY DEF Working
  <2>2. /\ worker' \in PyWorkers
        /\ TheAnswer \in PyAnswers /\ holder = c
        /\ UNCHANGED <<written, overdue, faults>>
    BY <1>7, TakesOne DEF ReadAnswer, At
  <2>3. TheAnswer.globals \in Nat
    BY <2>2 DEF PyAnswers
  <2>4. [Resting EXCEPT !.at = "ensure", !.ask = "snapshot"] \in CallRecord
    BY DEF Resting, CallRecord, Places, Asks
  <2>5. \/ Return(c, "failed") /\ UNCHANGED persisted
        \/ /\ call' = [call EXCEPT ![c] = [Resting EXCEPT !.at = "ensure", !.ask = "snapshot"]]
           /\ UNCHANGED <<persisted, holder>>
        \/ Return(c, "done") /\ KeepSnapshot(TheAnswer)
        \/ Return(c, "done") /\ UNCHANGED persisted
    BY <1>7 DEF ReadAnswer
  <2>6. CASE Return(c, "failed") /\ UNCHANGED persisted
    BY <2>1, <2>2, <2>6, Returned
  <2>7. CASE /\ call' = [call EXCEPT ![c] = [Resting EXCEPT !.at = "ensure", !.ask = "snapshot"]]
             /\ UNCHANGED <<persisted, holder>>
    BY <2>2, <2>4, <2>7 DEF CallRecord
  <2>8. CASE Return(c, "done") /\ KeepSnapshot(TheAnswer)
    BY <2>1, <2>2, <2>3, <2>8, Returned DEF KeepSnapshot
  <2>9. CASE Return(c, "done") /\ UNCHANGED persisted
    BY <2>1, <2>2, <2>9, Returned
  <2> QED
    BY <2>5, <2>6, <2>7, <2>8, <2>9
<1>8. ASSUME NEW kept \in PyWorkers, holder = c, SendFailed(c, kept), UNCHANGED <<persisted, written, overdue, faults>>
      PROVE  PyTypeOK' /\ CallMoves(c)
  <2>1. "failed" \notin Working
    BY DEF Working
  <2>2. CASE Return(c, "failed") /\ worker' = kept
    BY <1>8, <2>1, <2>2, Returned
  <2>3. CASE Retried(c)
    <3>1. PICK r \in CallRecord : r = call[c]
      BY DEF CallRecord
    <3>2. [r EXCEPT !.at = "ensure", !.retried = TRUE] \in CallRecord
      BY DEF CallRecord, Places
    <3>3. call' = [call EXCEPT ![c] = [r EXCEPT !.at = "ensure", !.retried = TRUE]]
      BY <2>3, <3>1 DEF Retried
    <3>4. NoWorker \in PyWorkers
      BY EmptyPipes DEF PyWorkers, NoWorker, Empty
    <3> QED
      BY <1>8, <2>3, <3>2, <3>3, <3>4 DEF Retried, CallRecord
  <2> QED
    BY <1>8, <2>2, <2>3 DEF SendFailed
<1>10. CASE WorkerGone(c)
  BY <1>8, <1>10 DEF WorkerGone, At
<1>11. CASE ReadUnreadable(c)
  <2>1. PICK kept \in PyWorkers : kept = Consumed
    <3>1. worker.pipe \in Seq(PyAnswers) /\ worker.pipe # <<>>
      BY <1>11 DEF ReadUnreadable, HasAnswer, PyWorkers
    <3>2. Tail(worker.pipe) \in Seq(PyAnswers)
      BY <3>1
    <3> QED
      BY <3>2 DEF Consumed, PyWorkers
  <2> QED
    BY <1>8, <1>11, <2>1 DEF ReadUnreadable, At
<1>9. CASE DropCall(c)
  <2>1. "cancelled" \notin Working
    BY DEF Working
  <2>2. overdue' \in Nat
    BY <1>9 DEF DropCall
  <2>3. faults' \in PyFaults
    <3>1. faults' = [faults EXCEPT !.cancels = faults.cancels + 1]
      BY <1>9 DEF DropCall
    <3> QED
      BY <3>1 DEF PyFaults
  <2>4. Return(c, "cancelled") /\ holder = c /\ UNCHANGED <<worker, persisted, written>>
    BY <1>9 DEF DropCall
  <2> QED
    BY <2>1, <2>2, <2>3, <2>4, Returned
<1> QED
  BY <1>1, <1>2, <1>3, <1>4, <1>5, <1>6, <1>7, <1>9, <1>10, <1>11 DEF ExecCall

LEMMA WorkerTypes ==
  ASSUME PyTypeOK, WorkerStep \/ CodePrints \/ WorkerExit
  PROVE  PyTypeOK'
<1>1. CASE WorkerStep
  BY <1>1, WorkerAnswers DEF WorkerStep, PyTypeOK
<1>2. CASE CodePrints
  <2>1. PrintedLine \in PyAnswers
    BY DEF PrintedLine, PyAnswers, Empty
  <2>2. Append(worker.pipe, PrintedLine) \in Seq(PyAnswers)
    BY <2>1 DEF PyTypeOK, PyWorkers
  <2>3. worker' \in PyWorkers
    BY <1>2, <2>2 DEF CodePrints, PyTypeOK, PyWorkers
  <2>4. faults' \in PyFaults
    BY <1>2, PrintsCounted DEF CodePrints, PyTypeOK
  <2> QED
    BY <1>2, <2>3, <2>4 DEF CodePrints, PyTypeOK
<1>3. CASE WorkerExit
  <2>1. worker' \in PyWorkers
    BY <1>3, EmptyPipes DEF WorkerExit, PyTypeOK, PyWorkers
  <2>2. faults' \in PyFaults
    <3>1. faults' = [faults EXCEPT !.crashes = faults.crashes + 1]
      BY <1>3 DEF WorkerExit
    <3>2. faults \in PyFaults
      BY DEF PyTypeOK
    <3> QED
      BY <3>1, <3>2 DEF PyFaults
  <2> QED
    BY <1>3, <2>1, <2>2 DEF WorkerExit, PyTypeOK
<1> QED
  BY <1>1, <1>2, <1>3

LEMMA HolderStep ==
  ASSUME NoCaller \notin PyCallers, PyTypeOK, HolderWorks, Next
  PROVE  HolderWorks'
<1>1. ASSUME NEW c \in PyCallers, ExecCall(c) PROVE HolderWorks'
  BY <1>1, CallStep DEF CallMoves, HolderWorks
<1>2. CASE WorkerStep \/ CodePrints \/ WorkerExit
  BY <1>2 DEF WorkerStep, CodePrints, WorkerExit, HolderWorks
<1> QED
  BY <1>1, <1>2 DEF Next

\* The number of unread lines is a number.
LEMMA UnreadIsNat == ASSUME PyTypeOK PROVE Unread \in Nat
BY DEF PyTypeOK, PyWorkers, Unread

\* A group whose worker and overdue lines stay as they are, and which nobody reads from before or after.
LEMMA NobodyReads ==
  ASSUME PipesInStep, UNCHANGED <<worker, overdue>>, ~SomeoneReads, ~SomeoneReads'
  PROVE  PipesInStep'
BY DEF PipesInStep, AwaitedLines, Unread

\* Writing a line makes the call a reader of that line; reading one ends the reading.
LEMMA PipesCall ==
  ASSUME NoCaller \notin PyCallers, PyTypeOK, HolderWorks, PipesInStep,
         NEW c \in PyCallers, ExecCall(c)
  PROVE  PipesInStep'
<1> USE DEF At
<1>0. c # NoCaller /\ Unread \in Nat /\ overdue \in Nat
  BY UnreadIsNat DEF PyTypeOK
<1>1. CASE RefuseRequest(c)
  <2>1. call'[c].at = "refused" /\ \A d \in PyCallers \ {c} : call'[d] = call[d]
    BY <1>1, Gone DEF RefuseRequest, Places
  <2>2. UNCHANGED <<worker, holder, overdue>> /\ call[c].at = "idle"
    BY <1>1 DEF RefuseRequest
  <2>3. CASE holder = c
    BY <2>1, <2>2, <2>3, NobodyReads DEF SomeoneReads, Reading
  <2>4. CASE holder # c
    <3>1. holder # NoCaller => call'[holder] = call[holder]
      BY <2>1, <2>4 DEF PyTypeOK
    <3> QED
      BY <2>2, <3>1 DEF PipesInStep, SomeoneReads, AwaitedLines, Unread, LineAt
  <2> QED
    BY <2>3, <2>4
<1>2. ASSUME NEW ask \in Asks, TakeGroup(c, ask) PROVE PipesInStep'
  <2>1. call'[c].at = "ensure"
    BY <1>2 DEF TakeGroup, PyTypeOK, Resting
  <2> QED
    BY <1>2, <2>1, NobodyReads DEF TakeGroup, SomeoneReads, Reading
<1>3. CASE EnsureProcess(c)
  <2>1. ~SomeoneReads
    BY <1>0, <1>3 DEF EnsureProcess, SomeoneReads, Reading
  <2>2. ~SomeoneReads'
    <3>1. CASE Return(c, "failed")
      BY <3>1, Returned DEF SomeoneReads
    <3>2. ASSUME NEW place \in {"send", "restore"}, call' = Goes(c, place), holder' = holder
          PROVE  ~SomeoneReads'
      BY <1>3, <3>2, Gone DEF EnsureProcess, SomeoneReads, Reading, Places
    <3> QED
      BY <1>3, <3>1, <3>2 DEF EnsureProcess
  <2>3. CASE worker' = worker /\ overdue' = overdue
    BY <2>1, <2>2, <2>3, NobodyReads
  <2>4. CASE worker' = NewWorker /\ overdue' = 0
    <3>1. worker'.alive /\ Len(worker'.pipe) = 0 /\ Len(worker'.inbox) = 0
      BY <2>4 DEF NewWorker, NoWorker
    <3> QED
      BY <2>2, <2>4, <3>1 DEF PipesInStep, AwaitedLines, Unread
  <2> QED
    BY <1>3, <2>3, <2>4 DEF EnsureProcess
<1>4. ASSUME NEW place \in Reading, NEW ask \in Asks \cup {"restore"},
             WriteLine(c, ask, place), holder = c, call[c].at \notin Reading,
             UNCHANGED <<holder, overdue>>
      PROVE  PipesInStep'
  <2>1. place \in Places
    BY DEF Reading, Places
  <2>2. /\ worker.alive /\ worker'.alive /\ call'[c].at = place
        /\ Unread' = Unread + 1 /\ \E i \in 1..Unread' : LineAt(i)' = call'[c].line
    BY <1>4, <2>1, Written
  <2>3. Unread = overdue
    BY <1>0, <1>4, <2>2 DEF PipesInStep, SomeoneReads, AwaitedLines
  <2>4. SomeoneReads' /\ holder' = c
    BY <1>0, <1>4, <2>2 DEF SomeoneReads
  <2> QED
    BY <1>4, <2>2, <2>3, <2>4 DEF PipesInStep, AwaitedLines
<1>5. CASE SendRestore(c)
  BY <1>4, <1>5 DEF SendRestore, Reading
<1>6. CASE SendRequest(c)
  <2>1. PICK ask \in Asks \cup {"restore"} : ask = call[c].ask
    BY DEF PyTypeOK
  <2>2. WriteLine(c, ask, "reading") /\ holder = c /\ call[c].at = "send"
        /\ UNCHANGED <<holder, overdue>>
    BY <1>6, <2>1 DEF SendRequest
  <2> QED
    BY <1>4, <2>2 DEF Reading
<1>7. ASSUME HasAnswer, worker' = Consumed, holder = c, call[c].at \in Reading,
             overdue' = overdue, ~SomeoneReads'
      PROVE  PipesInStep'
  <2>1. SomeoneReads
    BY <1>0, <1>7 DEF SomeoneReads
  <2>2. /\ worker'.alive = worker.alive /\ worker'.inbox = worker.inbox
        /\ Unread' = Unread - 1
    BY <1>7, TakesOne
  <2>3. (worker.alive => Unread = overdue + 1) /\ (~worker.alive => worker.inbox = <<>> /\ Unread <= overdue + 1)
    BY <2>1 DEF PipesInStep, AwaitedLines
  <2>4. (worker.alive => Unread - 1 = overdue) /\ (~worker.alive => Unread - 1 <= overdue)
    BY <1>0, <2>3
  <2>5. worker'.alive => Unread' = overdue' + AwaitedLines'
    BY <1>0, <1>7, <2>2, <2>4 DEF AwaitedLines
  <2>6. ~worker'.alive => worker'.inbox = <<>> /\ Unread' <= overdue' + AwaitedLines'
    BY <1>0, <1>7, <2>2, <2>3, <2>4 DEF AwaitedLines
  <2> QED
    BY <1>7, <2>5, <2>6 DEF PipesInStep
<1>8. CASE ReadRestored(c)
  <2>1. ~SomeoneReads'
    <3>1. CASE TheAnswer.ok
      <4>1. call' = Goes(c, "send") /\ holder' = c
        BY <1>8, <3>1 DEF ReadRestored
      <4>2. call'[c].at = "send"
        BY <4>1, Gone DEF Places
      <4> QED
        BY <4>1, <4>2 DEF SomeoneReads, Reading
    <3>2. CASE ~ TheAnswer.ok
      BY <1>8, <3>2, Returned DEF ReadRestored, SomeoneReads
    <3> QED
      BY <3>1, <3>2
  <2> QED
    BY <1>7, <1>8, <2>1 DEF ReadRestored, Reading
<1>9. CASE ReadAnswer(c)
  <2>1. ~SomeoneReads'
    <3>1. \/ Return(c, "failed") \/ Return(c, "done")
          \/ /\ call' = [call EXCEPT ![c] = [Resting EXCEPT !.at = "ensure", !.ask = "snapshot"]]
             /\ holder' = holder
      BY <1>9 DEF ReadAnswer
    <3>2. CASE /\ call' = [call EXCEPT ![c] = [Resting EXCEPT !.at = "ensure", !.ask = "snapshot"]]
               /\ holder' = holder
      <4>1. call'[c].at = "ensure"
        BY <3>2 DEF PyTypeOK, Resting
      <4> QED
        BY <1>9, <3>2, <4>1 DEF ReadAnswer, SomeoneReads, Reading
    <3> QED
      BY <3>1, <3>2, Returned DEF SomeoneReads
  <2> QED
    BY <1>7, <1>9, <2>1 DEF ReadAnswer, Reading
<1>10. ASSUME holder = c, Retried(c), overdue' = overdue PROVE PipesInStep'
  <2>1. ~worker'.alive /\ worker'.inbox = <<>> /\ Len(worker'.pipe) = 0 /\ Len(worker'.inbox) = 0
        /\ call'[c].at = "ensure" /\ holder' = c
    BY <1>10 DEF Retried, NoWorker, PyTypeOK
  <2>2. ~SomeoneReads'
    BY <2>1 DEF SomeoneReads, Reading
  <2> QED
    BY <1>0, <1>10, <2>1, <2>2 DEF PipesInStep, AwaitedLines, Unread
<1>11. CASE ReadUnreadable(c)
  <2>1. CASE Return(c, "failed") /\ worker' = Consumed
    <3>1. ~SomeoneReads'
      BY <2>1, Returned DEF SomeoneReads
    <3> QED
      BY <1>7, <1>11, <2>1, <3>1 DEF ReadUnreadable, Reading
  <2>2. CASE Retried(c)
    BY <1>10, <1>11, <2>2 DEF ReadUnreadable
  <2> QED
    BY <1>11, <2>1, <2>2 DEF ReadUnreadable, SendFailed
<1>12. CASE WorkerGone(c)
  <2>1. ~worker.alive /\ holder = c /\ overdue' = overdue
    BY <1>12 DEF WorkerGone
  <2>2. CASE Return(c, "failed") /\ worker' = worker
    <3>1. ~SomeoneReads'
      BY <2>2, Returned DEF SomeoneReads
    <3>2. worker.inbox = <<>> /\ Unread <= overdue
      <4>1. CASE ~SomeoneReads
        BY <1>0, <2>1, <4>1 DEF PipesInStep, AwaitedLines
      <4>2. CASE SomeoneReads
        <5>1. call[c].at \in Reading /\ worker.inbox = <<>>
          BY <2>1, <4>2 DEF SomeoneReads, PipesInStep
        <5>2. worker.pipe = <<>>
          BY <1>12, <5>1 DEF WorkerGone, HasAnswer, Reading
        <5>3. Unread = 0
          BY <5>1, <5>2 DEF Unread
        <5> QED
          BY <1>0, <5>1, <5>3
      <4> QED
        BY <4>1, <4>2
    <3> QED
      BY <1>0, <2>1, <2>2, <3>1, <3>2 DEF PipesInStep, AwaitedLines, Unread
  <2>3. CASE Retried(c)
    BY <1>10, <2>1, <2>3
  <2> QED
    BY <1>12, <2>2, <2>3 DEF WorkerGone, SendFailed
<1>13. CASE DropCall(c)
  <2>1. holder' = NoCaller /\ holder = c /\ worker' = worker
    BY <1>13, Returned DEF DropCall
  <2>2. ~SomeoneReads' /\ Unread' = Unread
    BY <2>1 DEF SomeoneReads, Unread
  <2>3. SomeoneReads <=> call[c].at \in Reading
    BY <1>0, <2>1 DEF SomeoneReads
  <2>4. overdue' = overdue + AwaitedLines
    BY <1>0, <1>13, <2>3 DEF DropCall, AwaitedLines, Reading
  <2>5. overdue' + AwaitedLines' = overdue + AwaitedLines
    <3>1. overdue' \in Nat /\ AwaitedLines' = 0
      BY <1>0, <2>2, <2>4 DEF AwaitedLines
    <3> QED
      BY <2>4, <3>1
  <2> QED
    BY <2>1, <2>2, <2>5 DEF PipesInStep
<1> QED
  BY <1>1, <1>2, <1>3, <1>5, <1>6, <1>8, <1>9, <1>11, <1>12, <1>13 DEF ExecCall

\* The worker turns a line into its answer, what it prints is one line more,
\* and its exit takes away the lines it has not answered.
LEMMA PipesWorker ==
  ASSUME PyTypeOK, PipesInStep, WorkerStep \/ CodePrints \/ WorkerExit
  PROVE  PipesInStep'
<1>1. UNCHANGED <<holder, call>> /\ worker.alive
  BY DEF WorkerStep, CodePrints, WorkerExit
<1>2. SomeoneReads' = SomeoneReads /\ AwaitedLines' = AwaitedLines /\ AwaitedLines \in {0, 1} /\ (SomeoneReads => AwaitedLines = 1)
  BY <1>1 DEF SomeoneReads, AwaitedLines
<1>3. PICK m \in Nat, n \in Nat : m = Len(worker.pipe) /\ n = Len(worker.inbox)
  BY DEF PyTypeOK, PyWorkers
<1>4. Unread = m + n /\ Unread = overdue + AwaitedLines /\ overdue \in Nat
  BY <1>1, <1>3 DEF Unread, PipesInStep, PyTypeOK
<1>5. SomeoneReads => \E i \in 1..Unread : LineAt(i) = call[holder].line
  BY <1>2, <1>4 DEF PipesInStep
<1>6. CASE WorkerStep
  <2>1. /\ worker'.alive /\ worker.inbox # <<>> /\ worker'.inbox = Tail(worker.inbox) /\ worker.inbox \in Seq(PyRequests)
        /\ overdue' = overdue
    BY <1>6, WorkerAnswers DEF WorkerStep, PyTypeOK, PyWorkers
  <2>2. PICK answer \in PyAnswers : /\ answer.line = Head(worker.inbox).line
                                  /\ worker'.pipe = Append(worker.pipe, answer)
    BY <1>6, WorkerAnswers
  <2>3. Len(worker'.inbox) = n - 1 /\ Len(worker'.pipe) = m + 1
    BY <1>3, <2>1, <2>2 DEF PyTypeOK, PyWorkers
  <2>4. Unread' = Unread
    <3>1. (m + 1) + (n - 1) = m + n
      OBVIOUS
    <3>2. Unread' = (m + 1) + (n - 1)
      BY <2>3 DEF Unread
    <3> QED
      BY <1>4, <3>1, <3>2
  <2>5. ASSUME SomeoneReads PROVE \E i \in 1..Unread' : LineAt(i)' = call[holder].line
    BY <1>5, <2>1, <2>2, <2>5, LineAdded
  <2> QED
    BY <1>1, <1>2, <1>4, <2>1, <2>4, <2>5 DEF PipesInStep
<1>7. CASE CodePrints
  <2>1. /\ worker'.alive /\ worker'.inbox = worker.inbox /\ worker'.pipe = Append(worker.pipe, PrintedLine)
        /\ overdue' = overdue + 1
    BY <1>7 DEF CodePrints, PyTypeOK, PyWorkers
  <2>2. PrintedLine \in PyAnswers
    BY DEF PrintedLine, PyAnswers, Empty
  <2>3. Len(worker'.pipe) = m + 1 /\ Len(worker'.inbox) = n
    BY <1>3, <2>1 DEF PyTypeOK, PyWorkers
  <2>4. Unread' = Unread + 1 /\ Unread' = overdue' + AwaitedLines
    BY <1>2, <1>4, <2>1, <2>3 DEF Unread
  <2>5. ASSUME SomeoneReads PROVE \E i \in 1..Unread' : LineAt(i)' = call[holder].line
    BY <1>5, <2>1, <2>2, <2>5, LineAdded
  <2> QED
    BY <1>1, <1>2, <2>1, <2>4, <2>5 DEF PipesInStep
<1>8. CASE WorkerExit
  <2>1. ~worker'.alive /\ worker'.inbox = <<>> /\ worker'.pipe = worker.pipe /\ overdue' = overdue
    BY <1>8 DEF WorkerExit, PyTypeOK, PyWorkers
  <2>2. Unread' = m
    <3>1. Len(worker'.inbox) = 0 /\ Len(worker'.pipe) = m
      BY <1>3, <2>1
    <3> QED
      BY <1>3, <3>1 DEF Unread
  <2>3. Unread' <= overdue' + AwaitedLines'
    <3>1. m + n = overdue + AwaitedLines /\ m <= m + n
      BY <1>4
    <3> QED
      BY <1>2, <2>1, <2>2, <3>1
  <2>4. ASSUME SomeoneReads', Unread' = overdue' + 1 PROVE \E i \in 1..Unread' : LineAt(i)' = call'[holder'].line
    <3>1. n = 0 /\ Unread' = Unread
      <4>1. AwaitedLines = 1 /\ m = overdue + 1 /\ m + n = overdue + AwaitedLines
        BY <1>2, <1>4, <2>1, <2>2, <2>4
      <4>2. m + n = m
        BY <4>1
      <4>3. n = 0
        BY <4>2
      <4> QED
        BY <1>4, <2>2, <4>2, <4>3
    <3>2. PICK i \in 1..Unread : LineAt(i) = call[holder].line
      BY <1>2, <1>5, <2>4
    <3>3. i <= m /\ i \in 1..m
      BY <1>3, <1>4, <3>1, <3>2
    <3>4. LineAt(i)' = LineAt(i)
      BY <1>3, <2>1, <3>3 DEF LineAt
    <3> QED
      BY <1>1, <3>1, <3>2, <3>4
  <2> QED
    BY <2>1, <2>3, <2>4 DEF PipesInStep
<1> QED
  BY <1>6, <1>7, <1>8

LEMMA PyStep ==
  ASSUME NoCaller \notin PyCallers, PyInv, [Next]_vars
  PROVE  PyInv'
<1>1. CASE UNCHANGED vars
  BY <1>1 DEF PyInv, PyTypeOK, HolderWorks, PipesInStep, SomeoneReads, AwaitedLines, Unread, LineAt
<1>2. CASE Next
  <2>1. PyTypeOK' /\ PipesInStep'
    BY <1>2, CallStep, WorkerTypes, PipesCall, PipesWorker DEF Next, PyInv
  <2>2. HolderWorks'
    BY <1>2, HolderStep DEF PyInv
  <2> QED
    BY <2>1, <2>2 DEF PyInv
<1> QED
  BY <1>1, <1>2

LEMMA PyInvImplies ==
  ASSUME NoCaller \notin PyCallers, PyInv
  PROVE  AnswersAreOwn
<1>1. PyTypeOK /\ PipesInStep /\ Unread \in Nat /\ overdue \in Nat
  BY UnreadIsNat DEF PyInv, PyTypeOK
<1>2. \A c \in PyCallers : Reads(c) => SomeoneReads /\ holder = c
  BY DEF Reads, At, SomeoneReads, Reading
<1>3. SomeoneReads => \E c \in PyCallers : Reads(c)
  BY <1>1 DEF Reads, At, SomeoneReads, Reading, PyTypeOK
<1>4. worker.alive => Unread = overdue + (IF \E c \in PyCallers : Reads(c) THEN 1 ELSE 0)
  <2>1. AwaitedLines = IF \E c \in PyCallers : Reads(c) THEN 1 ELSE 0
    BY <1>2, <1>3 DEF AwaitedLines
  <2> QED
    BY <1>1, <2>1 DEF PipesInStep
<1>5. ASSUME NEW c \in PyCallers, Reads(c), Unread > overdue
      PROVE  Unread = overdue + 1 /\ \E i \in 1..Unread : LineAt(i) = call[c].line
  <2>1. SomeoneReads /\ holder = c /\ AwaitedLines = 1
    BY <1>2, <1>5 DEF AwaitedLines
  <2>2. Unread <= overdue + 1
    BY <1>1, <2>1 DEF PipesInStep
  <2>3. Unread = overdue + 1
    BY <1>1, <1>5, <2>2
  <2> QED
    BY <1>1, <2>1, <2>3 DEF PipesInStep
<1>6. ASSUME NEW c \in PyCallers, Reads(c), overdue = 0, HasAnswer PROVE TheAnswer.line = call[c].line
  <2>1. PICK m \in Nat, n \in Nat : m = Len(worker.pipe) /\ n = Len(worker.inbox) /\ m > 0 /\ Head(worker.pipe) = worker.pipe[1]
    <3>1. worker.pipe \in Seq(PyAnswers) /\ worker.inbox \in Seq(PyRequests) /\ worker.pipe # <<>>
      BY <1>1, <1>6 DEF PyTypeOK, PyWorkers, HasAnswer
    <3>2. Len(worker.pipe) \in Nat /\ Len(worker.inbox) \in Nat /\ Len(worker.pipe) > 0 /\ Head(worker.pipe) = worker.pipe[1]
      BY <3>1
    <3> QED
      BY <3>2
  <2>2. Unread = m + n
    BY <2>1 DEF Unread
  <2>3. m + n > 0
    <3>1. m > 0
      BY <2>1
    <3> QED
      BY <3>1
  <2>4. Unread > overdue
    BY <1>6, <2>2, <2>3
  <2>5. Unread = 0 + 1 /\ \E i \in 1..Unread : LineAt(i) = call[c].line
    BY <1>5, <1>6, <2>4
  <2>6. LineAt(1) = call[c].line
    <3>1. 1..Unread = {1}
      BY <2>5
    <3> QED
      BY <2>5, <3>1
  <2>7. LineAt(1) = worker.pipe[1].line
    BY <2>1 DEF LineAt
  <2> QED
    BY <2>1, <2>6, <2>7 DEF TheAnswer
<1> QED
  BY <1>4, <1>5, <1>6 DEF AnswersAreOwn

-------------------------------------------------------------------------------
(* Theorems.                                                                *)

\* The lines of a worker that nobody has read are those of calls that were
\* dropped, those the code printed and the one that is awaited: nothing else
\* makes send_request (python/runtime.rs) read an answer that is not to its
\* own line, whatever crashed, did not parse, was restored or tried again.
THEOREM AnswersAreOwnCorrect ==
  ASSUME NoCaller \notin PyCallers
  PROVE  Spec => []AnswersAreOwn
<1>1. PyInv /\ [Next]_vars => PyInv'
  BY PyStep
<1>2. PyInv => AnswersAreOwn
  BY PyInvImplies
<1> QED
  BY <1>1, <1>2, PyInit, PTL DEF Spec
==================================================================================
