--------------------------- MODULE RebNetworkProofs ---------------------------
(***************************************************************************)
(* Theorems of RebNetwork for every capacity of the queues, every number   *)
(* of faults and every choice of buttons.                                  *)
(*                                                                         *)
(* A listener holds what the server last answered unless the latest frame  *)
(* of its kind is among those it missed; for the dashboard, whose queue    *)
(* delays frames, that is the last status on the way to it.                *)
(***************************************************************************)
EXTENDS RebNetwork, SequenceTheorems, TLAPS

StateName == {"IDLE", "THEFT_CONFIRMED", "BLOCKING", "BLOCKED"}

Status  == [id : {"REB_STATUS"}, state : StateName]
Derate  == [id : {"REB_DERATE_CMD"}, derate : BOOLEAN]
Prevent == [id : {"REB_PREVENT_START"}, prevent : BOOLEAN]
Command == {MessageOf(b) : b \in AllButtons}

\* The answer the bridge works on, of which a part has been published.
AnswersInv ==
  \/ answers = <<>>
  \/ /\ "bridge" \in running
     /\ \E d \in Derate, p \in Prevent :
          \/ \E s \in Status : s.state = StatusName(phase) /\ answers = <<s, d, p>>
          \/ answers = <<d, p>>
          \/ answers = <<p>>

InboxInv ==
  /\ inbox = [m \in Queued |-> inbox[m]]
  /\ inbox["bridge"] \in Seq(Command)
  /\ inbox["dashboard"] \in Seq(Status)

Shape ==
  /\ TypeOK
  /\ AnswersInv
  /\ InboxInv
  /\ published \in [derate : BOOLEAN, prevent : BOOLEAN]

--------------------------------------------------------------------------------
(* The bus *)

\* Who reads what.
LEMMA ReadersOf ==
  /\ Readers("REB_STATUS") = {"dashboard"}
  /\ Readers("REB_DERATE_CMD") = {"fuel"}
  /\ Readers("REB_PREVENT_START") = {"engine"}
  /\ \A id \in Commands : Readers(id) = {"bridge"}
  BY DEF Readers, ReadBy, Modules, Commands

\* The message of a button is a command.
LEMMA ButtonCommands == \A b \in AllButtons : MessageOf(b).id \in Commands
  BY DEF MessageOf, AllButtons, Commands

\* The kinds are as many as the readers.
LEMMA KindsOf ==
  /\ KindOf("REB_STATUS") = "REB_STATUS"
  /\ KindOf("REB_DERATE_CMD") = "REB_DERATE_CMD"
  /\ KindOf("REB_PREVENT_START") = "REB_PREVENT_START"
  /\ \A id \in Commands : KindOf(id) = "COMMAND"
  BY DEF KindOf, Commands

\* A copy gets to a module only that reads it, is known, and runs.
LEMMA KeptFacts ==
  ASSUME NEW from, NEW id, NEW kept \in Deliveries(from, id)
  PROVE  /\ kept \subseteq Readers(id)
         /\ kept \subseteq clients \ {from}
         /\ kept \subseteq running
         /\ FaultLeft \/ kept = Reached(from, id)
  BY DEF Deliveries, Reached, Addressed

\* A module that has lost the hub has heard nothing.
LEMMA UnheardFacts ==
  ASSUME NEW ms
  PROVE  /\ "dashboard" \in ms => <<"dashboard", "REB_STATUS">> \in Unheard(ms)
         /\ "engine" \in ms => <<"engine", "REB_PREVENT_START">> \in Unheard(ms)
         /\ "fuel" \in ms => <<"fuel", "REB_DERATE_CMD">> \in Unheard(ms)
         /\ "bridge" \in ms => <<"bridge", "COMMAND">> \in Unheard(ms)
<1>1. /\ "REB_STATUS" \in ReadBy["dashboard"]
      /\ "REB_PREVENT_START" \in ReadBy["engine"]
      /\ "REB_DERATE_CMD" \in ReadBy["fuel"]
      /\ "REB_CMD" \in ReadBy["bridge"]
  BY DEF ReadBy, Modules, Commands
<1>2. \A m, id : m \in ms /\ id \in ReadBy[m] => <<m, KindOf(id)>> \in Unheard(ms)
  BY DEF Unheard
<1>3. "REB_CMD" \in Commands
  BY DEF Commands
<1> QED BY <1>1, <1>2, <1>3, KindsOf

\* What a datagram does to the queues: only its own reader's grows.
LEMMA SendQueues ==
  ASSUME Shape, NEW from, NEW msg \in Command \cup Status \cup Derate \cup Prevent,
         NEW kept \in Deliveries(from, msg.id), Send(from, msg, kept)
  PROVE  /\ inbox' = [m \in Queued |-> inbox'[m]]
         /\ inbox'["bridge"] = IF msg \in Command /\ "bridge" \in kept
                               THEN Append(inbox["bridge"], msg) ELSE inbox["bridge"]
         /\ inbox'["dashboard"] = IF msg \in Status /\ "dashboard" \in kept
                               THEN Append(inbox["dashboard"], msg) ELSE inbox["dashboard"]
<1>1. kept \subseteq Readers(msg.id)
  BY KeptFacts
<1>2. inbox' = [m \in Queued |-> IF m \in kept THEN Append(inbox[m], msg) ELSE inbox[m]]
  BY DEF Send
<1>3. "bridge" \in Queued /\ "dashboard" \in Queued
  BY DEF Queued, Modules, Ecus
<1>4. msg \in Command => msg.id \in Commands
  BY ButtonCommands DEF Command
<1>5. "REB_STATUS" \notin Commands /\ "REB_DERATE_CMD" \notin Commands
        /\ "REB_PREVENT_START" \notin Commands
  BY DEF Commands
<1>6. /\ msg \in Status => msg.id = "REB_STATUS"
      /\ msg \in Derate => msg.id = "REB_DERATE_CMD"
      /\ msg \in Prevent => msg.id = "REB_PREVENT_START"
  BY DEF Status, Derate, Prevent
<1>7. "bridge" \in kept => msg \in Command
  BY <1>1, <1>6, ReadersOf
<1>8. "dashboard" \in kept => msg \in Status
  BY <1>1, <1>4, <1>5, <1>6, ReadersOf
<1> QED BY <1>2, <1>3, <1>7, <1>8

\* The types of the bus outlast a datagram.
LEMMA SendTypes ==
  ASSUME Shape, NEW from \in running, from \in Modules,
         NEW msg \in Command \cup Status \cup Derate \cup Prevent,
         NEW kept \in Deliveries(from, msg.id), Send(from, msg, kept)
  PROVE  /\ InboxInv'
         /\ clients' \subseteq running' /\ running' \subseteq Modules
         /\ up' \/ clients' = {}
         /\ \A m \in Queued : inbox'[m] # <<>> => m \in running'
         /\ \A m \in Queued : Len(inbox'[m]) <= QueueCapacity
         /\ faults' \in 0 .. MaxFaults
<1>1. InboxInv'
  <2>1. inbox' = [m \in Queued |-> inbox'[m]]
    BY SendQueues
  <2>2. inbox'["bridge"] \in Seq(Command)
    <3>1. inbox["bridge"] \in Seq(Command)
      BY DEF Shape, InboxInv
    <3>2. CASE msg \in Command /\ "bridge" \in kept
      <4>1. inbox'["bridge"] = Append(inbox["bridge"], msg)
        BY <3>2, SendQueues
      <4> QED BY <3>1, <3>2, <4>1
    <3>3. CASE ~(msg \in Command /\ "bridge" \in kept)
      <4>1. inbox'["bridge"] = inbox["bridge"]
        BY <3>3, SendQueues
      <4> QED BY <3>1, <4>1
    <3> QED BY <3>2, <3>3
  <2>3. inbox'["dashboard"] \in Seq(Status)
    <3>1. inbox["dashboard"] \in Seq(Status)
      BY DEF Shape, InboxInv
    <3>2. CASE msg \in Status /\ "dashboard" \in kept
      <4>1. inbox'["dashboard"] = Append(inbox["dashboard"], msg)
        BY <3>2, SendQueues
      <4> QED BY <3>1, <3>2, <4>1
    <3>3. CASE ~(msg \in Status /\ "dashboard" \in kept)
      <4>1. inbox'["dashboard"] = inbox["dashboard"]
        BY <3>3, SendQueues
      <4> QED BY <3>1, <4>1
    <3> QED BY <3>2, <3>3
  <2> QED BY <2>1, <2>2, <2>3 DEF InboxInv
<1>2. clients' \subseteq running' /\ running' \subseteq Modules /\ (up' \/ clients' = {})
  BY DEF Send, Shape, TypeOK
<1>3. ASSUME NEW m \in Queued
      PROVE  /\ inbox'[m] # <<>> => m \in running'
             /\ Len(inbox'[m]) <= QueueCapacity
  <2>1. inbox'[m] = IF m \in kept THEN Append(inbox[m], msg) ELSE inbox[m]
    BY DEF Send
  <2>2. \E S : inbox[m] \in Seq(S)
    BY DEF Shape, InboxInv, Queued, Modules, Ecus
  <2>3. m \in kept => m \in running /\ Len(inbox[m]) < QueueCapacity
    BY KeptFacts DEF Send
  <2>4. CASE m \in kept
    <3>1. Len(inbox'[m]) = Len(inbox[m]) + 1 /\ Len(inbox[m]) \in Nat
      BY <2>1, <2>2, <2>4
    <3> QED BY <2>3, <2>4, <3>1, BusAssumption DEF Send
  <2>5. CASE m \notin kept
    BY <2>1, <2>5 DEF Send, Shape, TypeOK
  <2> QED BY <2>4, <2>5
<1>4. faults' \in 0 .. MaxFaults
  BY KeptFacts, BusAssumption DEF Send, FaultLeft, Shape, TypeOK
<1> QED BY <1>1, <1>2, <1>3, <1>4

\* The marks a datagram leaves.
LEMMA SendMarks ==
  ASSUME NEW from, NEW msg, NEW kept, Send(from, msg, kept)
  PROVE  \A m, k : <<m, k>> \in missed' <=>
           IF k = KindOf(msg.id) /\ m \in Readers(msg.id) \cup kept
           THEN m \in Readers(msg.id) \ kept ELSE <<m, k>> \in missed
  BY DEF Send, Marks

--------------------------------------------------------------------------------
(* Types *)

\* What waits at a socket is what its module reads.
LEMMA InboxIds ==
  ASSUME NEW box, box["bridge"] \in Seq(Command), box["dashboard"] \in Seq(Status)
  PROVE  \A m \in Queued : \A i \in DOMAIN box[m] : box[m][i].id \in ReadBy[m]
<1>1. ReadBy["bridge"] = Commands /\ ReadBy["dashboard"] = {"REB_STATUS"}
  BY DEF ReadBy, Modules
<1>2. \A i \in DOMAIN box["bridge"] : box["bridge"][i].id \in Commands
  BY ButtonCommands DEF Command
<1>3. \A i \in DOMAIN box["dashboard"] : box["dashboard"][i].id = "REB_STATUS"
  <2>1. \A x \in Status : x.id = "REB_STATUS"
    BY DEF Status
  <2> QED BY <2>1
<1> QED BY <1>1, <1>2, <1>3 DEF Queued, Modules, Ecus

\* The programs start well typed.
LEMMA InitShape == Init => Shape
<1> SUFFICES ASSUME Init PROVE Shape
  OBVIOUS
<1> USE DEF Init, BusInit
<1>1. InboxInv
  BY DEF InboxInv, Queued, Modules, Ecus
<1>2. \A m \in Queued : inbox[m] = <<>>
  OBVIOUS
<1>3. \A m \in Queued :
        /\ Len(inbox[m]) <= QueueCapacity
        /\ \A i \in DOMAIN inbox[m] : inbox[m][i].id \in ReadBy[m]
        /\ inbox[m] # <<>> => m \in running
  BY <1>2, BusAssumption
<1>4. Core!TypeOK /\ Len(answers) <= 3 /\ faults \in 0 .. MaxFaults
  BY BusAssumption DEF Core!Init, Core!TypeOK, Core!Phase
<1>5. TypeOK
  BY <1>3, <1>4 DEF TypeOK
<1> QED BY <1>1, <1>5 DEF Shape, AnswersInv

\* Starting the hub or a new one.
LEMMA HubShape == Shape /\ HubStep => Shape'
<1> SUFFICES ASSUME Shape, HubStep PROVE Shape'
  OBVIOUS
<1> USE DEF HubStep, StartHub, RestartHub, Shape
<1>1. InboxInv' /\ AnswersInv'
  BY DEF InboxInv, AnswersInv
<1>2. faults' \in 0 .. MaxFaults
  BY BusAssumption DEF TypeOK, FaultLeft
<1>3. (up' \/ clients' = {}) /\ up' \in BOOLEAN /\ clients' \subseteq running'
  BY DEF TypeOK
<1>4. TypeOK'
  BY <1>2, <1>3 DEF TypeOK, Core!TypeOK, dashboard, ecus
<1> QED BY <1>1, <1>4

\* Starting a program or an ECU again; the bridge and the dashboard stay.
LEMMA StartShape ==
  ASSUME Shape, NEW m \in Modules, StartModule(m)
  PROVE  Shape'
<1> USE DEF StartModule, Start, Shape
<1>1. \A q \in Queued : q \in running => q \in running'
  BY DEF Queued
<1>2. InboxInv' /\ AnswersInv'
  BY <1>1 DEF InboxInv, AnswersInv, Queued, Modules, Ecus
<1>3. clients' \subseteq running' /\ running' \subseteq Modules /\ (up' \/ clients' = {})
  BY DEF TypeOK
<1>4. faults' \in 0 .. MaxFaults
  BY BusAssumption DEF TypeOK, FaultLeft
<1>5. /\ up' \in BOOLEAN /\ alerts' \in BOOLEAN
      /\ starter_locked' \in BOOLEAN /\ power_limited' \in BOOLEAN
  BY DEF TypeOK, dashboard
<1> QED BY <1>1, <1>2, <1>3, <1>4, <1>5 DEF TypeOK, Core!TypeOK, dashboard

\* The core stays in its phases.
LEMMA CoreStepType ==
  ASSUME phase \in Core!Phase, NEW msg, CoreStep(msg)
  PROVE  phase' \in Core!Phase
  BY DEF CoreStep, Core!Warn, Core!Cancel, Core!Engage, Core!Lock, Core!Phase

\* Taking a message out of a queue keeps the queues in shape.
LEMMA TakeQueues ==
  ASSUME Shape, NEW q \in Queued, Take(q)
  PROVE  /\ InboxInv'
         /\ \A m \in Queued : Len(inbox'[m]) <= QueueCapacity
         /\ \A m \in Queued : \A i \in DOMAIN inbox'[m] : inbox'[m][i].id \in ReadBy[m]
         /\ \A m \in Queued : inbox'[m] # <<>> => m \in running'
         /\ \A m \in Queued : m # q => inbox'[m] = inbox[m]
         /\ inbox'[q] = Tail(inbox[q])
         /\ inbox[q] # <<>>
<1>1. /\ inbox = [m \in Queued |-> inbox[m]]
      /\ inbox' = [inbox EXCEPT ![q] = Tail(@)]
      /\ inbox[q] # <<>> /\ q \in running' /\ running' = running
  BY DEF Take, Shape, InboxInv
<1>2. /\ \A m \in Queued : m # q => inbox'[m] = inbox[m]
      /\ inbox'[q] = Tail(inbox[q])
      /\ inbox' = [m \in Queued |-> inbox'[m]]
  BY <1>1
<1>3. q \in {"bridge", "dashboard"} /\ Queued = {"bridge", "dashboard"}
  BY DEF Queued, Modules, Ecus
<1>4. inbox["bridge"] \in Seq(Command) /\ inbox["dashboard"] \in Seq(Status)
  BY DEF Shape, InboxInv
<1>5. inbox'["bridge"] \in Seq(Command) /\ inbox'["dashboard"] \in Seq(Status)
  <2>1. \A S : \A s \in Seq(S) : s # <<>> => Tail(s) \in Seq(S)
    OBVIOUS
  <2> QED BY <1>1, <1>2, <1>3, <1>4, <2>1
<1>6. InboxInv'
  BY <1>2, <1>5 DEF InboxInv
<1>7. \A m \in Queued : \A i \in DOMAIN inbox'[m] : inbox'[m][i].id \in ReadBy[m]
  BY <1>5, InboxIds
<1>8. Len(inbox'[q]) <= QueueCapacity
  <2>1. \E S : inbox[q] \in Seq(S)
    BY <1>3, <1>4
  <2>2. Len(inbox'[q]) = Len(inbox[q]) - 1 /\ Len(inbox[q]) \in Nat
    BY <1>1, <1>2, <2>1
  <2>3. Len(inbox[q]) <= QueueCapacity
    BY DEF Shape, TypeOK
  <2> QED BY <2>2, <2>3, BusAssumption
<1>9. \A m \in Queued : Len(inbox'[m]) <= QueueCapacity /\ (inbox'[m] # <<>> => m \in running')
  BY <1>1, <1>2, <1>8 DEF Shape, TypeOK
<1> QED BY <1>1, <1>2, <1>6, <1>7, <1>9

\* A message reaches the core and its answer has three frames.
LEMMA AskShape == Shape /\ Ask => Shape'
<1> SUFFICES ASSUME Shape, Ask PROVE Shape'
  OBVIOUS
<1>0. Take("bridge") /\ CoreStep(Head(inbox["bridge"]))
  BY DEF Ask
<1>1. phase' \in Core!Phase
  BY <1>0, CoreStepType DEF Shape, TypeOK, Core!TypeOK
<1>2. "bridge" \in Queued
  BY DEF Queued, Modules, Ecus
<1>3. PICK derate \in Derating(phase, phase') :
        answers' = AnswerTo(phase, phase', derate)
  BY DEF Ask
<1>4. AnswersInv' /\ Len(answers') = 3
  <2> DEFINE s == [id |-> "REB_STATUS", state |-> StatusName(phase')]
             d == [id |-> "REB_DERATE_CMD", derate |-> derate]
             p == [id |-> "REB_PREVENT_START", prevent |-> phase = "blocked"]
  <2>1. StatusName(phase') \in StateName
    BY <1>1 DEF StatusName, StateName, Core!Phase
  <2>2. derate \in BOOLEAN
    BY <1>3 DEF Derating
  <2>3. s \in Status /\ s.state = StatusName(phase')
    BY <2>1 DEF Status
  <2>4. d \in Derate
    BY <2>2 DEF Derate
  <2>5. p \in Prevent
    BY DEF Prevent
  <2>6. answers' = <<s, d, p>>
    BY <1>3 DEF AnswerTo
  <2>7. "bridge" \in running'
    BY <1>0 DEF Take
  <2>8. StatusName(phase') = StatusName(phase)'
    BY DEF StatusName
  <2> HIDE DEF s, d, p
  <2> QED BY <2>3, <2>4, <2>5, <2>6, <2>7, <2>8 DEF AnswersInv
<1>5. /\ InboxInv'
      /\ \A m \in Queued : Len(inbox'[m]) <= QueueCapacity
      /\ \A m \in Queued : \A i \in DOMAIN inbox'[m] : inbox'[m][i].id \in ReadBy[m]
      /\ \A m \in Queued : inbox'[m] # <<>> => m \in running'
  BY <1>0, <1>2, TakeQueues
<1> QED BY <1>0, <1>1, <1>4, <1>5
        DEF Shape, TypeOK, Take, Ask, dashboard, ecus, Core!TypeOK

\* The dashboard reads a status.
LEMMA DisplayShape == Shape /\ Display => Shape'
<1> SUFFICES ASSUME Shape, Display PROVE Shape'
  OBVIOUS
<1>1. Take("dashboard") /\ "dashboard" \in Queued
  BY DEF Display, Queued, Modules, Ecus
<1>2. AnswersInv'
  BY <1>1 DEF Display, Take, Shape, AnswersInv
<1>3. alerts' \in BOOLEAN
  BY DEF Display, AlertsFor
<1>5. /\ InboxInv'
      /\ \A m \in Queued : Len(inbox'[m]) <= QueueCapacity
      /\ \A m \in Queued : \A i \in DOMAIN inbox'[m] : inbox'[m][i].id \in ReadBy[m]
      /\ \A m \in Queued : inbox'[m] # <<>> => m \in running'
  BY <1>1, TakeQueues
<1> QED BY <1>1, <1>2, <1>3, <1>5
        DEF Shape, TypeOK, Take, Display, ecus, Core!TypeOK

\* A button sends a command.
LEMMA PressShape ==
  ASSUME Shape, NEW b \in Buttons, Press(b)
  PROVE  Shape'
<1>1. "dashboard" \in running /\ "dashboard" \in Modules
  BY DEF Press, Modules
<1>2. MessageOf(b) \in Command
  BY NetworkAssumption DEF Command
<1>3. PICK kept \in Deliveries("dashboard", MessageOf(b).id) :
        Send("dashboard", MessageOf(b), kept)
  BY DEF Press
<1>4. /\ InboxInv'
      /\ clients' \subseteq running' /\ running' \subseteq Modules
      /\ up' \/ clients' = {}
      /\ \A m \in Queued : inbox'[m] # <<>> => m \in running'
      /\ \A m \in Queued : Len(inbox'[m]) <= QueueCapacity
      /\ faults' \in 0 .. MaxFaults
  BY <1>1, <1>2, <1>3, SendTypes
<1>5. \A m \in Queued : \A i \in DOMAIN inbox'[m] : inbox'[m][i].id \in ReadBy[m]
  BY <1>4, InboxIds DEF InboxInv
<1>6. AnswersInv'
  BY <1>3 DEF Press, Send, Shape, AnswersInv
<1> QED BY <1>3, <1>4, <1>5, <1>6 DEF Shape, TypeOK, Press, Send, ecus, Core!TypeOK

\* What the bridge publishes first.
LEMMA HeadOfAnswers ==
  ASSUME AnswersInv, answers # <<>>
  PROVE  /\ "bridge" \in running
         /\ \/ /\ Head(answers) \in Status
               /\ Head(answers).state = StatusName(phase)
               /\ Len(answers) = 3
            \/ Head(answers) \in Derate \cup Prevent /\ Len(answers) < 3
         /\ \/ Tail(answers) = <<>>
            \/ \E d \in Derate, p \in Prevent :
                 Tail(answers) = <<d, p>> \/ Tail(answers) = <<p>>
         /\ Len(Tail(answers)) <= 3
<1>1. PICK d \in Derate, p \in Prevent :
         \/ \E s \in Status : s.state = StatusName(phase) /\ answers = <<s, d, p>>
         \/ answers = <<d, p>>
         \/ answers = <<p>>
  BY DEF AnswersInv
<1>2. CASE \E s \in Status : s.state = StatusName(phase) /\ answers = <<s, d, p>>
  <2>1. PICK s \in Status : s.state = StatusName(phase) /\ answers = <<s, d, p>>
    BY <1>2
  <2>2. Head(answers) = s /\ Tail(answers) = <<d, p>> /\ Len(answers) = 3
        /\ Len(Tail(answers)) <= 3
    BY <2>1
  <2> QED BY <2>1, <2>2 DEF AnswersInv
<1>3. CASE answers = <<d, p>>
  <2>1. Head(answers) = d /\ Tail(answers) = <<p>> /\ Len(answers) = 2
        /\ Len(Tail(answers)) <= 3
    BY <1>3
  <2> QED BY <2>1 DEF AnswersInv
<1>4. CASE answers = <<p>>
  <2>1. Head(answers) = p /\ Tail(answers) = <<>> /\ Len(answers) = 1
        /\ Len(Tail(answers)) <= 3
    BY <1>4
  <2> QED BY <2>1 DEF AnswersInv
<1> QED BY <1>1, <1>2, <1>3, <1>4

\* One frame of an answer is published; what the ECUs take from it is Boolean.
LEMMA PublishShape == Shape /\ Publish => Shape'
<1> SUFFICES ASSUME Shape, Publish PROVE Shape'
  OBVIOUS
<1> DEFINE msg == Head(answers)
<1>1. /\ "bridge" \in running
      /\ msg \in Status \cup Derate \cup Prevent
      /\ \/ Tail(answers) = <<>>
         \/ \E d \in Derate, p \in Prevent :
              Tail(answers) = <<d, p>> \/ Tail(answers) = <<p>>
  BY HeadOfAnswers DEF Publish, Shape
<1>2. PICK kept \in Deliveries("bridge", msg.id) :
        /\ Send("bridge", msg, kept)
        /\ EngineObey(msg, kept)
        /\ FuelObey(msg, kept)
  BY DEF Publish
<1>3. /\ InboxInv'
      /\ clients' \subseteq running' /\ running' \subseteq Modules
      /\ up' \/ clients' = {}
      /\ \A m \in Queued : inbox'[m] # <<>> => m \in running'
      /\ \A m \in Queued : Len(inbox'[m]) <= QueueCapacity
      /\ faults' \in 0 .. MaxFaults
  <2>1. "bridge" \in Modules
    BY DEF Modules
  <2> QED BY <1>1, <1>2, <2>1, SendTypes
<1>4. \A m \in Queued : \A i \in DOMAIN inbox'[m] : inbox'[m][i].id \in ReadBy[m]
  BY <1>3, InboxIds DEF InboxInv
<1>5. answers' = Tail(answers) /\ UNCHANGED <<phase, dashboard, up, running>>
  BY <1>2 DEF Publish, Send
<1>6. AnswersInv'
  BY <1>1, <1>5 DEF AnswersInv
<1>7. Len(answers') <= 3
  BY <1>5, HeadOfAnswers DEF Publish, Shape
<1>8. /\ msg \in Status => msg.id = "REB_STATUS"
      /\ msg \in Derate => msg.id = "REB_DERATE_CMD" /\ msg.derate \in BOOLEAN
      /\ msg \in Prevent => msg.id = "REB_PREVENT_START" /\ msg.prevent \in BOOLEAN
  BY DEF Status, Derate, Prevent
<1>9. /\ "engine" \in kept => msg \in Prevent
      /\ "fuel" \in kept => msg \in Derate
  BY <1>1, <1>8, KeptFacts, ReadersOf
<1>10. starter_locked' \in BOOLEAN /\ power_limited' \in BOOLEAN
  BY <1>2, <1>8, <1>9 DEF EngineObey, FuelObey, Shape, TypeOK
<1>11. published' \in [derate : BOOLEAN, prevent : BOOLEAN]
  BY <1>1, <1>8 DEF Publish, Shape
<1> QED BY <1>3, <1>4, <1>5, <1>6, <1>7, <1>10, <1>11
        DEF Shape, TypeOK, dashboard, Core!TypeOK

\* Every step keeps the types.
LEMMA ShapeStep == Shape /\ [Next]_vars => Shape'
<1> SUFFICES ASSUME Shape, [Next]_vars PROVE Shape'
  OBVIOUS
<1>1. CASE UNCHANGED vars
  BY <1>1 DEF vars, bus, dashboard, ecus, Shape, TypeOK, AnswersInv, InboxInv, Core!TypeOK
<1> QED BY <1>1, HubShape, StartShape, AskShape, PublishShape, PressShape, DisplayShape
        DEF Next

\* The network is well typed: no socket holds more than its capacity, only modules
\* that run are known or have mail, and the bridge holds at most one answer.
THEOREM TypeCorrect == Spec => []TypeOK
<1>1. Shape => TypeOK
  BY DEF Shape
<1> QED BY <1>1, InitShape, ShapeStep, PTL DEF Spec

--------------------------------------------------------------------------------
(* Who is cut off *)

\* An unknown bridge or ECU is made known by its own start alone.
LEMMA DeafStep ==
  ASSUME Shape, [Next]_vars, NEW m \in Modules \ {"dashboard"}, Deaf(m), ~Deaf(m)'
  PROVE  StartModule(m)
<1>1. m = "bridge" => inbox["bridge"] = <<>> /\ answers = <<>>
  BY DEF Deaf
<1>2. CASE HubStep
  BY <1>2 DEF HubStep, StartHub, RestartHub, Deaf
<1>3. ASSUME NEW k \in Modules, StartModule(k)
      PROVE  StartModule(m)
  BY <1>3 DEF StartModule, Start, Deaf
<1>4. CASE Ask
  BY <1>4 DEF Ask, Take, Deaf
<1>5. CASE Publish
  BY <1>5 DEF Publish, Send, Deaf
<1>6. ASSUME NEW b \in Buttons, Press(b)
      PROVE  FALSE
  <2>1. PICK kept \in Deliveries("dashboard", MessageOf(b).id) :
          Send("dashboard", MessageOf(b), kept)
    BY <1>6 DEF Press
  <2>2. kept \subseteq clients
    BY KeptFacts
  <2>3. m \notin clients'
    BY <2>1 DEF Send, Deaf
  <2>4. m = "bridge" => inbox'["bridge"] = inbox["bridge"]
    BY <2>1, <2>2 DEF Send, Deaf, Queued, Modules, Ecus
  <2> QED BY <1>1, <1>6, <2>3, <2>4 DEF Press, Deaf
<1>7. CASE Display
  <2>1. m = "bridge" => inbox'["bridge"] = inbox["bridge"]
    BY <1>7 DEF Display, Take, Shape, InboxInv, Queued, Modules, Ecus
  <2> QED BY <1>7, <2>1 DEF Display, Take, Deaf
<1>8. CASE UNCHANGED vars
  BY <1>8 DEF vars, bus, Deaf
<1> QED BY <1>2, <1>3, <1>4, <1>5, <1>6, <1>7, <1>8 DEF Next

\* A bridge or an ECU that the hub does not know stays cut off until it is started
\* again, whatever the others do and however often the hub is restarted.
THEOREM CutOffForGood == Spec => DeafForGood
<1>1. Shape /\ [Next]_vars =>
        [\A m \in Modules \ {"dashboard"} : Deaf(m) /\ ~Deaf(m)' => StartModule(m)]_vars
  BY DeafStep
<1> QED BY <1>1, InitShape, ShapeStep, PTL DEF Spec, DeafForGood

--------------------------------------------------------------------------------
(* The ECUs *)

\* An ECU that heard the latest frame of its kind holds what it says; one that
\* was never started holds what it will start with.
EcuInv ==
  /\ Heard("engine", "REB_PREVENT_START") => starter_locked = published.prevent
  /\ Heard("fuel", "REB_DERATE_CMD") => power_limited = published.derate
  /\ "engine" \notin running => ~starter_locked
  /\ "fuel" \notin running => ~power_limited

\* Nothing that neither marks nor starts an ECU matters to them.
LEMMA EcuUntouched ==
  ASSUME EcuInv, UNCHANGED <<ecus, published>>,
         \A m \in Ecus : m \in running => m \in running',
         <<"engine", "REB_PREVENT_START">> \in missed
           => <<"engine", "REB_PREVENT_START">> \in missed',
         <<"fuel", "REB_DERATE_CMD">> \in missed => <<"fuel", "REB_DERATE_CMD">> \in missed'
  PROVE  EcuInv'
  BY DEF EcuInv, Heard, ecus, Ecus

\* A start: for the first time, with nothing published since that was heard of, or
\* again, after which the latest frame counts as missed.
LEMMA EcuStart ==
  ASSUME Shape, EcuInv, NEW m \in Modules, StartModule(m)
  PROVE  EcuInv'
<1>1. /\ missed \subseteq missed'
      /\ m \in running => Unheard({m}) \subseteq missed'
      /\ \A k \in Modules : k # m => (k \in running' <=> k \in running)
  BY DEF StartModule, Start
<1>2. /\ m = "engine" /\ m \in running => ~Heard("engine", "REB_PREVENT_START")'
      /\ m = "fuel" /\ m \in running => ~Heard("fuel", "REB_DERATE_CMD")'
  <2>1. m \in {m}
    OBVIOUS
  <2> QED BY <1>1, <2>1, UnheardFacts DEF Heard
<1>3. "engine" \in Modules /\ "fuel" \in Modules
  BY DEF Modules
<1>4. /\ published' = published
      /\ starter_locked' = (starter_locked /\ m # "engine")
      /\ power_limited' = (power_limited /\ m # "fuel")
  BY DEF StartModule
<1>5. /\ Heard("engine", "REB_PREVENT_START")' => Heard("engine", "REB_PREVENT_START")
      /\ Heard("fuel", "REB_DERATE_CMD")' => Heard("fuel", "REB_DERATE_CMD")
  BY <1>1 DEF Heard
<1>6. starter_locked \in BOOLEAN /\ power_limited \in BOOLEAN
  BY DEF Shape, TypeOK
<1> QED BY <1>1, <1>2, <1>3, <1>4, <1>5, <1>6 DEF EcuInv

\* A frame that gets to its ECU is obeyed at once, one that does not is missed.
LEMMA EcuPublish ==
  ASSUME Shape, EcuInv, Publish
  PROVE  EcuInv'
<1> DEFINE msg == Head(answers)
<1>1. PICK kept \in Deliveries("bridge", msg.id) :
        /\ Send("bridge", msg, kept)
        /\ EngineObey(msg, kept)
        /\ FuelObey(msg, kept)
  BY DEF Publish
<1>2. kept \subseteq Readers(msg.id) /\ kept \subseteq running /\ running' = running
  BY <1>1, KeptFacts DEF Send
<1>3. \A m, k : <<m, k>> \in missed' <=>
        IF k = KindOf(msg.id) /\ m \in Readers(msg.id) \cup kept
        THEN m \in Readers(msg.id) \ kept ELSE <<m, k>> \in missed
  BY <1>1, SendMarks
<1>4. msg \in Status \cup Derate \cup Prevent
  BY HeadOfAnswers DEF Publish, Shape
<1>5. CASE msg \in Status
  <2>1. msg.id = "REB_STATUS"
    BY <1>5 DEF Status
  <2>2. "engine" \notin kept /\ "fuel" \notin kept
    BY <1>2, <2>1, ReadersOf
  <2>3. UNCHANGED <<ecus, published>>
    BY <1>1, <2>1, <2>2 DEF Publish, EngineObey, FuelObey, ecus
  <2> QED BY <1>2, <1>3, <2>1, <2>3, ReadersOf, KindsOf, EcuUntouched
<1>6. CASE msg \in Derate
  <2>1. msg.id = "REB_DERATE_CMD"
    BY <1>6 DEF Derate
  <2>2. "engine" \notin kept
    BY <1>2, <2>1, ReadersOf
  <2>3. starter_locked' = starter_locked /\ published'.prevent = published.prevent
    BY <1>1, <2>1, <2>2 DEF Publish, EngineObey, Shape
  <2>4. published'.derate = msg.derate
    BY <2>1 DEF Publish, Shape
  <2>5. /\ <<"fuel", "REB_DERATE_CMD">> \in missed' <=> "fuel" \notin kept
        /\ <<"engine", "REB_PREVENT_START">> \in missed' <=>
             <<"engine", "REB_PREVENT_START">> \in missed
    BY <1>2, <1>3, <2>1, ReadersOf, KindsOf
  <2>6. power_limited' = IF "fuel" \in kept THEN msg.derate ELSE power_limited
    BY <1>1 DEF FuelObey
  <2> QED BY <1>2, <2>3, <2>4, <2>5, <2>6 DEF EcuInv, Heard
<1>7. CASE msg \in Prevent
  <2>1. msg.id = "REB_PREVENT_START"
    BY <1>7 DEF Prevent
  <2>2. "fuel" \notin kept
    BY <1>2, <2>1, ReadersOf
  <2>3. power_limited' = power_limited /\ published'.derate = published.derate
    BY <1>1, <2>1, <2>2 DEF Publish, FuelObey, Shape
  <2>4. published'.prevent = msg.prevent
    BY <2>1 DEF Publish, Shape
  <2>5. /\ <<"engine", "REB_PREVENT_START">> \in missed' <=> "engine" \notin kept
        /\ <<"fuel", "REB_DERATE_CMD">> \in missed' <=> <<"fuel", "REB_DERATE_CMD">> \in missed
    BY <1>2, <1>3, <2>1, ReadersOf, KindsOf
  <2>6. starter_locked' = IF "engine" \in kept THEN msg.prevent ELSE starter_locked
    BY <1>1 DEF EngineObey
  <2> QED BY <1>2, <2>3, <2>4, <2>5, <2>6 DEF EcuInv, Heard
<1> QED BY <1>4, <1>5, <1>6, <1>7

\* A command leaves the marks of the ECUs alone.
LEMMA PressMarks ==
  ASSUME NEW b \in Buttons, Press(b)
  PROVE  \A m, k : k # "COMMAND" => (<<m, k>> \in missed' <=> <<m, k>> \in missed)
<1>1. MessageOf(b).id \in Commands
  BY ButtonCommands, NetworkAssumption
<1>2. PICK kept \in Deliveries("dashboard", MessageOf(b).id) :
        Send("dashboard", MessageOf(b), kept)
  BY DEF Press
<1>3. KindOf(MessageOf(b).id) = "COMMAND"
  BY <1>1, KindsOf
<1> QED BY <1>2, <1>3, SendMarks

\* Every step keeps what the ECUs hold in line.
LEMMA EcuStep == Shape /\ EcuInv /\ [Next]_vars => EcuInv'
<1> SUFFICES ASSUME Shape, EcuInv, [Next]_vars PROVE EcuInv'
  OBVIOUS
<1>1. CASE HubStep
  <2>1. CASE StartHub
    BY <1>1, <2>1, EcuUntouched DEF HubStep, StartHub
  <2>2. CASE RestartHub
    <3>1. missed' = Unheard(Modules) /\ UNCHANGED <<running, ecus, published>>
      BY <1>1, <2>2 DEF HubStep, RestartHub
    <3>2. "engine" \in Modules /\ "fuel" \in Modules
      BY DEF Modules
    <3> QED BY <3>1, <3>2, UnheardFacts, EcuUntouched
  <2> QED BY <1>1, <2>1, <2>2 DEF HubStep
<1>2. CASE Ask
  BY <1>2, EcuUntouched DEF Ask, Take
<1>3. ASSUME NEW b \in Buttons, Press(b)
      PROVE  EcuInv'
  <2>1. UNCHANGED <<ecus, published, running>>
    BY <1>3 DEF Press, Send
  <2> QED BY <1>3, <2>1, PressMarks, EcuUntouched
<1>4. CASE Display
  BY <1>4, EcuUntouched DEF Display, Take
<1>5. CASE UNCHANGED vars
  BY <1>5, EcuUntouched DEF vars, bus
<1> QED BY <1>1, <1>2, <1>3, <1>4, <1>5, EcuStart, EcuPublish DEF Next

\* An ECU that got the latest frame of its kind holds what the server last
\* answered, after any losses, restarts of the hub and restarts of the ECU.
THEOREM EcusAgree == Spec => []ListenersAgree
<1>1. Init => EcuInv
  <2> SUFFICES ASSUME Init PROVE EcuInv
    OBVIOUS
  <2>1. starter_locked = FALSE /\ power_limited = FALSE
    BY DEF Init
  <2>2. published.prevent = FALSE /\ published.derate = FALSE
    BY DEF Init
  <2> QED BY <2>1, <2>2 DEF EcuInv
<1>2. EcuInv => ListenersAgree
  BY DEF EcuInv, ListenersAgree
<1> QED BY <1>1, <1>2, InitShape, ShapeStep, EcuStep, PTL DEF Spec

--------------------------------------------------------------------------------
(* The dashboard *)

\* The state the dashboard shows once it has read what waits for it.
WillShow ==
  IF inbox["dashboard"] = <<>> THEN shown
  ELSE inbox["dashboard"][Len(inbox["dashboard"])].state

AlarmDue == last_trigger_source = "BCM" /\ phase \in {"warned", "armed", "blocking"}

DisplayInv ==
  Heard("dashboard", "REB_STATUS") /\ Len(answers) # 3 =>
    /\ WillShow = StatusName(phase)
    /\ /\ Heard("bridge", "COMMAND")
       /\ inbox["bridge"] = <<>> /\ inbox["dashboard"] = <<>>
       => alerts = AlarmDue

\* The alarm that a status in time decides is the one that is due.
LEMMA AlarmOfStatus ==
  ASSUME phase \in Core!Phase, NEW state, state = StatusName(phase)
  PROVE  AlertsFor(state) = AlarmDue
  BY DEF AlertsFor, AlarmDue, StatusName, Core!Phase

\* Marks may grow.
LEMMA DisplayUntouched ==
  ASSUME DisplayInv, UNCHANGED <<phase, answers, inbox, dashboard>>,
         missed \subseteq missed'
  PROVE  DisplayInv'
<1>1. /\ Heard("dashboard", "REB_STATUS")' => Heard("dashboard", "REB_STATUS")
      /\ Heard("bridge", "COMMAND")' => Heard("bridge", "COMMAND")
  BY DEF Heard
<1>2. WillShow' = WillShow /\ AlarmDue' = AlarmDue /\ StatusName(phase)' = StatusName(phase)
  BY DEF WillShow, AlarmDue, StatusName, dashboard
<1> QED BY <1>1, <1>2 DEF DisplayInv, dashboard

\* While a status is among the answers nothing is claimed.
LEMMA DisplayAsk == Shape /\ DisplayInv /\ Ask => DisplayInv'
<1> SUFFICES ASSUME Ask PROVE Len(answers') = 3
  BY DEF DisplayInv
<1> QED BY DEF Ask, AnswerTo

\* A command: it waits at the bridge or was missed by it.
LEMMA DisplayPress ==
  ASSUME Shape, DisplayInv, NEW b \in Buttons, Press(b)
  PROVE  DisplayInv'
<1>1. PICK kept \in Deliveries("dashboard", MessageOf(b).id) :
        Send("dashboard", MessageOf(b), kept)
  BY DEF Press
<1>2. /\ MessageOf(b) \in Command
      /\ MessageOf(b).id \in Commands
      /\ KindOf(MessageOf(b).id) = "COMMAND"
      /\ Readers(MessageOf(b).id) = {"bridge"}
  BY NetworkAssumption, ButtonCommands, KindsOf, ReadersOf DEF Command
<1>3. MessageOf(b) \notin Status
  BY <1>2 DEF Status, Commands
<1>4. /\ inbox'["dashboard"] = inbox["dashboard"]
      /\ "bridge" \in kept => inbox'["bridge"] = Append(inbox["bridge"], MessageOf(b))
  BY <1>1, <1>2, <1>3, SendQueues
<1>5. inbox["bridge"] \in Seq(Command)
  BY DEF Shape, InboxInv
<1>6. "bridge" \in kept => inbox'["bridge"] # <<>>
  BY <1>2, <1>4, <1>5
<1>7. "bridge" \notin kept => ~Heard("bridge", "COMMAND")'
  BY <1>1, <1>2, SendMarks DEF Heard
<1>8. Heard("dashboard", "REB_STATUS")' <=> Heard("dashboard", "REB_STATUS")
  BY PressMarks DEF Heard
<1>9. UNCHANGED <<phase, answers, shown>>
  BY DEF Press
<1>10. WillShow' = WillShow /\ StatusName(phase)' = StatusName(phase)
  BY <1>4, <1>9 DEF WillShow, StatusName
<1> QED BY <1>6, <1>7, <1>8, <1>9, <1>10 DEF DisplayInv

\* A status waits at the dashboard or was missed by it; other frames leave it alone.
LEMMA DisplayPublish ==
  ASSUME Shape, DisplayInv, Publish
  PROVE  DisplayInv'
<1> DEFINE msg == Head(answers)
<1>1. PICK kept \in Deliveries("bridge", msg.id) : Send("bridge", msg, kept)
  BY DEF Publish
<1>2. UNCHANGED <<phase, dashboard>>
  BY DEF Publish
<1>3. CASE msg \in Status /\ msg.state = StatusName(phase) /\ Len(answers) = 3
  <2>1. msg.id = "REB_STATUS"
    BY <1>3 DEF Status
  <2>2. "dashboard" \notin kept => ~Heard("dashboard", "REB_STATUS")'
    BY <1>1, <2>1, ReadersOf, KindsOf, SendMarks DEF Heard
  <2>3. ASSUME "dashboard" \in kept
        PROVE  WillShow' = StatusName(phase) /\ inbox'["dashboard"] # <<>>
    <3>1. inbox'["dashboard"] = Append(inbox["dashboard"], msg)
      BY <1>1, <1>3, <2>3, SendQueues
    <3>2. inbox["dashboard"] \in Seq(Status)
      BY DEF Shape, InboxInv
    <3>3. /\ Len(inbox'["dashboard"]) = Len(inbox["dashboard"]) + 1
          /\ inbox'["dashboard"][Len(inbox["dashboard"]) + 1] = msg
          /\ inbox'["dashboard"] # <<>>
      BY <1>3, <3>1, <3>2
    <3> QED BY <1>3, <3>3 DEF WillShow
  <2>4. StatusName(phase)' = StatusName(phase)
    BY <1>2 DEF StatusName
  <2> QED BY <2>2, <2>3, <2>4 DEF DisplayInv
<1>4. CASE msg \in Derate \cup Prevent /\ Len(answers) < 3
  <2>1. msg.id \in {"REB_DERATE_CMD", "REB_PREVENT_START"}
    BY <1>4 DEF Derate, Prevent
  <2>2. msg \notin Status /\ msg \notin Command
    BY <2>1, ButtonCommands DEF Status, Command, Commands
  <2>3. inbox'["dashboard"] = inbox["dashboard"] /\ inbox'["bridge"] = inbox["bridge"]
    BY <1>1, <1>4, <2>2, SendQueues
  <2>4. /\ Heard("dashboard", "REB_STATUS")' <=> Heard("dashboard", "REB_STATUS")
        /\ Heard("bridge", "COMMAND")' <=> Heard("bridge", "COMMAND")
    BY <1>1, <2>1, KindsOf, SendMarks DEF Heard
  <2>5. /\ WillShow' = WillShow /\ AlarmDue' = AlarmDue
        /\ StatusName(phase)' = StatusName(phase) /\ alerts' = alerts
    BY <1>2, <2>3 DEF WillShow, AlarmDue, StatusName, dashboard
  <2>6. Len(answers) # 3
    BY <1>4 DEF Shape, TypeOK
  <2> QED BY <2>3, <2>4, <2>5, <2>6 DEF DisplayInv
<1> QED BY <1>3, <1>4, HeadOfAnswers DEF Publish, Shape

\* The last of what waits stays last when the first is taken.
LEMMA LastOfTail ==
  ASSUME NEW S, NEW q \in Seq(S), q # <<>>
  PROVE  IF Len(q) = 1 THEN Tail(q) = <<>> /\ Head(q) = q[Len(q)]
         ELSE Tail(q) # <<>> /\ Tail(q)[Len(Tail(q))] = q[Len(q)]
<1> DEFINE t == Tail(q)
           n == Len(q)
<1>1. n \in Nat /\ n > 0 /\ Head(q) = q[1]
  OBVIOUS
<1>2. t \in Seq(S) /\ Len(t) = n - 1
  OBVIOUS
<1>3. \A i \in 1 .. n - 1 : t[i] = q[i + 1]
  OBVIOUS
<1>4. t = <<>> <=> Len(t) = 0
  BY <1>2, EmptySeq
<1>5. n # 1 => t[n - 1] = q[n - 1 + 1]
  BY <1>1, <1>3
<1> HIDE DEF t, n
<1>6. IF n = 1 THEN t = <<>> /\ Head(q) = q[n] ELSE t # <<>> /\ t[Len(t)] = q[n]
  BY <1>1, <1>2, <1>4, <1>5
<1> QED BY <1>6 DEF t, n

\* Reading the last status that waits decides state and alarm.
LEMMA DisplayRead ==
  ASSUME Shape, DisplayInv, Display
  PROVE  DisplayInv'
<1> DEFINE box == inbox["dashboard"]
<1>1. Take("dashboard") /\ "dashboard" \in Queued
  BY DEF Display, Queued, Modules, Ecus
<1>2. inbox'["dashboard"] = Tail(box) /\ box # <<>> /\ inbox'["bridge"] = inbox["bridge"]
  BY <1>1, TakeQueues DEF Queued, Modules, Ecus
<1>3. box \in Seq(Status)
  BY DEF Shape, InboxInv
<1>4. /\ shown' = Head(box).state /\ alerts' = AlertsFor(Head(box).state)
      /\ UNCHANGED <<phase, answers, last_trigger_source, missed>>
  BY <1>1 DEF Display, Take
<1>5. WillShow' = WillShow
  <2>1. CASE Len(box) = 1
    <3>1. Tail(box) = <<>> /\ Head(box) = box[Len(box)]
      BY <1>2, <1>3, <2>1, LastOfTail
    <3> QED BY <1>2, <1>4, <3>1 DEF WillShow
  <2>2. CASE Len(box) # 1
    <3>1. Tail(box) # <<>> /\ Tail(box)[Len(Tail(box))] = box[Len(box)]
      BY <1>2, <1>3, <2>2, LastOfTail
    <3> QED BY <1>2, <3>1 DEF WillShow
  <2> QED BY <2>1, <2>2
<1>6. /\ Heard("dashboard", "REB_STATUS")' <=> Heard("dashboard", "REB_STATUS")
      /\ StatusName(phase)' = StatusName(phase) /\ AlarmDue' = AlarmDue
  BY <1>4 DEF Heard, StatusName, AlarmDue
<1>7. ASSUME inbox'["dashboard"] = <<>>, WillShow = StatusName(phase)
      PROVE  alerts' = AlarmDue
  <2>1. Head(box) = box[Len(box)]
    BY <1>2, <1>3, <1>7, LastOfTail
  <2>2. Head(box).state = StatusName(phase)
    BY <1>2, <1>7, <2>1 DEF WillShow
  <2> QED BY <1>4, <2>2, AlarmOfStatus DEF Shape, TypeOK, Core!TypeOK
<1> QED BY <1>4, <1>5, <1>6, <1>7 DEF DisplayInv

\* Every step keeps the dashboard in line.
LEMMA DisplayStep == Shape /\ DisplayInv /\ [Next]_vars => DisplayInv'
<1> SUFFICES ASSUME Shape, DisplayInv, [Next]_vars PROVE DisplayInv'
  OBVIOUS
<1>1. CASE HubStep
  <2>1. UNCHANGED <<phase, answers, inbox, dashboard>>
    BY <1>1 DEF HubStep, StartHub, RestartHub
  <2>2. CASE StartHub
    BY <2>1, <2>2, DisplayUntouched DEF StartHub
  <2>3. CASE RestartHub
    <3>1. ~Heard("dashboard", "REB_STATUS")'
      <4>1. "dashboard" \in Modules
        BY DEF Modules
      <4> QED BY <2>3, <4>1, UnheardFacts DEF RestartHub, Heard
    <3> QED BY <3>1 DEF DisplayInv
  <2> QED BY <1>1, <2>2, <2>3 DEF HubStep
<1>2. ASSUME NEW m \in Modules, StartModule(m)
      PROVE  DisplayInv'
  <2>1. UNCHANGED <<phase, answers, inbox, dashboard>> /\ missed \subseteq missed'
    BY <1>2 DEF StartModule, Start
  <2> QED BY <2>1, DisplayUntouched
<1>3. CASE UNCHANGED vars
  BY <1>3, DisplayUntouched DEF vars, bus
<1> QED BY <1>1, <1>2, <1>3, DisplayAsk, DisplayPress, DisplayPublish, DisplayRead DEF Next

\* Once nothing is under way the dashboard shows the state of the core, unless it
\* missed the last status, and the alarm that is due, unless the bridge missed the
\* last command.
THEOREM DashboardAgrees == Spec => []DashboardShowsCore
<1>1. Init => DisplayInv
  <2> SUFFICES ASSUME Init PROVE DisplayInv
    OBVIOUS
  <2>1. inbox["dashboard"] = <<>> /\ shown = "IDLE" /\ phase = "idle"
    BY DEF Init, BusInit, Core!Init, Queued, Modules, Ecus
  <2>2. WillShow = StatusName(phase)
    BY <2>1 DEF WillShow, StatusName
  <2>3. alerts = FALSE /\ AlarmDue = FALSE
    BY <2>1 DEF Init, AlarmDue
  <2> QED BY <2>2, <2>3 DEF DisplayInv
<1>2. DisplayInv => DashboardShowsCore
  <2> SUFFICES ASSUME DisplayInv, Settled, Heard("dashboard", "REB_STATUS")
               PROVE  /\ shown = StatusName(phase)
                      /\ Heard("bridge", "COMMAND") => alerts = AlarmDue
    BY DEF DashboardShowsCore, AlarmDue
  <2>1. /\ inbox["dashboard"] = <<>> /\ inbox["bridge"] = <<>>
        /\ Len(answers) = 0
    BY DEF Settled, Queued, Modules, Ecus
  <2> QED BY <2>1 DEF DisplayInv, WillShow
<1> QED BY <1>1, <1>2, InitShape, ShapeStep, DisplayStep, PTL DEF Spec
===============================================================================
