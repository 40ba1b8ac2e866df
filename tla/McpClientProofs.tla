--------------------------- MODULE McpClientProofs ---------------------------
(* Proofs about McpClient, for any callers, limits and events.               *)
EXTENDS McpClient, FiniteSetTheorems, TLAPS

\* What the end of a call does to the slots: one holder less.
LEMMA ReturnSlots ==
  ASSUME IInv, NEW c \in Callers, pc[c] \in {"ready", "send", "write", "wait"}, Return(c)
  PROVE  SlotsBalance' /\ slots' \in Nat
<1> USE McpClientAssumption DEF IInv, TypeOK, SlotsBalance
<1> DEFINE H == SlotHolders
<1>0. IsFiniteSet(H)
  BY FS_Subset DEF SlotHolders
<1>1. CASE op[c] = "call"
  <2>1. c \in H /\ H' = H \ {c}
    BY <1>1 DEF SlotHolders, Return
  <2>2. Cardinality(H') = Cardinality(H) - 1 /\ Cardinality(H) \in Nat /\ Cardinality(H) # 0
    BY <1>0, <2>1, FS_RemoveElement, FS_CardinalityType, FS_EmptySet
  <2> QED BY <1>1, <2>2 DEF Return
<1>2. CASE op[c] # "call"
  <2>1. H' = H
    BY <1>2 DEF SlotHolders, Return
  <2> QED BY <1>2, <2>1 DEF Return
<1> QED BY <1>1, <1>2

\* A step that moves a caller from one place with a slot to another.
LEMMA SameSlots ==
  ASSUME IInv, SlotHolders' = SlotHolders, slots' = slots
  PROVE  SlotsBalance'
BY DEF IInv, SlotsBalance

\* A call takes a slot.
LEMMA TakeSlot ==
  ASSUME IInv, NEW c \in Callers, c \notin SlotHolders,
         SlotHolders' = SlotHolders \cup {c}, slots < MaxConcurrent, slots' = slots + 1
  PROVE  SlotsBalance'
<1> USE McpClientAssumption DEF IInv, TypeOK, SlotsBalance
<1>1. IsFiniteSet(SlotHolders)
  BY FS_Subset DEF SlotHolders
<1>2. Cardinality(SlotHolders \cup {c}) = Cardinality(SlotHolders) + 1
  BY <1>1, FS_AddElement
<1> QED BY <1>2

\* What a recorded failure does to the breaker.
LEMMA FailTypes ==
  ASSUME TypeOK, NEW n \in Nat, Fail(n)
  PROVE  failures' \in Nat /\ cooling' \in BOOLEAN
<1>1. failures' \in Nat
  BY McpClientAssumption DEF TypeOK, Fail
<1>2. CASE failures + n >= RestartLimit
  BY <1>1, <1>2 DEF Fail
<1>3. CASE ~ (failures + n >= RestartLimit)
  BY <1>1, <1>3 DEF Fail, TypeOK
<1> QED BY <1>2, <1>3

\* Waiting for a slot or for the mutex.
LEMMA WaitingInv ==
  ASSUME IInv, NEW c \in Callers,
         BeginCall(c) \/ BeginHealth(c) \/ AcquireSlot(c) \/ GiveUpSlot(c) \/ Lock(c)
  PROVE  IInv'
<1> USE McpClientAssumption DEF breakerVars, procVars, wireVars, history
<1>1. TypeOK'
  <2>1. CASE BeginCall(c)
    BY <2>1 DEF BeginCall, IInv, TypeOK, Locations, Ops
  <2>2. CASE BeginHealth(c)
    BY <2>2 DEF BeginHealth, IInv, TypeOK, Locations, Ops
  <2>3. CASE AcquireSlot(c)
    BY <2>3 DEF AcquireSlot, IInv, TypeOK, Locations, Ops
  <2>4. CASE GiveUpSlot(c)
    BY <2>4 DEF GiveUpSlot, IInv, TypeOK, Locations, Ops
  <2>5. CASE Lock(c)
    BY <2>5 DEF Lock, IInv, TypeOK, Locations, Ops
  <2> QED BY <2>1, <2>2, <2>3, <2>4, <2>5
<1>2. Mutex'
  BY DEF IInv, BeginCall, BeginHealth, AcquireSlot, GiveUpSlot, Lock, TypeOK, Mutex
<1>6. Writing'
  BY DEF IInv, BeginCall, BeginHealth, AcquireSlot, GiveUpSlot, Lock, TypeOK, Writing
<1>3. Serials' /\ StartsCost' /\ AnswerIsOwn' /\ BoundedStarts'
  BY DEF IInv, BeginCall, BeginHealth, AcquireSlot, GiveUpSlot, Lock, Serials, OwnId,
    StartsCost, AnswerIsOwn, BoundedStarts
<1>4. QuietInCooldown'
  BY DEF IInv, BeginCall, BeginHealth, AcquireSlot, GiveUpSlot, Lock, TypeOK, QuietInCooldown
<1>5. SlotsBalance'
  <2>1. CASE (BeginCall(c) /\ slots < MaxConcurrent) \/ AcquireSlot(c)
    <3>1. c \notin SlotHolders /\ slots' = slots + 1 /\ slots < MaxConcurrent
      BY <2>1 DEF BeginCall, AcquireSlot, SlotHolders
    <3>2. pc'[c] = "lock" /\ op'[c] \in {op[c], "call"}
          /\ \A d \in Callers \ {c} : pc'[d] = pc[d] /\ op'[d] = op[d]
      BY <2>1 DEF BeginCall, AcquireSlot, IInv, TypeOK
    <3>3. op'[c] = "call"
      BY <2>1 DEF BeginCall, AcquireSlot, IInv, TypeOK, Mutex
    <3>4. SlotHolders' = SlotHolders \cup {c}
      BY <3>2, <3>3 DEF SlotHolders
    <3> QED BY <3>1, <3>4, TakeSlot
  <2>2. CASE (BeginCall(c) /\ ~ (slots < MaxConcurrent)) \/ BeginHealth(c) \/ GiveUpSlot(c)
             \/ Lock(c)
    <3>1. SlotHolders' = SlotHolders /\ slots' = slots
      BY <2>2 DEF BeginCall, BeginHealth, GiveUpSlot, Lock, SlotHolders, IInv, TypeOK
    <3> QED BY <3>1, SameSlots
  <2> QED BY <2>1, <2>2
<1> QED BY <1>1, <1>2, <1>3, <1>4, <1>5, <1>6 DEF IInv

\* ensureStarted: the holder of the mutex finds or starts the process, or returns.
LEMMA EnsureStartedInv ==
  ASSUME IInv, NEW c \in Callers, EnsureStarted(c)
  PROVE  IInv'
<1> USE McpClientAssumption DEF breakerVars, procVars, wireVars, history
<1>0. mu = c /\ pc[c] = "ready" /\ \A d \in Callers : pc[d] \in {"ready", "send", "write", "wait"} => d = c
  BY DEF IInv, Mutex, EnsureStarted, HealthReports, Refuse, FindProcess, Trip, StartServer,
    StartFails, TypeOK
<1>1. CASE HealthReports(c) \/ Refuse(c) \/ Trip(c) \/ StartFails(c)
  <2>0. Return(c)
    BY <1>1 DEF HealthReports, Refuse, Trip, StartFails
  <2>1. SlotsBalance' /\ slots' \in Nat
    BY <1>0, <2>0, ReturnSlots
  <2>6. NoMessage \in Message
    BY DEF NoMessage, Message
  <2>2. TypeOK'
    <3>1. CASE HealthReports(c)
      BY <2>1, <2>6, <3>1 DEF HealthReports, Return, IInv, TypeOK, Locations
    <3>2. CASE Refuse(c)
      BY <2>1, <2>6, <3>2 DEF Refuse, Return, IInv, TypeOK, Locations
    <3>3. CASE Trip(c)
      BY <2>1, <2>6, <3>3 DEF Trip, Return, IInv, TypeOK, Locations
    <3>4. CASE StartFails(c)
      <4>1. failures' \in Nat /\ cooling' \in BOOLEAN
        BY <3>4, FailTypes DEF StartFails, IInv
      <4> QED BY <2>1, <2>6, <3>4, <4>1 DEF StartFails, Return, IInv, TypeOK, Locations
    <3> QED BY <1>1, <3>1, <3>2, <3>3, <3>4
  <2>3. Mutex' /\ QuietInCooldown' /\ Writing'
    BY <1>0, <2>0 DEF Return, IInv, TypeOK, Mutex, QuietInCooldown, Writing
  <2>4. Serials' /\ AnswerIsOwn'
    BY <1>1 DEF HealthReports, Refuse, Trip, StartFails, Return, IInv, Serials, OwnId,
      NoMessage, AnswerIsOwn
  <2>5. StartsCost' /\ BoundedStarts'
    <3>1. CASE HealthReports(c)
      BY <3>1 DEF HealthReports, IInv, TypeOK, StartsCost, BoundedStarts
    <3>2. CASE Refuse(c)
      BY <3>2 DEF Refuse, IInv, TypeOK, StartsCost, BoundedStarts
    <3>3. CASE Trip(c)
      BY <3>3 DEF Trip, IInv, TypeOK, StartsCost, BoundedStarts
    <3>4. CASE StartFails(c)
      BY <3>4 DEF StartFails, Fail, IInv, TypeOK, StartsCost, BoundedStarts
    <3> QED BY <1>1, <3>1, <3>2, <3>3, <3>4
  <2> QED BY <2>1, <2>2, <2>3, <2>4, <2>5 DEF IInv
<1>2. CASE FindProcess(c) \/ StartServer(c)
  <2>1. TypeOK'
    <3>1. CASE FindProcess(c)
      BY <3>1 DEF FindProcess, IInv, TypeOK, Locations, Processes
    <3>2. CASE StartServer(c)
      BY <3>2 DEF StartServer, IInv, TypeOK, Locations, Processes
    <3> QED BY <1>2, <3>1, <3>2
  <2>2. Mutex' /\ QuietInCooldown' /\ Writing'
    BY <1>0, <1>2 DEF FindProcess, StartServer, IInv, TypeOK, Mutex, QuietInCooldown, Writing
  <2>3. Serials' /\ AnswerIsOwn'
    BY <1>2 DEF FindProcess, StartServer, IInv, Serials, OwnId, AnswerIsOwn
  <2>4. StartsCost' /\ BoundedStarts'
    BY <1>2 DEF FindProcess, StartServer, IInv, TypeOK, StartsCost, BoundedStarts
  <2>5. SlotHolders' = SlotHolders /\ slots' = slots
    BY <1>0, <1>2 DEF FindProcess, StartServer, SlotHolders, IInv, TypeOK
  <2> QED BY <2>1, <2>2, <2>3, <2>4, <2>5, SameSlots DEF IInv
<1> QED BY <1>1, <1>2 DEF EnsureStarted

\* The exchange: a request goes out, or the call ends and counts as a failure or
\* as a success.
LEMMA ExchangeInv ==
  ASSUME IInv, NEW c \in Callers, Exchange(c)
  PROVE  IInv'
<1> USE McpClientAssumption DEF breakerVars, procVars, wireVars, history
<1>0. mu = c /\ pc[c] \in {"send", "write", "wait"}
      /\ \A d \in Callers : pc[d] \in {"ready", "send", "write", "wait"} => d = c
  BY DEF IInv, Mutex, Exchange, TooLarge, Build, Send, SendFails, TimeOut, EndOfFile, Succeed, Reject
<1>1. CASE Build(c)
  <2>1. Request \in Message /\ OwnId(Request)
    BY DEF IInv, TypeOK, Message, Serials, OwnId, Request
  <2>2. TypeOK'
    BY <1>1, <2>1 DEF Build, IInv, TypeOK, Locations
  <2>3. Mutex' /\ QuietInCooldown'
    BY <1>0, <1>1 DEF Build, IInv, TypeOK, Mutex, QuietInCooldown
  <2>7. Writing'
    BY <1>0, <1>1 DEF Build, Request, IInv, TypeOK, Serials, Writing
  <2>4. Serials' /\ AnswerIsOwn'
    BY <1>1, <2>1 DEF Build, IInv, TypeOK, Serials, OwnId, AnswerIsOwn
  <2>5. StartsCost' /\ BoundedStarts'
    BY <1>1 DEF Build, IInv, TypeOK, StartsCost, BoundedStarts
  <2>6. SlotHolders' = SlotHolders /\ slots' = slots
    BY <1>0, <1>1 DEF Build, SlotHolders, IInv, TypeOK
  <2> QED BY <2>2, <2>3, <2>4, <2>5, <2>6, <2>7, SameSlots DEF IInv
<1>2. CASE Send(c)
  <2>1. req \in Message /\ OwnId(req) /\ req.serial \in 1 .. nextID - 1
    BY <1>0, <1>2 DEF Send, IInv, TypeOK, Message, Serials, Writing
  <2>2. stdin' = Append(stdin, req) /\ stdin \in Seq(Message) /\ Len(stdin) < PipeSize
    BY <1>2 DEF Send, IInv, TypeOK
  <2>3. stdin' \in Seq(Message) /\ Len(stdin') = Len(stdin) + 1
    BY <2>1, <2>2
  <2>4. TypeOK'
    <3>1. readers' \subseteq 1 .. nextID' - 1
      BY <1>2, <2>1 DEF Send, IInv, TypeOK
    <3>2. Len(stdin') <= PipeSize
      BY <2>2, <2>3
    <3> QED BY <1>2, <2>3, <3>1, <3>2 DEF Send, IInv, TypeOK, Locations
  <2>5. Mutex' /\ QuietInCooldown' /\ Writing'
    BY <1>0, <1>2 DEF Send, IInv, TypeOK, Mutex, QuietInCooldown, Writing
  <2>6. \A i \in 1 .. Len(stdin') : OwnId(stdin'[i])
    BY <2>1, <2>2, <2>3 DEF IInv, Serials
  <2>7. Serials' /\ AnswerIsOwn'
    BY <1>2, <2>6 DEF Send, IInv, TypeOK, Serials, OwnId, AnswerIsOwn
  <2>8. StartsCost' /\ BoundedStarts'
    BY <1>2 DEF Send, IInv, TypeOK, StartsCost, BoundedStarts
  <2>9. SlotHolders' = SlotHolders /\ slots' = slots
    BY <1>0, <1>2 DEF Send, SlotHolders, IInv, TypeOK
  <2> QED BY <2>4, <2>5, <2>7, <2>8, <2>9, SameSlots DEF IInv
<1>3. CASE TooLarge(c) \/ SendFails(c) \/ TimeOut(c) \/ EndOfFile(c) \/ Succeed(c) \/ Reject(c)
  <2>0. Return(c)
    BY <1>3 DEF TooLarge, SendFails, TimeOut, EndOfFile, Succeed, Reject
  <2>1. SlotsBalance' /\ slots' \in Nat
    BY <1>0, <2>0, ReturnSlots
  <2>2. Mutex' /\ QuietInCooldown' /\ Writing'
    BY <1>0, <2>0 DEF Return, IInv, TypeOK, Mutex, QuietInCooldown, Writing
  <2>3. NoMessage \in Message /\ OwnId(NoMessage)
    BY DEF NoMessage, Message, OwnId
  <2>8. req.serial \in Nat /\ line.serial \in Nat /\ <<>> \in Seq(Message)
    BY DEF IInv, TypeOK, Message
  <2>4. TypeOK'
    <3>1. CASE TooLarge(c)
      <4>1. failures' \in Nat /\ cooling' \in BOOLEAN
        BY <3>1, FailTypes DEF TooLarge, CallFails, IInv
      <4> QED BY <2>1, <2>3, <2>8, <3>1, <4>1 DEF TooLarge, Stop, Return, IInv, TypeOK, Locations,
        Processes
    <3>2. CASE SendFails(c)
      <4>1. failures' \in Nat /\ cooling' \in BOOLEAN
        BY <3>2, FailTypes DEF SendFails, CallFails, IInv
      <4> QED BY <2>1, <2>3, <2>8, <3>2, <4>1 DEF SendFails, Stop, Return, IInv, TypeOK, Locations,
        Processes
    <3>3. CASE TimeOut(c)
      <4>1. failures' \in Nat /\ cooling' \in BOOLEAN
        BY <3>3, FailTypes DEF TimeOut, CallFails, IInv
      <4> QED BY <2>1, <2>3, <2>8, <3>3, <4>1 DEF TimeOut, Stop, Return, IInv, TypeOK, Locations,
        Processes
    <3>4. CASE EndOfFile(c)
      <4>1. failures' \in Nat /\ cooling' \in BOOLEAN
        BY <3>4, FailTypes DEF EndOfFile, CallFails, IInv
      <4> QED BY <2>1, <2>3, <2>8, <3>4, <4>1 DEF EndOfFile, Stop, Return, IInv, TypeOK, Locations,
        Processes
    <3>5. CASE Reject(c)
      <4>1. failures' \in Nat /\ cooling' \in BOOLEAN
        BY <3>5, FailTypes DEF Reject, CallFails, IInv
      <4> QED BY <2>1, <2>3, <2>8, <3>5, <4>1 DEF Reject, Stop, Return, IInv, TypeOK, Locations,
        Processes
    <3>6. CASE Succeed(c)
      BY <2>1, <2>3, <2>8, <3>6 DEF Succeed, CallFails, Fail, Stop, Return, IInv, TypeOK, Locations, Processes
    <3> QED BY <1>3, <3>1, <3>2, <3>3, <3>4, <3>5, <3>6
  <2>5. Serials'
    <3>1. CASE TooLarge(c)
      BY <2>3, <3>1 DEF TooLarge, Stop, Return, IInv, TypeOK, Serials
    <3>2. CASE SendFails(c)
      BY <2>3, <3>2 DEF SendFails, Stop, Return, IInv, TypeOK, Serials
    <3>3. CASE TimeOut(c)
      BY <2>3, <3>3 DEF TimeOut, Stop, Return, IInv, TypeOK, Serials
    <3>4. CASE EndOfFile(c)
      BY <2>3, <3>4 DEF EndOfFile, Stop, Return, IInv, TypeOK, Serials
    <3>5. CASE Reject(c)
      BY <2>3, <3>5 DEF Reject, Stop, Return, IInv, TypeOK, Serials
    <3>6. CASE Succeed(c)
      BY <2>3, <3>6 DEF Succeed, Stop, Return, IInv, TypeOK, Serials
    <3> QED BY <1>3, <3>1, <3>2, <3>3, <3>4, <3>5, <3>6
  <2>6. AnswerIsOwn'
    BY <1>3 DEF TooLarge, SendFails, TimeOut, EndOfFile, Succeed, Reject, IInv, TypeOK,
      Serials, OwnId, AnswerIsOwn
  <2>7. StartsCost' /\ BoundedStarts'
    <3>1. CASE TooLarge(c)
      BY <3>1 DEF TooLarge, CallFails, Fail, Stop, IInv, TypeOK, StartsCost, BoundedStarts
    <3>2. CASE SendFails(c)
      BY <3>2 DEF SendFails, CallFails, Fail, Stop, IInv, TypeOK, StartsCost, BoundedStarts
    <3>3. CASE TimeOut(c)
      BY <3>3 DEF TimeOut, CallFails, Fail, Stop, IInv, TypeOK, StartsCost, BoundedStarts
    <3>4. CASE EndOfFile(c)
      BY <3>4 DEF EndOfFile, CallFails, Fail, Stop, IInv, TypeOK, StartsCost, BoundedStarts
    <3>5. CASE Reject(c)
      BY <3>5 DEF Reject, CallFails, Fail, Stop, IInv, TypeOK, StartsCost, BoundedStarts
    <3>6. CASE Succeed(c)
      BY <3>6 DEF Succeed, CallFails, Fail, Stop, IInv, TypeOK, StartsCost, BoundedStarts
    <3> QED BY <1>3, <3>1, <3>2, <3>3, <3>4, <3>5, <3>6
  <2> QED BY <2>1, <2>2, <2>4, <2>5, <2>6, <2>7 DEF IInv
<1> QED BY <1>1, <1>2, <1>3 DEF Exchange

\* Lines and the process change; no caller moves.
LEMMA WorldInv ==
  ASSUME IInv, ReadLine \/ Server \/ CooldownExpires \/ CloseManager \/ CloseClient
  PROVE  IInv'
<1> USE McpClientAssumption DEF callVars, breakerVars, procVars, wireVars, history
<1>0. pc' = pc /\ op' = op /\ mu' = mu /\ slots' = slots /\ nextID' = nextID /\ sent' = sent
  BY DEF ReadLine, Server, ServerAnswers, ServerPrints, ServerLoses, ServerHangs, ServerExits,
    CooldownExpires, CloseManager, CloseClient
<1>1. Mutex' /\ SlotsBalance'
  BY <1>0 DEF IInv, Mutex, SlotsBalance, SlotHolders
<1>9. Writing'
  <2>1. req' = req
    BY DEF ReadLine, Server, ServerAnswers, ServerPrints, ServerLoses, ServerHangs, ServerExits,
      CooldownExpires, CloseManager, CloseClient
  <2> QED BY <1>0, <2>1 DEF IInv, Writing
<1>2. AnswerIsOwn' /\ StartsCost' /\ BoundedStarts' /\ QuietInCooldown'
  <2>1. CASE ReadLine
    BY <1>0, <2>1 DEF ReadLine, Stop, IInv, TypeOK, AnswerIsOwn, StartsCost,
      BoundedStarts, QuietInCooldown
  <2>2. CASE ServerAnswers
    BY <1>0, <2>2 DEF ServerAnswers, Stop, IInv, TypeOK, AnswerIsOwn, StartsCost,
      BoundedStarts, QuietInCooldown
  <2>3. CASE ServerPrints
    BY <1>0, <2>3 DEF ServerPrints, Stop, IInv, TypeOK, AnswerIsOwn, StartsCost,
      BoundedStarts, QuietInCooldown
  <2>4. CASE ServerLoses
    BY <1>0, <2>4 DEF ServerLoses, Stop, IInv, TypeOK, AnswerIsOwn, StartsCost,
      BoundedStarts, QuietInCooldown
  <2>5. CASE ServerHangs
    BY <1>0, <2>5 DEF ServerHangs, Stop, IInv, TypeOK, AnswerIsOwn, StartsCost,
      BoundedStarts, QuietInCooldown
  <2>6. CASE ServerExits
    BY <1>0, <2>6 DEF ServerExits, Stop, IInv, TypeOK, AnswerIsOwn, StartsCost,
      BoundedStarts, QuietInCooldown
  <2>7. CASE CooldownExpires
    BY <1>0, <2>7 DEF CooldownExpires, Stop, IInv, TypeOK, AnswerIsOwn, StartsCost,
      BoundedStarts, QuietInCooldown
  <2>8. CASE CloseManager
    BY <1>0, <2>8 DEF CloseManager, Stop, IInv, TypeOK, AnswerIsOwn, StartsCost,
      BoundedStarts, QuietInCooldown
  <2>9. CASE CloseClient
    BY <1>0, <2>9 DEF CloseClient, Stop, IInv, TypeOK, AnswerIsOwn, StartsCost,
      BoundedStarts, QuietInCooldown
  <2> QED BY <2>1, <2>2, <2>3, <2>4, <2>5, <2>6, <2>7, <2>8, <2>9 DEF Server
<1>3. Noise \in Message /\ OwnId(Noise)
  BY DEF Noise, Message, OwnId
<1>4. CASE ReadLine
  <2>1. stdout # <<>> /\ stdout \in Seq(Message) /\ stdout' = Tail(stdout)
    BY <1>4 DEF ReadLine, IInv, TypeOK
  <2>2. /\ stdout' \in Seq(Message) /\ Head(stdout) \in Message /\ OwnId(Head(stdout))
        /\ \A i \in 1 .. Len(stdout') : OwnId(stdout'[i])
    BY <2>1 DEF IInv, Serials
  <2>3. line' \in {line, Head(stdout), Noise} /\ readers' \subseteq readers
    BY <1>4 DEF ReadLine
  <2>4. TypeOK'
    BY <1>0, <1>3, <1>4, <2>2, <2>3 DEF ReadLine, IInv, TypeOK
  <2>5. Serials'
    BY <1>0, <1>3, <1>4, <2>2, <2>3 DEF ReadLine, IInv, Serials
  <2> QED BY <1>1, <1>2, <1>9, <2>4, <2>5 DEF IInv
<1>5. CASE ServerAnswers
  <2>1. PICK ok \in BOOLEAN : stdout' = Append(stdout, [Head(stdin) EXCEPT !.ok = ok])
    BY <1>5 DEF ServerAnswers
  <2>2. /\ stdin # <<>> /\ stdin \in Seq(Message) /\ stdout \in Seq(Message)
        /\ stdin' = Tail(stdin)
    BY <1>5 DEF ServerAnswers, IInv, TypeOK
  <2>3. /\ stdin' \in Seq(Message) /\ Len(stdin') <= PipeSize
        /\ Head(stdin) \in Message /\ OwnId(Head(stdin))
        /\ \A i \in 1 .. Len(stdin') : OwnId(stdin'[i])
    BY <2>2 DEF IInv, TypeOK, Serials
  <2>4. [Head(stdin) EXCEPT !.ok = ok] \in Message /\ OwnId([Head(stdin) EXCEPT !.ok = ok])
    BY <2>3 DEF Message, OwnId
  <2>5. stdout' \in Seq(Message) /\ \A i \in 1 .. Len(stdout') : OwnId(stdout'[i])
    BY <2>1, <2>2, <2>4 DEF IInv, Serials
  <2>6. TypeOK'
    BY <1>0, <1>5, <2>3, <2>5 DEF ServerAnswers, IInv, TypeOK
  <2>7. Serials'
    BY <1>0, <1>5, <2>3, <2>5 DEF ServerAnswers, IInv, Serials
  <2> QED BY <1>1, <1>2, <1>9, <2>6, <2>7 DEF IInv
<1>6. CASE ServerPrints
  <2>1. stdout' = Append(stdout, Noise) /\ stdout \in Seq(Message)
    BY <1>6 DEF ServerPrints, IInv, TypeOK
  <2>2. stdout' \in Seq(Message) /\ \A i \in 1 .. Len(stdout') : OwnId(stdout'[i])
    BY <1>3, <2>1 DEF IInv, Serials
  <2>3. TypeOK' /\ Serials'
    BY <1>0, <1>6, <2>2 DEF ServerPrints, IInv, TypeOK, Serials
  <2> QED BY <1>1, <1>2, <1>9, <2>3 DEF IInv
<1>7. CASE ServerLoses
  <2>1. stdin # <<>> /\ stdin \in Seq(Message) /\ stdin' = Tail(stdin)
    BY <1>7 DEF ServerLoses, IInv, TypeOK
  <2>2. /\ stdin' \in Seq(Message) /\ Len(stdin') <= PipeSize
        /\ \A i \in 1 .. Len(stdin') : OwnId(stdin'[i])
    BY <2>1 DEF IInv, TypeOK, Serials
  <2>3. TypeOK' /\ Serials'
    BY <1>0, <1>7, <2>2 DEF ServerLoses, IInv, TypeOK, Serials
  <2> QED BY <1>1, <1>2, <1>9, <2>3 DEF IInv
<1>8. CASE ServerHangs \/ ServerExits \/ CooldownExpires \/ CloseManager \/ CloseClient
  <2>1. TypeOK'
    <3>1. CASE ServerHangs
      BY <1>0, <3>1 DEF ServerHangs, Stop, IInv, TypeOK, Processes
    <3>2. CASE ServerExits
      BY <1>0, <3>2 DEF ServerExits, Stop, IInv, TypeOK, Processes
    <3>3. CASE CooldownExpires
      BY <1>0, <3>3 DEF CooldownExpires, Stop, IInv, TypeOK, Processes
    <3>4. CASE CloseManager
      BY <1>0, <3>4 DEF CloseManager, Stop, IInv, TypeOK, Processes
    <3>5. CASE CloseClient
      BY <1>0, <3>5 DEF CloseClient, Stop, IInv, TypeOK, Processes
    <3> QED BY <1>8, <3>1, <3>2, <3>3, <3>4, <3>5
  <2>2. Serials'
    <3>1. CASE ServerHangs
      BY <1>0, <3>1 DEF ServerHangs, Stop, IInv, TypeOK, Serials
    <3>2. CASE ServerExits
      BY <1>0, <3>2 DEF ServerExits, Stop, IInv, TypeOK, Serials
    <3>3. CASE CooldownExpires
      BY <1>0, <3>3 DEF CooldownExpires, Stop, IInv, TypeOK, Serials
    <3>4. CASE CloseManager
      BY <1>0, <3>4 DEF CloseManager, Stop, IInv, TypeOK, Serials
    <3>5. CASE CloseClient
      BY <1>0, <3>5 DEF CloseClient, Stop, IInv, TypeOK, Serials
    <3> QED BY <1>8, <3>1, <3>2, <3>3, <3>4, <3>5
  <2> QED BY <1>1, <1>2, <1>9, <2>1, <2>2 DEF IInv
<1> QED BY <1>4, <1>5, <1>6, <1>7, <1>8 DEF Server

LEMMA InitInv == Init => IInv
<1> SUFFICES ASSUME Init PROVE IInv
  OBVIOUS
<1> USE McpClientAssumption DEF Init
<1>1. TypeOK
  <2>1. NoMessage \in Message
    BY DEF Message, NoMessage
  <2>2. pc \in [Callers -> Locations] /\ op \in [Callers -> Ops] /\ proc \in Processes
    BY DEF Locations, Ops, Processes
  <2>3. stdin \in Seq(Message) /\ Len(stdin) <= PipeSize /\ stdout \in Seq(Message)
    OBVIOUS
  <2>4. readers \subseteq 1 .. nextID - 1 /\ cooling \in BOOLEAN
    OBVIOUS
  <2> QED BY <2>1, <2>2, <2>3, <2>4 DEF TypeOK
<1>2. Mutex /\ QuietInCooldown /\ Writing
  BY DEF Mutex, QuietInCooldown, Writing
<1>3. Serials /\ StartsCost /\ AnswerIsOwn /\ BoundedStarts
  BY DEF Serials, OwnId, NoMessage, StartsCost, AnswerIsOwn, BoundedStarts
<1>4. SlotHolders = {}
  BY DEF SlotHolders
<1>5. SlotsBalance
  BY <1>4, FS_EmptySet DEF SlotsBalance
<1> QED BY <1>1, <1>2, <1>3, <1>5 DEF IInv

LEMMA NextInv == IInv /\ [Next]_vars => IInv'
<1> SUFFICES ASSUME IInv, [Next]_vars PROVE IInv'
  OBVIOUS
<1>1. CASE UNCHANGED vars
  BY <1>1 DEF vars, callVars, breakerVars, procVars, wireVars, history, IInv, TypeOK, Mutex,
    Serials, OwnId, Writing, StartsCost, AnswerIsOwn, BoundedStarts, QuietInCooldown, SlotsBalance,
    SlotHolders
<1>2. ASSUME NEW c \in Callers,
             BeginCall(c) \/ BeginHealth(c) \/ AcquireSlot(c) \/ GiveUpSlot(c) \/ Lock(c)
      PROVE  IInv'
  BY <1>2, WaitingInv
<1>3. ASSUME NEW c \in Callers, EnsureStarted(c) PROVE IInv'
  BY <1>3, EnsureStartedInv
<1>4. ASSUME NEW c \in Callers, Exchange(c) PROVE IInv'
  BY <1>4, ExchangeInv
<1>5. CASE ReadLine \/ Server \/ CooldownExpires \/ CloseManager \/ CloseClient
  BY <1>5, WorldInv
<1> QED BY <1>1, <1>2, <1>3, <1>4, <1>5 DEF Next, Begin, CallerStep

THEOREM Invariance == Spec => []IInv
BY InitInv, NextInv, PTL DEF Spec

\* Every field keeps its type; every goroutine that reads belongs to a request.
THEOREM TypeCorrect == Spec => []TypeOK
<1>1. IInv => TypeOK
  BY DEF IInv
<1> QED BY <1>1, Invariance, PTL

\* No call returns the answer to another call, however many answers arrive late
\* and whichever goroutine reads them.
THEOREM AnswersAreOwn == Spec => []AnswerIsOwn
<1>1. IInv => AnswerIsOwn
  BY DEF IInv
<1> QED BY <1>1, Invariance, PTL

\* For every restart_limit: a server that answers nothing is started at most so
\* many times.
THEOREM RestartsAreBounded == Spec => []BoundedStarts
<1>1. IInv => BoundedStarts
  BY DEF IInv
<1> QED BY <1>1, Invariance, PTL

\* For every max_concurrent_calls: the slots add up.
THEOREM SlotsAddUp == Spec => []SlotsBalance
<1>1. IInv => SlotsBalance
  BY DEF IInv
<1> QED BY <1>1, Invariance, PTL

\* No request is on the wire during a cooldown.
THEOREM CooldownIsQuiet == Spec => []QuietInCooldown
<1>1. IInv => QuietInCooldown
  BY DEF IInv
<1> QED BY <1>1, Invariance, PTL
=============================================================================
