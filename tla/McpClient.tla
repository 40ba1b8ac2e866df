------------------------------ MODULE McpClient ------------------------------
(***************************************************************************)
(* One stdio MCP server connection: internal/mcp/client.go.                *)
(*                                                                         *)
(* Goroutines of the agent, the approval handlers and the status pages     *)
(* call the same Client. A tool call first takes a slot of callGate        *)
(* (slots), then c.mu (mu) for the whole exchange; HealthStatus takes c.mu *)
(* only. Under c.mu the client starts the server process when it has none, *)
(* writes one request line to its stdin and waits for one line of its      *)
(* stdout, which a new goroutine (readers) reads. A call that times out    *)
(* returns and leaves its goroutine, and the process, behind.              *)
(*                                                                         *)
(* The server process is the environment: it answers, says something else, *)
(* loses a request, hangs or exits.                                        *)
(***************************************************************************)
EXTENDS Naturals, Sequences, FiniteSets

CONSTANTS
    Callers,         \* goroutines that use the client
    NoCaller,
    RestartLimit,    \* restart_limit: failures in a row before a cooldown
    MaxConcurrent,   \* max_concurrent_calls
    PipeSize,        \* requests the stdin pipe takes before a write blocks
    MaxRequests,     \* bound: calls begin while nextID is at most this
    MaxReplies,      \* bound: lines that wait in the stdout pipe
    Events           \* what the server and the callers may do beside the usual

EventNames == {"cancel", "startFails", "tooLarge", "rpcError", "noise", "lose",
               "hang", "exit", "health", "close"}

\* config/loader.go fills in positive values for both limits.
ASSUME McpClientAssumption ==
    /\ NoCaller \notin Callers /\ IsFiniteSet(Callers)
    /\ RestartLimit \in Nat \ {0} /\ MaxConcurrent \in Nat \ {0}
    /\ PipeSize \in Nat \ {0} /\ MaxRequests \in Nat /\ MaxReplies \in Nat
    /\ Events \subseteq EventNames

VARIABLES
    pc, op,                          \* callers: where they are, what they do
    slots, mu,                       \* callGate, c.mu
    nextID, failures, cooling,       \* fields of Client
    proc, stdin, stdout, readers,    \* the server process and its pipes
    req, line,                       \* the exchange of the holder of c.mu
    closed,                          \* Manager.Close
    sent, starts, accepted           \* history

callVars    == <<pc, op, slots, mu>>
breakerVars == <<failures, cooling>>
procVars    == <<proc, stdin, stdout, readers>>
wireVars    == <<req, line>>
history     == <<sent, starts, accepted>>

vars == <<callVars, nextID, breakerVars, procVars, wireVars, closed, history>>

Locations == {"idle", "queued", "lock", "ready", "send", "write", "wait"}
Ops       == {"call", "health"}
\* "dead": exited, and nobody has called Wait yet.
Processes == {"down", "up", "hung", "dead"}

\* An id on the wire; serial tells apart the requests that would share one.
Message   == [id : Nat, serial : Nat, ok : BOOLEAN]
Noise     == [id |-> 0, serial |-> 0, ok |-> FALSE]
NoMessage == [id |-> 0, serial |-> 0, ok |-> TRUE]

TypeOK ==
    /\ pc \in [Callers -> Locations]
    /\ op \in [Callers -> Ops]
    /\ slots \in Nat
    /\ mu \in Callers \cup {NoCaller}
    /\ nextID \in Nat \ {0}
    /\ failures \in Nat
    /\ cooling \in BOOLEAN
    /\ proc \in Processes
    /\ stdin \in Seq(Message) /\ Len(stdin) <= PipeSize
    /\ stdout \in Seq(Message)
    /\ readers \subseteq 1 .. nextID - 1
    /\ req \in Message
    /\ line \in Message
    /\ closed \in {"no", "closing", "closed"}
    /\ sent \in Nat
    /\ starts \in Nat
    /\ accepted \in [asked : Nat, answered : Nat]
-----------------------------------------------------------------------------
(* Callers                                                                 *)

\* The goroutines between acquireCallSlot and releaseCallSlot.
SlotHolders == {c \in Callers : op[c] = "call" /\ pc[c] \notin {"idle", "queued"}}

\* Manager.CallTool or ListTools: callGate takes the call or lets it queue.
BeginCall(c) ==
    /\ pc[c] = "idle" /\ closed = "no" /\ nextID <= MaxRequests
    /\ op' = [op EXCEPT ![c] = "call"]
    /\ IF slots < MaxConcurrent
       THEN slots' = slots + 1 /\ pc' = [pc EXCEPT ![c] = "lock"]
       ELSE slots' = slots     /\ pc' = [pc EXCEPT ![c] = "queued"]
    /\ UNCHANGED <<mu, nextID, breakerVars, procVars, wireVars, closed, history>>

\* Manager.HealthStatus: no slot.
BeginHealth(c) ==
    /\ "health" \in Events
    /\ pc[c] = "idle" /\ closed = "no" /\ nextID <= MaxRequests
    /\ op' = [op EXCEPT ![c] = "health"]
    /\ pc' = [pc EXCEPT ![c] = "lock"]
    /\ UNCHANGED <<slots, mu, nextID, breakerVars, procVars, wireVars, closed, history>>

AcquireSlot(c) ==
    /\ pc[c] = "queued"
    /\ slots < MaxConcurrent
    /\ slots' = slots + 1
    /\ pc' = [pc EXCEPT ![c] = "lock"]
    /\ UNCHANGED <<op, mu, nextID, breakerVars, procVars, wireVars, closed, history>>

\* Mutant: releaseCallSlot is deferred before the slot is there.
GiveUpSlotReleases(c) ==
    /\ "cancel" \in Events
    /\ pc[c] = "queued"
    /\ pc' = [pc EXCEPT ![c] = "idle"]
    /\ slots' = IF slots > 0 THEN slots - 1 ELSE 0
    /\ UNCHANGED <<op, mu, nextID, breakerVars, procVars, wireVars, closed, history>>

\* The context of a queued call ends.
GiveUpSlot(c) ==
    /\ "cancel" \in Events
    /\ pc[c] = "queued"
    /\ pc' = [pc EXCEPT ![c] = "idle"]
    /\ UNCHANGED <<op, slots, mu, nextID, breakerVars, procVars, wireVars, closed, history>>

Lock(c) ==
    /\ pc[c] = "lock" /\ mu = NoCaller
    /\ mu' = c
    /\ pc' = [pc EXCEPT ![c] = "ready"]
    /\ UNCHANGED <<op, slots, nextID, breakerVars, procVars, wireVars, closed, history>>

\* Mutant: the early returns keep the slot.
ReturnKeepsSlot(c) ==
    /\ pc' = [pc EXCEPT ![c] = "idle"]
    /\ mu' = NoCaller
    /\ slots' = IF op[c] = "call" /\ pc[c] # "ready" /\ slots > 0 THEN slots - 1 ELSE slots
    /\ req' = NoMessage /\ line' = NoMessage
    /\ UNCHANGED op

\* The deferred calls: c.mu.Unlock, then releaseCallSlot.
Return(c) ==
    /\ pc' = [pc EXCEPT ![c] = "idle"]
    /\ mu' = NoCaller
    /\ slots' = IF op[c] = "call" /\ slots > 0 THEN slots - 1 ELSE slots
    /\ req' = NoMessage /\ line' = NoMessage
    /\ UNCHANGED op
-----------------------------------------------------------------------------
(* The circuit breaker                                                     *)

\* recordFailureLocked, n times.
Fail(n) ==
    /\ failures' = failures + n
    /\ cooling' = IF failures + n >= RestartLimit THEN TRUE ELSE cooling

\* HealthStatus records the failure that callLocked has already recorded.
CallFails(c) == Fail(IF op[c] = "health" THEN 2 ELSE 1)

\* stopProcessLocked: interrupt, kill after killTimeout, Wait, resetLocked. The
\* goroutines that still read get an error and end.
Stop ==
    /\ proc' = "down"
    /\ stdin' = <<>> /\ stdout' = <<>> /\ readers' = {}

CooldownExpires ==
    /\ cooling
    /\ cooling' = FALSE
    /\ UNCHANGED <<callVars, nextID, failures, procVars, wireVars, closed, history>>

\* HealthStatus of a client that cools down or has no process.
HealthReports(c) ==
    /\ pc[c] = "ready" /\ op[c] = "health"
    /\ cooling \/ proc = "down"
    /\ Return(c)
    /\ UNCHANGED <<nextID, breakerVars, procVars, closed, history>>

\* ensureStarted during a cooldown.
Refuse(c) ==
    /\ pc[c] = "ready" /\ op[c] = "call"
    /\ cooling
    /\ Return(c)
    /\ UNCHANGED <<nextID, breakerVars, procVars, closed, history>>

\* Mutant: ensureStarted looks at the process before the cooldown.
FindProcessFirst(c) ==
    /\ pc[c] = "ready"
    /\ proc # "down"
    /\ pc' = [pc EXCEPT ![c] = "send"]
    /\ UNCHANGED <<op, slots, mu, nextID, breakerVars, procVars, wireVars, closed, history>>

FindProcess(c) ==
    /\ pc[c] = "ready"
    /\ ~ cooling /\ proc # "down"
    /\ pc' = [pc EXCEPT ![c] = "send"]
    /\ UNCHANGED <<op, slots, mu, nextID, breakerVars, procVars, wireVars, closed, history>>

\* restartLocked after too many failures: a new cooldown and no process.
Trip(c) ==
    /\ pc[c] = "ready" /\ op[c] = "call"
    /\ ~ cooling /\ proc = "down" /\ failures >= RestartLimit
    /\ cooling' = TRUE
    /\ Return(c)
    /\ UNCHANGED <<nextID, failures, procVars, closed, history>>

\* Mutant: restartLocked only minds the cooldown, not the failures.
StartServerAlways(c) ==
    /\ pc[c] = "ready" /\ op[c] = "call"
    /\ ~ cooling /\ proc = "down"
    /\ proc' = "up"
    /\ starts' = starts + 1
    /\ pc' = [pc EXCEPT ![c] = "send"]
    /\ UNCHANGED <<op, slots, mu, nextID, breakerVars, stdin, stdout, readers,
                   wireVars, closed, sent, accepted>>

\* restartLocked up to cmd.Start.
StartServer(c) ==
    /\ pc[c] = "ready" /\ op[c] = "call"
    /\ ~ cooling /\ proc = "down" /\ failures < RestartLimit
    /\ proc' = "up"
    /\ starts' = starts + 1
    /\ pc' = [pc EXCEPT ![c] = "send"]
    /\ UNCHANGED <<op, slots, mu, nextID, breakerVars, stdin, stdout, readers,
                   wireVars, closed, sent, accepted>>

\* restartLocked when the command, its isolation or its pipes cannot be had.
StartFails(c) ==
    /\ "startFails" \in Events
    /\ pc[c] = "ready" /\ op[c] = "call"
    /\ ~ cooling /\ proc = "down" /\ failures < RestartLimit
    /\ Fail(1)
    /\ Return(c)
    /\ UNCHANGED <<nextID, procVars, closed, history>>
-----------------------------------------------------------------------------
(* One exchange                                                            *)

Request == [id |-> nextID, serial |-> sent + 1, ok |-> TRUE]

\* The request does not fit: no byte is written, the id is used up.
TooLarge(c) ==
    /\ "tooLarge" \in Events
    /\ pc[c] = "send"
    /\ nextID' = nextID + 1
    /\ sent' = sent + 1
    /\ CallFails(c)
    /\ Return(c)
    /\ UNCHANGED <<procVars, closed, starts, accepted>>

\* Mutant: the id only moves on with an answer.
BuildReusesId(c) ==
    /\ pc[c] = "send"
    /\ req' = Request
    /\ sent' = sent + 1
    /\ pc' = [pc EXCEPT ![c] = "write"]
    /\ UNCHANGED <<op, slots, mu, nextID, breakerVars, procVars, line, closed, starts, accepted>>

\* The request has an id, is marshalled and fits.
Build(c) ==
    /\ pc[c] = "send"
    /\ req' = Request
    /\ nextID' = nextID + 1
    /\ sent' = sent + 1
    /\ pc' = [pc EXCEPT ![c] = "write"]
    /\ UNCHANGED <<op, slots, mu, breakerVars, procVars, line, closed, starts, accepted>>

\* Write, Flush and the goroutine that reads one line. A full pipe blocks the
\* write, whatever the timeout of the call: nothing but the server's reading or
\* its end lets the caller leave.
Send(c) ==
    /\ pc[c] = "write"
    /\ proc \in {"up", "hung"} /\ Len(stdin) < PipeSize
    /\ stdin' = Append(stdin, req)
    /\ readers' = readers \cup {req.serial}
    /\ pc' = [pc EXCEPT ![c] = "wait"]
    /\ UNCHANGED <<op, slots, mu, nextID, breakerVars, proc, stdout, wireVars, closed, history>>

\* Broken pipe: the server is stopped and the failure recorded.
SendFails(c) ==
    /\ pc[c] = "write"
    /\ proc = "dead"
    /\ Stop
    /\ CallFails(c)
    /\ Return(c)
    /\ UNCHANGED <<nextID, closed, history>>

\* The timeout of the call, or its context. The process and the goroutine that
\* reads stay, and the answer may still come.
TimeOut(c) ==
    /\ pc[c] = "wait"
    /\ CallFails(c)
    /\ Return(c)
    /\ UNCHANGED <<nextID, procVars, closed, history>>

\* io.EOF
EndOfFile(c) ==
    /\ pc[c] = "wait"
    /\ proc = "dead" /\ stdout = <<>> /\ req.serial \in readers
    /\ Stop
    /\ CallFails(c)
    /\ Return(c)
    /\ UNCHANGED <<nextID, closed, history>>

\* Mutant: the id of the response is not compared.
SucceedAnyId(c) ==
    /\ pc[c] = "wait"
    /\ line # NoMessage /\ line.ok
    /\ failures' = 0 /\ cooling' = FALSE
    /\ starts' = 0
    /\ accepted' = [asked |-> req.serial, answered |-> line.serial]
    /\ Return(c)
    /\ UNCHANGED <<nextID, procVars, closed, sent>>

\* The response to this request: markHealthyLocked.
Succeed(c) ==
    /\ pc[c] = "wait"
    /\ line # NoMessage /\ line.ok /\ line.id = req.id
    /\ failures' = 0 /\ cooling' = FALSE
    /\ starts' = 0
    /\ accepted' = [asked |-> req.serial, answered |-> line.serial]
    /\ Return(c)
    /\ UNCHANGED <<nextID, procVars, closed, sent>>

\* Another id, an rpc error, or no JSON.
Reject(c) ==
    /\ pc[c] = "wait"
    /\ line # NoMessage /\ ~ (line.ok /\ line.id = req.id)
    /\ CallFails(c)
    /\ Return(c)
    /\ UNCHANGED <<nextID, procVars, closed, history>>

\* One of the goroutines gets a line. All of them read the same bufio.Reader
\* without a lock: with two, what one gets may be garbled, or nobody gets it.
ReadLine ==
    /\ stdout # <<>>
    /\ stdout' = Tail(stdout)
    /\ LET race == Cardinality(readers) > 1
       IN  \/ \E s \in readers, m \in {Head(stdout)} \cup (IF race THEN {Noise} ELSE {}) :
                 /\ readers' = readers \ {s}
                 /\ line' = IF s = req.serial THEN m ELSE line
           \/ race /\ UNCHANGED <<readers, line>>
    /\ UNCHANGED <<callVars, nextID, breakerVars, proc, stdin, req, closed, history>>
-----------------------------------------------------------------------------
(* The server process                                                      *)

ServerAnswers ==
    /\ proc = "up"
    /\ stdin # <<>> /\ Len(stdout) < MaxReplies
    /\ \E ok \in IF "rpcError" \in Events THEN BOOLEAN ELSE {TRUE} :
         stdout' = Append(stdout, [Head(stdin) EXCEPT !.ok = ok])
    /\ stdin' = Tail(stdin)
    /\ UNCHANGED <<callVars, nextID, breakerVars, proc, readers, wireVars, closed, history>>

\* It prints a line that is no response.
ServerPrints ==
    /\ "noise" \in Events
    /\ proc = "up" /\ Len(stdout) < MaxReplies
    /\ stdout' = Append(stdout, Noise)
    /\ UNCHANGED <<callVars, nextID, breakerVars, proc, stdin, readers, wireVars, closed, history>>

ServerLoses ==
    /\ "lose" \in Events
    /\ proc = "up" /\ stdin # <<>>
    /\ stdin' = Tail(stdin)
    /\ UNCHANGED <<callVars, nextID, breakerVars, proc, stdout, readers, wireVars, closed, history>>

ServerHangs ==
    /\ "hang" \in Events
    /\ proc = "up"
    /\ proc' = "hung"
    /\ UNCHANGED <<callVars, nextID, breakerVars, stdin, stdout, readers, wireVars, closed, history>>

ServerExits ==
    /\ "exit" \in Events
    /\ proc \in {"up", "hung"}
    /\ proc' = "dead"
    /\ stdin' = <<>>
    /\ UNCHANGED <<callVars, nextID, breakerVars, stdout, readers, wireVars, closed, history>>
-----------------------------------------------------------------------------
(* Manager.Close                                                           *)

\* The manager forgets its clients: nobody can begin a call ...
CloseManager ==
    /\ "close" \in Events
    /\ closed = "no"
    /\ closed' = "closing"
    /\ UNCHANGED <<callVars, nextID, breakerVars, procVars, wireVars, history>>

\* ... and Client.Close stops the process.
CloseClient ==
    /\ closed = "closing" /\ mu = NoCaller
    /\ Stop
    /\ closed' = "closed"
    /\ starts' = 0
    /\ UNCHANGED <<callVars, nextID, breakerVars, wireVars, sent, accepted>>
-----------------------------------------------------------------------------
Init ==
    /\ pc = [c \in Callers |-> "idle"]
    /\ op = [c \in Callers |-> "call"]
    /\ slots = 0 /\ mu = NoCaller
    /\ nextID = 1 /\ failures = 0 /\ cooling = FALSE
    /\ proc = "down" /\ stdin = <<>> /\ stdout = <<>> /\ readers = {}
    /\ req = NoMessage /\ line = NoMessage
    /\ closed = "no"
    /\ sent = 0 /\ starts = 0 /\ accepted = [asked |-> 0, answered |-> 0]

Begin(c) == BeginCall(c) \/ BeginHealth(c)

EnsureStarted(c) ==
    \/ HealthReports(c) \/ Refuse(c) \/ FindProcess(c) \/ Trip(c)
    \/ StartServer(c) \/ StartFails(c)

Exchange(c) ==
    \/ TooLarge(c) \/ Build(c) \/ Send(c) \/ SendFails(c)
    \/ TimeOut(c) \/ EndOfFile(c) \/ Succeed(c) \/ Reject(c)

CallerStep(c) == EnsureStarted(c) \/ Exchange(c)

Server == ServerAnswers \/ ServerPrints \/ ServerLoses \/ ServerHangs \/ ServerExits

Next ==
    \/ \E c \in Callers :
          \/ Begin(c) \/ AcquireSlot(c) \/ GiveUpSlot(c) \/ Lock(c) \/ CallerStep(c)
    \/ CooldownExpires \/ ReadLine \/ Server \/ CloseManager \/ CloseClient

Spec == Init /\ [][Next]_vars

\* Goroutines run and timers fire; a channel serves its senders in order and a
\* sync.Mutex its starving waiters; a server that again and again finds a request
\* and room for its answer reads it at last, however much else it prints.
Fairness ==
    /\ \A c \in Callers : WF_vars(CallerStep(c)) /\ SF_vars(AcquireSlot(c)) /\ SF_vars(Lock(c))
    /\ WF_vars(CooldownExpires) /\ WF_vars(ReadLine) /\ SF_vars(ServerAnswers)

FairSpec == Spec /\ Fairness

\* The agent goes on calling its tools.
CallingSpec == FairSpec /\ \A c \in Callers : WF_vars(BeginCall(c))
-----------------------------------------------------------------------------
(* Correctness                                                             *)

\* A result is the answer to its own request, although answers of calls that
\* timed out still arrive on the connection, at this reader or at an older one.
AnswerIsOwn == accepted.asked = accepted.answered

\* A server that never answers is started at most restart_limit times ("instead
\* of being restarted indefinitely").
BoundedStarts == starts <= RestartLimit

\* The tokens of callGate belong to the calls that have one: none leaks on the
\* many ways a call ends, and no more run than max_concurrent_calls.
SlotsBalance == slots = Cardinality(SlotHolders) /\ slots <= MaxConcurrent

\* The breaker guards the wire: while the client cools down no request is
\* written and none is outstanding, and a server with too many failures only
\* hears from a caller that came after the cooldown.
QuietInCooldown ==
    cooling => \A c \in Callers : pc[c] \notin {"send", "write", "wait"}

\* The server reads no request: it hangs, or waits until somebody reads what it
\* has printed.
NotReading == proc = "hung" \/ (proc = "up" /\ Len(stdout) = MaxReplies /\ readers = {})

\* Every call returns, whatever the server and the other callers do, as long as
\* the server reads its stdin or exits.
CallsReturn == \A c \in Callers : pc[c] # "idle" ~> pc[c] = "idle" \/ NotReading

\* The timeout bounds every call: it returns, and lets the others return.
TimeoutBoundsCalls == \A c \in Callers : pc[c] # "idle" ~> pc[c] = "idle"

\* A cooldown is a pause: after it, a client that goes on being used starts the
\* server again (or the bound of the model is reached).
RecoversAfterCooldown ==
    proc = "down" /\ failures >= RestartLimit ~> proc # "down" \/ nextID > MaxRequests

\* Close stops the server processes: none runs for a manager that is closed.
ClosedStaysDown ==
    closed = "closed" /\ (\A c \in Callers : pc[c] = "idle") => proc = "down"

\* The inductive invariant behind the proofs: c.mu has one holder, and
\* only tool calls queue for a slot,
Mutex ==
    \A c \in Callers : /\ pc[c] \in {"ready", "send", "write", "wait"} <=> mu = c
                       /\ pc[c] = "queued" => op[c] = "call"

\* every id on the wire was used for one request,
OwnId(m) == m.id = m.serial
Serials ==
    /\ nextID = sent + 1
    /\ \A i \in 1 .. Len(stdin) : OwnId(stdin[i])
    /\ \A i \in 1 .. Len(stdout) : OwnId(stdout[i])
    /\ OwnId(req) /\ OwnId(line)

\* the caller that writes has the last request,
Writing == \A c \in Callers : pc[c] = "write" => sent > 0 /\ req.serial = sent

\* and every start without an answer has cost a failure, except the last.
StartsCost == IF proc = "down" THEN starts <= failures ELSE starts <= failures + 1

IInv ==
    /\ TypeOK /\ Mutex /\ Serials /\ Writing /\ StartsCost
    /\ AnswerIsOwn /\ BoundedStarts /\ QuietInCooldown /\ SlotsBalance
=============================================================================
