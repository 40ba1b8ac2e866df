--------------------------- MODULE ResourceStore ---------------------------
(***************************************************************************)
(* The resource modules of a runtime home (internal/api/resources.go,      *)
(* internal/api/kits.go): files that HTTP requests save, import and delete *)
(* side by side, without a lock, and that internal/config/loader.go reads  *)
(* at the next start and at every change of the workspace.                 *)
(*                                                                         *)
(* A save writes <file>.tmp and renames it.  All saves of one file use the *)
(* same .tmp, so the model has inodes: what a path names, and what a       *)
(* request that has the file open still writes to, may differ.  Of a       *)
(* document only its reference is kept: the provider of an agent, the      *)
(* fallback of a provider, the code file of a tool's configuration.        *)
(***************************************************************************)
EXTENDS Naturals, Sequences

CONSTANTS Requests,    \* HTTP requests, each used once
          Providers,   \* names of provider modules
          Agents,      \* names of agent modules
          Codes,       \* code files of tools
          Configs,     \* MCP server configurations of tools
          Others,      \* kits, policies, team templates: no references
          Main,        \* the providers of the main configuration
          Installed,   \* the modules there are at first
          Tool(_),     \* the code file of a tool's configuration
          Offers,      \* what the requests may ask for
          MaxItems,    \* bound: modules of an import
          MaxLoads,    \* bound: changes of the workspace
          MaxKills     \* bound: kills of the process

Files == Providers \cup Agents \cup Codes \cup Configs \cup Others
NoRef == "none"
Empty == "empty"
Mixed == "mixed"     \* the bytes of two documents
Items == [file : Files \ Codes, ref : Files \cup Main \cup {NoRef}]

\* A file is of one kind, and the files of a tool have its name.
ASSUME KindAssumption ==
  /\ Providers \cap (Agents \cup Codes \cup Configs \cup Others) = {}
  /\ Agents \cap (Codes \cup Configs \cup Others) = {}
  /\ Codes \cap (Configs \cup Others) = {} /\ Configs \cap Others = {}
  /\ \A c \in Configs : Tool(c) \in Codes
  /\ \A c, d \in Configs : Tool(c) = Tool(d) => c = d
  /\ Installed \subseteq Files \ (Providers \cup Codes \cup Configs)
  /\ Main # {} /\ {Empty, Mixed, NoRef} \cap (Files \cup Main) = {}
  /\ Main \cap Agents = {}
  /\ "installed" \notin Requests
\* A request is about one module, or brings several.
ASSUME OfferAssumption ==
  \A o \in Offers : /\ o.op \in {"save", "import", "scaffold", "delete"}
                   /\ o.items \in Seq(Items)
                   /\ Len(o.items) \in 1..(IF o.op = "delete" THEN 1 ELSE MaxItems)
                   /\ o.over \in BOOLEAN
ASSUME BoundAssumption == {MaxItems, MaxLoads, MaxKills} \subseteq Nat \ {0}

VARIABLES
  up,          \* the process runs
  running,     \* the providers and agents of the active configuration
  final, temp, \* the inode of each file and of its .tmp
  data,        \* what an inode holds
  req,         \* what each request asked for
  pc,          \* where its handler is
  todo,        \* the items it has left, the current one first
  steps,       \* the file operations left for the current item
  open,        \* the inode it has open
  load,        \* a configuration being read: the providers found so far
  overlapped,  \* ghost: files that two requests saved at the same time
  deleted,     \* ghost: files somebody asked to delete
  counts       \* loads and kills so far

vars == <<up, running, final, temp, data, req, pc, todo, steps, open, load,
          overlapped, deleted, counts>>
handlerVars == <<req, pc, todo, steps, open>>

NoFile == <<>>
\* Who created an inode, for which file, with how many items left.
Inodes == (Requests \cup {"installed"}) \X Files \X (1..MaxItems)
Docs == Files \cup Main \cup {NoRef}   \* a document, by its reference
Nobody == [op |-> "none", items |-> <<>>, over |-> FALSE]
NotLoading == [on |-> FALSE, names |-> {}, whole |-> TRUE]
Locations == {"free", "conflicts", "look", "check", "save", "cleanup",
              "delete", "remove", "done"}
FileSteps == [do : {"open", "write", "rename", "remove"}, file : Files]

Present(f) == final[f] # NoFile
Content(f) == data[final[f]]

-----------------------------------------------------------------------------
(* What a handler finds on disk *)

\* Does a file parse?  The bytes of two documents may, or may not.
Parses(f) == IF ~Present(f) THEN {FALSE}
             ELSE CASE Content(f) = Empty -> {FALSE}
                    [] Content(f) = Mixed -> BOOLEAN
                    [] OTHER -> {TRUE}

\* What the active configuration has exists without its file, too.
Defined(f) == {p \/ f \in running : p \in Parses(f)}
\* Variant: a tool exists when its configuration does.
ToolIsConfigured(f) == {Present(f)}
\* A tool exists when its code does, whatever became of its configuration.
ToolExists(f) == {Present(Tool(f))}

Exists(f) ==
  CASE f \in Providers \cup Agents -> Defined(f)
    [] f \in Configs -> ToolExists(f)
    [] OTHER -> Parses(f)

\* The names a reference may use: those of the active configuration and those
\* of the provider modules on disk, by file name.
KnownProviders == (running \ Agents) \cup {f \in Providers : Present(f)}

ProviderChecks(item) ==
  item.ref = NoRef \/ item.ref \in KnownProviders \ {item.file}
\* Variant: an agent needs some provider.
AgentNamesProvider(item) == item.ref # NoRef
AgentChecks(item) == item.ref \in KnownProviders
\* The server configuration is rendered from the document, so it names its code.
ToolChecks(item) == item.ref = Tool(item.file)

Checks(item) ==
  CASE item.file \in Providers -> ProviderChecks(item)
    [] item.file \in Agents    -> AgentChecks(item)
    [] item.file \in Configs   -> ToolChecks(item)
    [] OTHER                   -> item.ref = NoRef

-----------------------------------------------------------------------------
(* The file operations of a save, in the order of the code *)

Step(do, f) == [do |-> do, file |-> f]
\* Variant: the document is not written.
SaveNothing(f) == <<Step("open", f), Step("rename", f)>>
SaveModule(f) == <<Step("open", f), Step("write", f), Step("rename", f)>>
SaveTool(f) ==
  LET c == Tool(f)
  IN  <<Step("open", c), Step("write", c), Step("open", f), Step("write", f),
        Step("rename", c), Step("rename", f)>>
SavePlan(f) == IF f \in Configs THEN SaveTool(f) ELSE SaveModule(f)

FilesOf(f) == IF f \in Configs THEN {Tool(f), f} ELSE {f}
Written(r) == FilesOf(Head(todo[r]).file)
RefOf(r, f) == IF f \in Codes THEN NoRef ELSE Head(todo[r]).ref

\* The requests that are between looking at a file and having saved it.
Saving(f) == {r \in Requests : /\ pc[r] \in {"check", "save", "cleanup"}
                               /\ f \in Written(r)}

Busy(r) == pc[r] \notin {"free", "done"}
Goto(r, l) == pc' = [pc EXCEPT ![r] = l]
\* The next item of an import, or the answer to the client.
NextItem(r) ==
  /\ todo' = [todo EXCEPT ![r] = Tail(@)]
  /\ Goto(r, IF Len(todo[r]) = 1 THEN "done" ELSE "look")
  /\ steps' = [steps EXCEPT ![r] = <<>>]
  /\ open' = [open EXCEPT ![r] = NoFile]

-----------------------------------------------------------------------------
(* Requests *)

Receive(r, o) ==
  /\ up /\ pc[r] = "free"
  /\ req' = [req EXCEPT ![r] = o]
  /\ todo' = [todo EXCEPT ![r] = o.items]
  /\ Goto(r, CASE o.op = "scaffold" -> "conflicts"
               [] o.op = "delete"   -> "delete"
               [] OTHER             -> "look")
  /\ UNCHANGED <<up, running, final, temp, data, steps, open, load,
                 overlapped, deleted, counts>>

\* A materialized scaffold is refused as a whole when one of its resources
\* exists; without conflicts it is an import.
FindConflicts(r) ==
  /\ pc[r] = "conflicts"
  /\ \/ /\ \E i \in DOMAIN todo[r] : TRUE \in Exists(todo[r][i].file)
        /\ ~req[r].over
        /\ todo' = [todo EXCEPT ![r] = <<>>]
        /\ Goto(r, "done")
     \/ /\ req[r].over
           \/ \A i \in DOMAIN todo[r] : FALSE \in Exists(todo[r][i].file)
        /\ Goto(r, "look")
        /\ UNCHANGED todo
  /\ UNCHANGED <<up, running, final, temp, data, req, steps, open, load,
                 overlapped, deleted, counts>>

\* importKitBundle skips what exists unless it may overwrite; a PUT replaces it.
Look(r) ==
  /\ pc[r] = "look"
  /\ \E exists \in Exists(Head(todo[r]).file) :
       IF exists /\ ~req[r].over
       THEN NextItem(r) /\ UNCHANGED overlapped
       ELSE /\ Goto(r, "check")
            /\ overlapped' = overlapped \cup
                 {f \in Written(r) : Saving(f) # {}}
            /\ UNCHANGED <<todo, steps, open>>
  /\ UNCHANGED <<up, running, final, temp, data, req, load, deleted, counts>>

\* The dry run that comes before every save; an import goes on after an error.
Check(r) ==
  /\ pc[r] = "check"
  /\ IF Checks(Head(todo[r]))
     THEN /\ Goto(r, "save")
          /\ steps' = [steps EXCEPT ![r] = SavePlan(Head(todo[r]).file)]
          /\ UNCHANGED <<todo, open>>
     ELSE NextItem(r)
  /\ UNCHANGED <<up, running, final, temp, data, req, load, overlapped,
                 deleted, counts>>

\* os.WriteFile opens what is there and cuts it to nothing, ...
OpenTemp(r) ==
  /\ pc[r] = "save" /\ Head(steps[r]).do = "open"
  /\ LET f == Head(steps[r]).file
         i == IF temp[f] = NoFile THEN <<r, f, Len(todo[r])>> ELSE temp[f]
     IN  /\ temp' = [temp EXCEPT ![f] = i]
         /\ data' = [data EXCEPT ![i] = Empty]
         /\ open' = [open EXCEPT ![r] = i]
  /\ steps' = [steps EXCEPT ![r] = Tail(@)]
  /\ UNCHANGED <<up, running, final, req, pc, todo, load, overlapped, deleted,
                 counts>>

\* ... and writes from the start: a second writer of the same inode leaves the
\* end of a longer first one.
WriteTemp(r) ==
  /\ pc[r] = "save" /\ Head(steps[r]).do = "write"
  /\ LET doc == RefOf(r, Head(steps[r]).file)
     IN  \E d \in {doc} \cup (IF data[open[r]] = Empty THEN {} ELSE {Mixed}) :
           data' = [data EXCEPT ![open[r]] = d]
  /\ open' = [open EXCEPT ![r] = NoFile]
  /\ steps' = [steps EXCEPT ![r] = Tail(@)]
  /\ UNCHANGED <<up, running, final, temp, req, pc, todo, load, overlapped,
                 deleted, counts>>

\* The rename takes whatever is in the .tmp; without one it fails.
Rename(r) ==
  /\ pc[r] = "save" /\ Head(steps[r]).do = "rename"
  /\ LET f == Head(steps[r]).file
     IN  IF temp[f] = NoFile
         THEN /\ Goto(r, "cleanup")
              /\ UNCHANGED <<final, temp, todo, steps, open>>
         ELSE /\ final' = [final EXCEPT ![f] = temp[f]]
              /\ temp' = [temp EXCEPT ![f] = NoFile]
              /\ IF Len(steps[r]) = 1
                 THEN NextItem(r)
                 ELSE /\ steps' = [steps EXCEPT ![r] = Tail(@)]
                      /\ UNCHANGED <<pc, todo, open>>
  /\ UNCHANGED <<up, running, data, req, load, overlapped, deleted, counts>>

\* After a failed rename the .tmp files that are left are removed, whoever
\* wrote them.
Cleanup(r) ==
  /\ pc[r] = "cleanup"
  /\ LET left == {steps[r][i].file : i \in DOMAIN steps[r]}
     IN  temp' = [f \in Files |-> IF f \in left THEN NoFile ELSE temp[f]]
  /\ NextItem(r)
  /\ UNCHANGED <<up, running, final, data, req, load, overlapped, deleted,
                 counts>>

\* The code goes before the configuration.
RemovePlan(f) ==
  IF f \in Configs /\ Present(Tool(f))
  THEN IF Present(f) THEN <<Step("remove", Tool(f)), Step("remove", f)>>
                     ELSE <<Step("remove", Tool(f))>>
  ELSE <<Step("remove", f)>>

\* A delete asks only whether there is a module: nothing looks for references.
FindModule(r) ==
  /\ pc[r] = "delete"
  /\ LET f == Head(todo[r]).file
     IN  \E found \in IF f \in Configs THEN {Present(Tool(f)) \/ Present(f)}
                      ELSE Parses(f) :
           IF found
           THEN /\ Goto(r, "remove")
                /\ steps' = [steps EXCEPT ![r] = RemovePlan(f)]
                /\ deleted' = deleted \cup FilesOf(f)
                /\ UNCHANGED <<todo, open>>
           ELSE NextItem(r) /\ UNCHANGED deleted
  /\ UNCHANGED <<up, running, final, temp, data, req, load, overlapped, counts>>

\* A file that is gone ends the delete.
RemoveFile(r) ==
  /\ pc[r] = "remove"
  /\ LET f == Head(steps[r]).file
     IN  /\ final' = [final EXCEPT ![f] = NoFile]
         /\ IF Present(f) /\ Len(steps[r]) > 1
            THEN /\ steps' = [steps EXCEPT ![r] = Tail(@)]
                 /\ UNCHANGED <<pc, todo, open>>
            ELSE NextItem(r)
  /\ UNCHANGED <<up, running, temp, data, req, load, overlapped, deleted,
                 counts>>

-----------------------------------------------------------------------------
(* Loading the configuration *)

Reads(S) == {f \in S : Present(f)}
\* An empty module defines nothing, which is an error.
Reading(S) == IF \E f \in Reads(S) : Parses(f) = {FALSE} THEN {FALSE}
              ELSE IF \E f \in Reads(S) : FALSE \in Parses(f) THEN BOOLEAN
              ELSE {TRUE}
RefsOf(S) == {Content(f) : f \in Reads(S)} \cap Docs
\* validate: fallbacks and the providers of agents must be among the names.
Validates(names, refs) == refs \subseteq names \cup {NoRef}

\* A change of the workspace reads the provider modules, then the rest, while
\* requests go on; what it refuses leaves the old configuration in place.
LoadProviders ==
  /\ up /\ ~load.on /\ counts.loads < MaxLoads
  /\ \E whole \in Reading(Providers) :
       load' = [on |-> TRUE, names |-> Main \cup Reads(Providers),
                whole |-> whole /\ Validates(Main \cup Reads(Providers),
                                             RefsOf(Providers))]
  /\ counts' = [counts EXCEPT !.loads = @ + 1]
  /\ UNCHANGED <<up, running, final, temp, data, handlerVars, overlapped,
                 deleted>>

LoadAgents ==
  /\ load.on
  /\ \E whole \in Reading(Agents \cup Configs) :
       running' = IF load.whole /\ whole /\ Validates(load.names, RefsOf(Agents))
                  THEN load.names \cup Reads(Agents) ELSE running
  /\ load' = NotLoading
  /\ UNCHANGED <<up, final, temp, data, handlerVars, overlapped, deleted,
                 counts>>

\* A kill: the handlers are gone, the .tmp files stay.
Kill ==
  /\ up /\ counts.kills < MaxKills
  /\ up' = FALSE
  /\ pc' = [r \in Requests |-> IF Busy(r) THEN "done" ELSE pc[r]]
  /\ todo' = [r \in Requests |-> <<>>]
  /\ steps' = [r \in Requests |-> <<>>]
  /\ open' = [r \in Requests |-> NoFile]
  /\ load' = NotLoading
  /\ counts' = [counts EXCEPT !.kills = @ + 1]
  /\ UNCHANGED <<running, final, temp, data, req, overlapped, deleted>>

\* A start loads the modules before anybody can change them.
Start ==
  /\ ~up
  /\ TRUE \in Reading(Providers \cup Agents \cup Configs)
  /\ Validates(Main \cup Reads(Providers), RefsOf(Providers \cup Agents))
  /\ up' = TRUE
  /\ running' = Main \cup Reads(Providers \cup Agents)
  /\ UNCHANGED <<final, temp, data, handlerVars, load, overlapped, deleted,
                 counts>>

-----------------------------------------------------------------------------

Init ==
  /\ up = TRUE
  /\ running = Main \cup (Installed \cap Agents)
  /\ final = [f \in Files |-> IF f \in Installed THEN <<"installed", f, 1>>
                              ELSE NoFile]
  /\ temp = [f \in Files |-> NoFile]
  /\ \E m \in Main :
       data = [i \in Inodes |-> IF i[1] # "installed" THEN Empty
                                ELSE IF i[2] \in Agents THEN m
                                ELSE NoRef]
  /\ req = [r \in Requests |-> Nobody]
  /\ pc = [r \in Requests |-> "free"]
  /\ todo = [r \in Requests |-> <<>>]
  /\ steps = [r \in Requests |-> <<>>]
  /\ open = [r \in Requests |-> NoFile]
  /\ load = NotLoading
  /\ overlapped = {} /\ deleted = {}
  /\ counts = [loads |-> 0, kills |-> 0]

Handle(r) ==
  \/ FindConflicts(r) \/ Look(r) \/ Check(r) \/ OpenTemp(r) \/ WriteTemp(r)
  \/ Rename(r) \/ Cleanup(r) \/ FindModule(r) \/ RemoveFile(r)

Next ==
  \/ \E r \in Requests : Handle(r) \/ \E o \in Offers : Receive(r, o)
  \/ LoadProviders \/ LoadAgents \/ Kill \/ Start

Spec == Init /\ [][Next]_vars

-----------------------------------------------------------------------------
(* Properties *)

\* Types of the variables; an open inode belongs to a write that comes next.
TypeOK ==
  /\ up \in BOOLEAN
  /\ running \subseteq Main \cup Providers \cup Agents
  /\ final \in [Files -> Inodes \cup {NoFile}]
  /\ temp \in [Files -> Inodes \cup {NoFile}]
  /\ data \in [Inodes -> Docs \cup {Empty, Mixed}]
  /\ req \in [Requests -> Offers \cup {Nobody}]
  /\ pc \in [Requests -> Locations]
  /\ todo \in [Requests -> Seq(Items)] /\ steps \in [Requests -> Seq(FileSteps)]
  /\ open \in [Requests -> Inodes \cup {NoFile}]
  /\ \A r \in Requests : (open[r] # NoFile) =
                            (steps[r] # <<>> /\ Head(steps[r]).do = "write")
  /\ load \in [on : BOOLEAN, names : SUBSET (Main \cup Providers),
               whole : BOOLEAN]
  /\ overlapped \subseteq Files /\ deleted \subseteq Files

\* Whenever the process is killed, the next start accepts the modules it finds:
\* each is a whole document, and what it refers to is there.  The exceptions are
\* the code's: two saves of one file at a time share its .tmp, and a delete does
\* not look for references (saveProviderResource, saveToolResource, validate).
NextStartAccepts ==
  \A f \in Files : Present(f) /\ f \notin overlapped =>
    /\ Content(f) \in Docs
    /\ Content(f) \in Main \cup {NoRef} \cup deleted
                          \cup {g \in Files : Present(g)}

\* The step with which request r puts its own version of f in place of another.
Replaces(r, f) ==
  /\ pc[r] = "save" /\ Head(steps[r]) = Step("rename", f) /\ steps'[r] # steps[r]
  /\ Present(f) /\ final'[f] # final[f]

\* A request that may not overwrite never replaces a module, although it looks
\* at the file several steps before it renames (importKitBundle,
\* materializeKitScaffold), unless it raced with another save of the file, or
\* found a tool that is half deleted.
NeverReplacesUnasked ==
  [][\A r \in Requests, f \in Files :
       Replaces(r, f) => req[r].over \/ f \in overlapped \cup deleted]_vars
=============================================================================
