------------------------ MODULE ResourceStoreProofs ------------------------
(* Proofs about ResourceStore: for any modules, requests, offers and bounds. *)
EXTENDS ResourceStore, TLAPS

-----------------------------------------------------------------------------
(* The inductive invariant                                                 *)

\* Where a save is with file f: the first operation on it that is left.
Left(s, do, f) == \E i \in DOMAIN s : s[i] = Step(do, f)
Stage(s, f) == IF Left(s, "open", f) THEN "open" ELSE IF Left(s, "write", f) THEN "write"
               ELSE IF Left(s, "rename", f) THEN "rename" ELSE "saved"
At(r, f) == Stage(steps[r], f)
Item(r) == Head(todo[r])

\* What can be left of the plan for f.
RestOfModule(f) ==
  {SaveModule(f), <<Step("write", f), Step("rename", f)>>, <<Step("rename", f)>>}
RestOfTool(f) ==
  LET c == Tool(f)
  IN  {SaveTool(f),
       <<Step("write", c), Step("open", f), Step("write", f), Step("rename", c),
         Step("rename", f)>>,
       <<Step("open", f), Step("write", f), Step("rename", c), Step("rename", f)>>,
       <<Step("write", f), Step("rename", c), Step("rename", f)>>,
       <<Step("rename", c), Step("rename", f)>>, <<Step("rename", f)>>}
Rest(f) == IF f \in Configs THEN RestOfTool(f) ELSE RestOfModule(f)
Removals(f) == {<<Step("remove", f)>>} \cup
  IF f \in Configs
  THEN {<<Step("remove", Tool(f)), Step("remove", f)>>, <<Step("remove", Tool(f))>>} ELSE {}

\* What a handler has at each place.
Place ==
  \A r \in Requests :
    /\ Len(todo[r]) <= MaxItems
    /\ Busy(r) => todo[r] # <<>> /\ req[r] \in Offers
    /\ pc[r] \notin {"save", "cleanup", "remove"} => steps[r] = <<>>
    /\ pc[r] \in {"save", "cleanup"} => steps[r] \in Rest(Item(r).file)
    /\ pc[r] = "cleanup" => Head(steps[r]).do = "rename"
    /\ pc[r] \in {"delete", "remove"} => Len(todo[r]) = 1
    /\ pc[r] = "remove" => /\ steps[r] \in Removals(Item(r).file)
                           /\ FilesOf(Item(r).file) \subseteq deleted

\* What a reference may name for ever: only a delete takes a module away.
Known == Main \cup {NoRef} \cup deleted \cup {f \in Files : Present(f)}

\* A file nobody raced for has one writer at most.
Alone == \A f \in Files \ overlapped : \A r, q \in Saving(f) : r = q

\* An inode is created once: r is past the opening of the .tmp it was created for.
Past(i) ==
  i[1] \in Requests =>
    /\ pc[i[1]] # "free"
    /\ \/ i[3] > Len(todo[i[1]])
       \/ /\ i[3] = Len(todo[i[1]]) /\ pc[i[1]] \in {"save", "cleanup"}
          /\ At(i[1], i[2]) # "open"
Inode(f, i) == i # NoFile => i[2] = f /\ Past(i)
Inoded ==
  /\ \A f \in Files : /\ Inode(f, final[f]) /\ Inode(f, temp[f])
                      /\ temp[f] # NoFile => temp[f] # final[f]
  /\ \A r \in Requests : open[r] # NoFile => open[r][2] = Head(steps[r]).file

\* The writer of a file nobody raced for has its own .tmp.
Own ==
  \A f \in Files \ overlapped : \A r \in Saving(f) : pc[r] = "save" =>
    /\ At(r, f) = "write"  => open[r] = temp[f] /\ temp[f] # NoFile /\ data[temp[f]] = Empty
    /\ At(r, f) = "rename" => temp[f] # NoFile /\ data[temp[f]] = RefOf(r, f)

\* What is being saved was checked; the code of a tool is renamed first.
Checked ==
  \A r \in Requests : pc[r] = "save" =>
    IF Item(r).file \in Configs
    THEN /\ Item(r).ref = Tool(Item(r).file)
         /\ At(r, Tool(Item(r).file)) = "saved" =>
              Present(Tool(Item(r).file)) \/ FilesOf(Item(r).file) \subseteq deleted
    ELSE Item(r).ref \in Known
\* A configuration names the providers there were.
Loaded == running \subseteq Known /\ (load.on => load.names \subseteq Known)
\* A server configuration has its code.
Paired ==
  \A c \in Configs \ (overlapped \cup deleted) : Present(c) => Present(Tool(c))
\* What may not be overwritten is not there.
Absent ==
  \A f \in Files \ (overlapped \cup deleted) : \A r \in Saving(f) :
    pc[r] # "cleanup" /\ ~req[r].over /\ (pc[r] = "check" \/ At(r, f) # "saved") => ~Present(f)

IInv ==
  /\ TypeOK /\ Place /\ Alone /\ Inoded /\ Own /\ Checked /\ Loaded /\ Paired /\ Absent
  /\ NextStartAccepts
-----------------------------------------------------------------------------
(* The plans *)

\* A tool's configuration and its code are two files, of no other module.
LEMMA Kinds ==
  ASSUME NEW m \in Files \ Codes
  PROVE  /\ m \in FilesOf(m) /\ FilesOf(m) \subseteq Files
         /\ FilesOf(m) \cap Codes = IF m \in Configs THEN {Tool(m)} ELSE {}
         /\ m \in Configs => Tool(m) # m
BY KindAssumption DEF FilesOf, Files

\* What the first operation of a plan leaves.
Follows(s, m) ==
  LET h == Head(s)
  IN  /\ s # <<>> /\ s \in Seq(FileSteps) /\ h \in FileSteps
      /\ h.file \in FilesOf(m) /\ h = Step(Stage(s, h.file), h.file)
      /\ Len(s) = 1 => h = Step("rename", m)
      /\ Len(s) # 1 => Tail(s) \in Rest(m)
      /\ \A f \in FilesOf(m) :
           /\ Stage(Tail(s), f) =
                IF f # h.file THEN Stage(s, f)
                ELSE IF h.do = "open" THEN "write"
                ELSE IF h.do = "write" THEN "rename" ELSE "saved"
           /\ Stage(s, f) = "write" => h = Step("write", f)
      /\ h = Step("rename", m) => Len(s) = 1
      /\ m \in Configs /\ h = Step("rename", m) => Stage(s, Tool(m)) = "saved"
      /\ \A i \in DOMAIN s : s[i].file \in FilesOf(m)

LEMMA ModuleFollows ==
  ASSUME NEW m \in Files \ (Codes \cup Configs), NEW s \in RestOfModule(m)
  PROVE  Follows(s, m)
<1>1. FilesOf(m) = {m} /\ Rest(m) = RestOfModule(m)
  BY DEF FilesOf, Rest
<1>2. CASE s = SaveModule(m)
  <2>1. s = <<Step("open", m), Step("write", m), Step("rename", m)>>
    BY <1>2 DEF SaveModule
  <2>2. Tail(s) = <<Step("write", m), Step("rename", m)>>
    BY <2>1
  <2>3. Stage(s, m) = "open" /\ Stage(Tail(s), m) = "write"
    BY <2>1, <2>2 DEF Stage, Left, Step
  <2> QED BY <1>1, <2>1, <2>2, <2>3 DEF Follows, RestOfModule, Step, FileSteps
<1>3. CASE s = <<Step("write", m), Step("rename", m)>>
  <2>1. Tail(s) = <<Step("rename", m)>>
    BY <1>3
  <2>2. Stage(s, m) = "write" /\ Stage(Tail(s), m) = "rename"
    BY <1>3, <2>1 DEF Stage, Left, Step
  <2> QED BY <1>1, <1>3, <2>1, <2>2 DEF Follows, RestOfModule, Step, FileSteps
<1>4. CASE s = <<Step("rename", m)>>
  <2>1. Tail(s) = <<>>
    BY <1>4
  <2>2. Stage(s, m) = "rename" /\ Stage(Tail(s), m) = "saved"
    BY <1>4, <2>1 DEF Stage, Left, Step
  <2> QED BY <1>1, <1>4, <2>1, <2>2 DEF Follows, RestOfModule, Step, FileSteps
<1> QED BY <1>2, <1>3, <1>4 DEF RestOfModule

LEMMA ToolFollows ==
  ASSUME NEW m \in Configs, NEW s \in RestOfTool(m)
  PROVE  Follows(s, m)
<1> DEFINE c == Tool(m)
<1>1. FilesOf(m) = {c, m} /\ c # m /\ Rest(m) = RestOfTool(m) /\ c \in Files /\ m \in Files
  BY KindAssumption DEF FilesOf, Rest, Files
<1> HIDE DEF c
<1>2. RestOfTool(m) =
        {<<Step("open", c), Step("write", c), Step("open", m), Step("write", m),
           Step("rename", c), Step("rename", m)>>,
         <<Step("write", c), Step("open", m), Step("write", m), Step("rename", c),
           Step("rename", m)>>,
         <<Step("open", m), Step("write", m), Step("rename", c), Step("rename", m)>>,
         <<Step("write", m), Step("rename", c), Step("rename", m)>>,
         <<Step("rename", c), Step("rename", m)>>,
         <<Step("rename", m)>>}
  BY DEF RestOfTool, SaveTool, c
<1>3. CASE s = <<Step("open", c), Step("write", c), Step("open", m), Step("write", m),
                Step("rename", c), Step("rename", m)>>
  <2>1. Tail(s) = <<Step("write", c), Step("open", m), Step("write", m), Step("rename", c),
                    Step("rename", m)>>
    BY <1>3
  <2>2. /\ Stage(s, c) = "open" /\ Stage(s, m) = "open"
        /\ Stage(Tail(s), c) = "write" /\ Stage(Tail(s), m) = "open"
    BY <1>1, <1>3, <2>1 DEF Stage, Left, Step
  <2> QED BY <1>1, <1>2, <1>3, <2>1, <2>2 DEF Follows, Step, FileSteps, c
<1>4. CASE s = <<Step("write", c), Step("open", m), Step("write", m), Step("rename", c),
                Step("rename", m)>>
  <2>1. Tail(s) = <<Step("open", m), Step("write", m), Step("rename", c),
                    Step("rename", m)>>
    BY <1>4
  <2>2. /\ Stage(s, c) = "write" /\ Stage(s, m) = "open"
        /\ Stage(Tail(s), c) = "rename" /\ Stage(Tail(s), m) = "open"
    BY <1>1, <1>4, <2>1 DEF Stage, Left, Step
  <2> QED BY <1>1, <1>2, <1>4, <2>1, <2>2 DEF Follows, Step, FileSteps, c
<1>5. CASE s = <<Step("open", m), Step("write", m), Step("rename", c), Step("rename", m)>>
  <2>1. Tail(s) = <<Step("write", m), Step("rename", c), Step("rename", m)>>
    BY <1>5
  <2>2. /\ Stage(s, c) = "rename" /\ Stage(s, m) = "open"
        /\ Stage(Tail(s), c) = "rename" /\ Stage(Tail(s), m) = "write"
    BY <1>1, <1>5, <2>1 DEF Stage, Left, Step
  <2> QED BY <1>1, <1>2, <1>5, <2>1, <2>2 DEF Follows, Step, FileSteps, c
<1>6. CASE s = <<Step("write", m), Step("rename", c), Step("rename", m)>>
  <2>1. Tail(s) = <<Step("rename", c), Step("rename", m)>>
    BY <1>6
  <2>2. /\ Stage(s, c) = "rename" /\ Stage(s, m) = "write"
        /\ Stage(Tail(s), c) = "rename" /\ Stage(Tail(s), m) = "rename"
    BY <1>1, <1>6, <2>1 DEF Stage, Left, Step
  <2> QED BY <1>1, <1>2, <1>6, <2>1, <2>2 DEF Follows, Step, FileSteps, c
<1>7. CASE s = <<Step("rename", c), Step("rename", m)>>
  <2>1. Tail(s) = <<Step("rename", m)>>
    BY <1>7
  <2>2. /\ Stage(s, c) = "rename" /\ Stage(s, m) = "rename"
        /\ Stage(Tail(s), c) = "saved" /\ Stage(Tail(s), m) = "rename"
    BY <1>1, <1>7, <2>1 DEF Stage, Left, Step
  <2> QED BY <1>1, <1>2, <1>7, <2>1, <2>2 DEF Follows, Step, FileSteps, c
<1>8. CASE s = <<Step("rename", m)>>
  <2>1. Tail(s) = <<>>
    BY <1>8
  <2>2. /\ Stage(s, c) = "saved" /\ Stage(s, m) = "rename"
        /\ Stage(Tail(s), c) = "saved" /\ Stage(Tail(s), m) = "saved"
    BY <1>1, <1>8, <2>1 DEF Stage, Left, Step
  <2> QED BY <1>1, <1>2, <1>8, <2>1, <2>2 DEF Follows, Step, FileSteps, c
<1> QED BY <1>2, <1>3, <1>4, <1>5, <1>6, <1>7, <1>8

LEMMA PlanFollows == ASSUME NEW m \in Files \ Codes, NEW s \in Rest(m) PROVE Follows(s, m)
BY ModuleFollows, ToolFollows DEF Rest

LEMMA PlanBegins ==
  ASSUME NEW m \in Files \ Codes
  PROVE  SavePlan(m) \in Rest(m) /\ \A f \in FilesOf(m) : Stage(SavePlan(m), f) = "open"
<1>1. SavePlan(m) \in Rest(m)
  BY DEF SavePlan, Rest, RestOfTool, RestOfModule
<1>2. CASE m \in Configs
  <2>1. Tool(m) # m
    BY <1>2, Kinds
  <2> QED BY <1>1, <1>2, <2>1 DEF SavePlan, SaveTool, FilesOf, Stage, Left, Step
<1>3. CASE m \notin Configs
  BY <1>1, <1>3 DEF SavePlan, SaveModule, FilesOf, Stage, Left, Step
<1> QED BY <1>2, <1>3

LEMMA RemovalFollows ==
  ASSUME NEW m \in Files \ Codes, NEW s \in Removals(m)
  PROVE  /\ s # <<>> /\ s \in Seq(FileSteps) /\ Head(s).do = "remove"
         /\ Head(s).file \in FilesOf(m)
         /\ Len(s) # 1 => Tail(s) \in Removals(m)
<1>1. m \in Files /\ (m \in Configs => Tool(m) \in Files)
  BY Kinds DEF FilesOf
<1>2. CASE s = <<Step("remove", m)>>
  BY <1>1, <1>2 DEF Step, FileSteps, FilesOf
<1>3. CASE m \in Configs /\ s = <<Step("remove", Tool(m)), Step("remove", m)>>
  <2>1. Tail(s) = <<Step("remove", m)>>
    BY <1>3
  <2> QED BY <1>1, <1>3, <2>1 DEF Step, FileSteps, FilesOf, Removals
<1>4. CASE m \in Configs /\ s = <<Step("remove", Tool(m))>>
  BY <1>1, <1>4 DEF Step, FileSteps, FilesOf
<1> QED BY <1>2, <1>3, <1>4 DEF Removals

-----------------------------------------------------------------------------
(* Steps that leave the files alone                                        *)

LEMMA InodesExist == ASSUME NEW i \in Inodes PROVE i # NoFile
<1>1. PICK a \in Requests \cup {"installed"}, f \in Files, n \in 1..MaxItems : i = <<a, f, n>>
  BY DEF Inodes
<1>2. Len(<<a, f, n>>) # Len(<<>>)
  OBVIOUS
<1> QED BY <1>1, <1>2 DEF NoFile

\* What a handler works on.
LEMMA Handling ==
  ASSUME TypeOK, Place, NEW r \in Requests, Busy(r)
  PROVE  /\ todo[r] \in Seq(Items) /\ Len(todo[r]) \in 1..MaxItems /\ req[r] \in Offers
         /\ Item(r) \in Items /\ Item(r).file \in Files \ Codes
         /\ Written(r) = FilesOf(Item(r).file) /\ Written(r) \subseteq Files
<1>1. /\ todo[r] \in Seq(Items) /\ todo[r] # <<>> /\ Len(todo[r]) <= MaxItems
      /\ req[r] \in Offers /\ MaxItems \in Nat
  BY BoundAssumption DEF TypeOK, Place
<1>2. Len(todo[r]) \in 1..MaxItems /\ Item(r) \in Items
  BY <1>1 DEF Item
<1>3. Item(r).file \in Files \ Codes
  BY <1>2 DEF Items
<1> QED BY <1>1, <1>2, <1>3, Kinds DEF Written, Item

SameRequest(q) == /\ pc'[q] = pc[q] /\ req'[q] = req[q] /\ todo'[q] = todo[q]
                  /\ steps'[q] = steps[q] /\ open'[q] = open[q]
Idle(q) == pc[q] \notin {"check", "save", "cleanup"} /\ open[q] = NoFile

\* No file changes, and the requests that change do not save.
LEMMA Quiet ==
  ASSUME IInv, TypeOK', Place', Loaded', UNCHANGED <<final, temp, data, overlapped>>,
         deleted \subseteq deleted',
         \A q \in Requests : SameRequest(q) \/ Idle(q)',
         \A i \in Inodes : Past(i) => Past(i)'
  PROVE  IInv'
<1> USE DEF IInv
<1>1. \A f \in Files : Saving(f)' \subseteq Saving(f)
  BY DEF Saving, SameRequest, Idle, Written
<1>2. \A f \in Files : \A q \in Saving(f)' : q \in Requests /\ SameRequest(q)
  BY DEF Saving, Idle
<1>3. Known \subseteq Known'
  BY DEF Known, Present
<1>4. Alone'
  BY <1>1 DEF Alone
<1>5. Inoded'
  <2>1. \A f \in Files : final[f] \in Inodes \cup {NoFile} /\ temp[f] \in Inodes \cup {NoFile}
    BY DEF TypeOK
  <2>2. \A r \in Requests : open'[r] # NoFile => open'[r] = open[r] /\ steps'[r] = steps[r]
    BY DEF SameRequest, Idle
  <2> QED BY <2>1, <2>2 DEF Inoded, Inode
<1>6. Own'
  BY <1>1, <1>2 DEF Own, SameRequest, At, RefOf
<1>7. Checked'
  <2>1. \A r \in Requests : pc'[r] = "save" => SameRequest(r)
    BY DEF Idle
  <2> QED BY <1>3, <2>1 DEF Checked, SameRequest, At, Item, Present
<1>8. Paired'
  BY DEF Paired, Present
<1>9. Absent'
  BY <1>1, <1>2 DEF Absent, SameRequest, At, Present
<1>10. NextStartAccepts'
  BY <1>3 DEF NextStartAccepts, Present, Content, Known
<1> QED BY <1>4, <1>5, <1>6, <1>7, <1>8, <1>9, <1>10

\* The next item of an import, or the answer.
LEMMA Passing ==
  ASSUME TypeOK, Place, NEW r \in Requests, Busy(r), NextItem(r), req' = req,
         deleted \subseteq deleted'
  PROVE  /\ \A q \in Requests \ {r} : SameRequest(q)
         /\ Idle(r)' /\ r \notin UNION {Saving(f)' : f \in Files}
         /\ \A i \in Inodes : Past(i) => Past(i)'
         /\ Place'
         /\ pc' \in [Requests -> Locations] /\ todo' \in [Requests -> Seq(Items)]
         /\ steps' \in [Requests -> Seq(FileSteps)]
         /\ open' \in [Requests -> Inodes \cup {NoFile}]
         /\ steps'[r] = <<>> /\ open'[r] = NoFile
<1>1. /\ todo[r] \in Seq(Items) /\ Len(todo[r]) \in 1..MaxItems /\ req[r] \in Offers
      /\ MaxItems \in Nat
  BY Handling, BoundAssumption
<1>2. /\ todo'[r] = Tail(todo[r]) /\ steps'[r] = <<>> /\ open'[r] = NoFile
      /\ pc'[r] = IF Len(todo[r]) = 1 THEN "done" ELSE "look"
  BY DEF NextItem, Goto, TypeOK
<1>3. \A q \in Requests \ {r} : SameRequest(q)
  BY DEF NextItem, Goto, TypeOK, SameRequest
<1>4. todo'[r] \in Seq(Items) /\ Len(todo'[r]) = Len(todo[r]) - 1
  BY <1>1, <1>2
<1>5. pc'[r] \in {"done", "look"} /\ (pc'[r] = "look" => todo'[r] # <<>>)
  <2>1. Len(todo[r]) # 1 => Len(todo'[r]) # 0
    BY <1>1, <1>4
  <2>2. todo'[r] = <<>> => Len(todo'[r]) = 0
    OBVIOUS
  <2> QED BY <1>2, <2>1, <2>2
<1>6. Idle(r)' /\ r \notin UNION {Saving(f)' : f \in Files}
  BY <1>2, <1>5 DEF Idle, Saving
<1>7. ASSUME NEW i \in Inodes, Past(i) PROVE Past(i)'
  <2>1. CASE i[1] = r
    <3>1. i[3] \in Nat /\ i[3] > Len(todo'[r])
      BY <1>1, <1>4, <1>7, <2>1 DEF Past, Inodes
    <3> QED BY <1>5, <2>1, <3>1 DEF Past
  <2>2. CASE i[1] # r
    BY <1>3, <1>7, <2>2 DEF Past, SameRequest, At
  <2> QED BY <2>1, <2>2
<1>8. Place'
  <2>1. ASSUME NEW q \in Requests \ {r}
        PROVE  /\ Len(todo[q]) <= MaxItems /\ (Busy(q) => todo[q] # <<>> /\ req[q] \in Offers)
               /\ SameRequest(q)
    BY <1>3 DEF Place
  <2>2. Len(todo'[r]) <= MaxItems
    BY <1>1, <1>4
  <2>3. req'[r] \in Offers
    BY <1>1
  <2> QED BY <1>2, <1>3, <1>5, <2>2, <2>3 DEF Place, SameRequest, Busy, Item
<1>9. /\ pc' \in [Requests -> Locations] /\ todo' \in [Requests -> Seq(Items)]
      /\ steps' \in [Requests -> Seq(FileSteps)]
      /\ open' \in [Requests -> Inodes \cup {NoFile}]
  <2>1. <<>> \in Seq(FileSteps)
    OBVIOUS
  <2>2. Tail(todo[r]) \in Seq(Items)
    BY <1>2, <1>4
  <2> QED BY <2>1, <2>2 DEF NextItem, Goto, TypeOK, Locations
<1> QED BY <1>2, <1>3, <1>6, <1>7, <1>8, <1>9

\* A request that gives up the current item, and changes no file by it.
LEMMA GivesUp ==
  ASSUME IInv, NEW r \in Requests, Busy(r), NextItem(r),
         UNCHANGED <<up, running, final, temp, data, req, load, overlapped, deleted>>
  PROVE  IInv'
<1> USE DEF IInv
<1>1. /\ \A q \in Requests \ {r} : SameRequest(q)
      /\ Idle(r)' /\ \A i \in Inodes : Past(i) => Past(i)'
      /\ Place'
      /\ pc' \in [Requests -> Locations] /\ todo' \in [Requests -> Seq(Items)]
      /\ steps' \in [Requests -> Seq(FileSteps)]
      /\ open' \in [Requests -> Inodes \cup {NoFile}]
      /\ steps'[r] = <<>> /\ open'[r] = NoFile
  BY Passing
<1>2. TypeOK'
  BY <1>1 DEF TypeOK, SameRequest
<1>3. Loaded'
  BY DEF Loaded, Known, Present
<1> QED BY <1>1, <1>2, <1>3, Quiet

\* A request that goes elsewhere, but not to a save.
LEMMA GoesOn ==
  ASSUME IInv, NEW r \in Requests, Busy(r), pc[r] \notin {"check", "save", "cleanup"},
         NEW l \in {"look", "remove"}, Goto(r, l), steps' \in [Requests -> Seq(FileSteps)],
         \A q \in Requests \ {r} : steps'[q] = steps[q],
         l = "look" => steps'[r] = <<>>,
         l = "remove" => /\ pc[r] = "delete" /\ steps'[r] \in Removals(Item(r).file)
                         /\ FilesOf(Item(r).file) \subseteq deleted',
         deleted \subseteq deleted', deleted' \subseteq Files,
         UNCHANGED <<up, running, final, temp, data, req, todo, open, load, overlapped>>
  PROVE  IInv'
<1> USE DEF IInv
<1>1. /\ \A q \in Requests \ {r} : SameRequest(q)
      /\ pc' \in [Requests -> Locations] /\ pc'[r] = l
  BY DEF Goto, TypeOK, SameRequest, Locations
<1>2. Len(todo[r]) \in 1..MaxItems /\ req[r] \in Offers /\ Item(r).file \in Files \ Codes
  BY Handling
<1>3. ASSUME NEW i \in Inodes, Past(i) PROVE Past(i)'
  BY <1>1, <1>3 DEF Past, SameRequest, At, Busy
<1>4. Place'
  <2>1. ASSUME NEW q \in Requests \ {r} PROVE Place!(q)'
    BY <1>1, <2>1 DEF Place, SameRequest, Busy, Item
  <2>2. Place!(r)'
    BY <1>1, <1>2 DEF Place, Busy, Item
  <2> QED BY <2>1, <2>2 DEF Place
<1>5. open[r] = NoFile
  <2>1. pc[r] # "remove" => steps[r] = <<>>
    BY DEF Place
  <2>2. pc[r] = "remove" => Head(steps[r]).do = "remove"
    BY <1>2, RemovalFollows DEF Place
  <2> QED BY <2>1, <2>2 DEF TypeOK
<1>6. TypeOK'
  <2>1. steps'[r] # <<>> => Head(steps'[r]).do # "write"
    BY <1>2, RemovalFollows
  <2> QED BY <1>1, <1>5, <2>1 DEF TypeOK, SameRequest
<1>7. Loaded'
  BY DEF Loaded, Known, Present
<1>8. Idle(r)'
  BY <1>1, <1>5 DEF Idle
<1> QED BY <1>1, <1>3, <1>4, <1>6, <1>7, <1>8, Quiet

LEMMA ReceiveStep ==
  ASSUME IInv, NEW r \in Requests, NEW o \in Offers, Receive(r, o)
  PROVE  IInv'
<1> USE DEF IInv
<1>1. /\ o.items \in Seq(Items) /\ Len(o.items) \in 1..MaxItems
      /\ o.op = "delete" => Len(o.items) = 1
  <2>1. MaxItems \in Nat \ {0}
    BY BoundAssumption
  <2>2. /\ o.items \in Seq(Items)
        /\ Len(o.items) \in 1..(IF o.op = "delete" THEN 1 ELSE MaxItems)
    BY OfferAssumption
  <2>3. /\ o.op = "delete" => Len(o.items) \in 1..1
        /\ o.op # "delete" => Len(o.items) \in 1..MaxItems
    BY <2>2, Zenon
  <2> QED BY <2>1, <2>2, <2>3
<1>2. \A q \in Requests \ {r} : SameRequest(q)
  BY DEF Receive, Goto, TypeOK, SameRequest
<1>3. /\ req'[r] = o /\ todo'[r] = o.items /\ steps'[r] = <<>> /\ open'[r] = NoFile
      /\ pc'[r] = CASE o.op = "scaffold" -> "conflicts" [] o.op = "delete" -> "delete"
                    [] OTHER -> "look"
  BY DEF Receive, Goto, TypeOK, Place
<1>4. /\ pc'[r] \in {"conflicts", "delete", "look"}
      /\ pc'[r] = "delete" => Len(o.items) = 1
  BY <1>1, <1>3
<1>5. o.items # <<>>
  <2>1. Len(<<>>) = 0
    OBVIOUS
  <2> QED BY <1>1, <2>1
<1>6. ASSUME NEW i \in Inodes, Past(i) PROVE Past(i)'
  BY <1>2, <1>6 DEF Past, SameRequest, At, Receive
<1>7. Place'
  <2>1. ASSUME NEW q \in Requests \ {r} PROVE Place!(q)'
    BY <1>2, <2>1 DEF Place, SameRequest, Busy, Item, Receive
  <2>2. Place!(r)'
    BY <1>1, <1>3, <1>4, <1>5, BoundAssumption DEF Place, Busy, Item
  <2> QED BY <2>1, <2>2 DEF Place
<1>8. TypeOK'
  <2>1. pc' \in [Requests -> Locations] /\ UNCHANGED <<steps, open>>
    BY <1>4, <1>3 DEF TypeOK, Receive, Goto, Locations
  <2>2. todo' \in [Requests -> Seq(Items)] /\ req' \in [Requests -> Offers \cup {Nobody}]
    BY <1>1 DEF TypeOK, Receive
  <2> QED BY <2>1, <2>2 DEF TypeOK, Receive
<1>9. Loaded' /\ Idle(r)'
  BY <1>3, <1>4 DEF Loaded, Known, Present, Receive, Idle
<1> QED BY <1>2, <1>6, <1>7, <1>8, <1>9, Quiet DEF Receive

LEMMA FindConflictsStep ==
  ASSUME IInv, NEW r \in Requests, FindConflicts(r)
  PROVE  IInv'
<1> USE DEF IInv
<1>1. Busy(r) /\ pc[r] = "conflicts"
  BY DEF FindConflicts, Busy
<1>2. CASE todo' = [todo EXCEPT ![r] = <<>>] /\ Goto(r, "done")
  <2>1. \A q \in Requests \ {r} : SameRequest(q)
    BY <1>2 DEF FindConflicts, Goto, TypeOK, SameRequest
  <2>2. /\ todo'[r] = <<>> /\ steps'[r] = <<>> /\ open'[r] = NoFile /\ pc'[r] = "done"
    BY <1>1, <1>2 DEF FindConflicts, Goto, TypeOK, Place
  <2>3. ASSUME NEW i \in Inodes, Past(i) PROVE Past(i)'
    BY <1>1, <2>1, <2>2, <2>3, Handling DEF Past, SameRequest, At, Inodes
  <2>4. Place'
    <3>1. ASSUME NEW q \in Requests \ {r} PROVE Place!(q)'
      BY <2>1, <3>1 DEF Place, SameRequest, Busy, Item, FindConflicts
    <3>2. Place!(r)'
      BY <2>2, BoundAssumption DEF Place, Busy, Item
    <3> QED BY <3>1, <3>2 DEF Place
  <2>5. TypeOK'
    <3>1. pc' \in [Requests -> Locations] /\ UNCHANGED <<steps, open>>
      BY <1>2 DEF TypeOK, FindConflicts, Goto, Locations
    <3>2. todo' \in [Requests -> Seq(Items)]
      BY <1>2 DEF TypeOK
    <3> QED BY <3>1, <3>2 DEF TypeOK, FindConflicts
  <2>6. Loaded' /\ Idle(r)'
    BY <2>2 DEF Loaded, Known, Present, FindConflicts, Idle
  <2> QED BY <2>1, <2>3, <2>4, <2>5, <2>6, Quiet DEF FindConflicts
<1>3. CASE Goto(r, "look") /\ UNCHANGED todo
  <2>1. steps'[r] = <<>>
    BY <1>1 DEF FindConflicts, Place
  <2> QED BY <1>1, <1>3, <2>1, GoesOn DEF FindConflicts, TypeOK
<1> QED BY <1>2, <1>3 DEF FindConflicts

LEMMA FindModuleStep ==
  ASSUME IInv, NEW r \in Requests, FindModule(r)
  PROVE  IInv'
<1> USE DEF IInv
<1>1. Busy(r) /\ pc[r] = "delete"
  BY DEF FindModule, Busy
<1>2. Item(r).file \in Files \ Codes /\ FilesOf(Item(r).file) \subseteq Files
  BY <1>1, Handling, Kinds
<1>3. RemovePlan(Item(r).file) \in Removals(Item(r).file)
  BY DEF RemovePlan, Removals
<1>4. CASE /\ Goto(r, "remove")
           /\ steps' = [steps EXCEPT ![r] = RemovePlan(Item(r).file)]
           /\ deleted' = deleted \cup FilesOf(Item(r).file)
           /\ UNCHANGED <<todo, open>>
  <2>1. RemovePlan(Item(r).file) \in Seq(FileSteps)
    BY <1>2, <1>3, RemovalFollows
  <2>2. steps' \in [Requests -> Seq(FileSteps)] /\ steps'[r] = RemovePlan(Item(r).file)
    BY <1>4, <2>1 DEF TypeOK
  <2>3. \A q \in Requests \ {r} : steps'[q] = steps[q]
    BY <1>4 DEF TypeOK
  <2>4. deleted \subseteq deleted' /\ deleted' \subseteq Files
    BY <1>2, <1>4 DEF TypeOK
  <2> QED BY <1>1, <1>3, <1>4, <2>2, <2>3, <2>4, GoesOn DEF FindModule
<1>5. CASE NextItem(r) /\ UNCHANGED deleted
  BY <1>1, <1>5, GivesUp DEF FindModule
<1> QED BY <1>4, <1>5 DEF FindModule, Item

-----------------------------------------------------------------------------
(* Looking and checking                                                    *)

\* A handler finds a file, or does not; what is not found does not parse.
LEMMA FoundOut ==
  ASSUME NEW m \in Files
  PROVE  /\ Exists(m) \subseteq BOOLEAN
         /\ m \notin Configs /\ FALSE \in Exists(m) => FALSE \in Parses(m)
<1>1. Parses(m) \subseteq BOOLEAN
  BY DEF Parses
<1>2. Defined(m) \subseteq BOOLEAN
  BY <1>1, Zenon DEF Defined
<1>3. FALSE \in Defined(m) => FALSE \in Parses(m)
  <2> SUFFICES ASSUME NEW p \in Parses(m), FALSE = (p \/ m \in running)
               PROVE  FALSE \in Parses(m)
    BY Zenon DEF Defined
  <2>1. p \in BOOLEAN
    BY <1>1
  <2>2. p = FALSE
    BY <2>1, Zenon
  <2> QED BY <2>2
<1>4. ToolExists(m) \subseteq BOOLEAN
  BY Zenon DEF ToolExists, Present
<1> QED BY <1>1, <1>2, <1>3, <1>4 DEF Exists

\* What is not found is not there: a whole document parses, and a server
\* configuration has its code.
LEMMA NotFound ==
  ASSUME IInv, NEW m \in Files \ Codes, FALSE \in Exists(m),
         NEW f \in FilesOf(m) \ (overlapped \cup deleted)
  PROVE  ~Present(f)
<1> USE DEF IInv
<1>1. CASE m \in Configs
  <2>1. ~Present(Tool(m))
    BY <1>1, KindAssumption DEF Exists, ToolExists
  <2>2. f = m => ~Present(m)
    BY <1>1, <2>1 DEF Paired
  <2> QED BY <1>1, <2>1, <2>2 DEF FilesOf
<1>2. CASE m \notin Configs
  <2>1. f = m
    BY <1>2 DEF FilesOf
  <2>2. FALSE \in Parses(m)
    BY <1>2, FoundOut
  <2>3. Present(m) => Content(m) \in Docs
    BY <2>1 DEF NextStartAccepts
  <2>4. Present(m) => Content(m) # Empty /\ Content(m) # Mixed
    BY <2>3, KindAssumption DEF Docs, NoRef, Empty, Mixed
  <2> QED BY <2>1, <2>2, <2>4 DEF Parses
<1> QED BY <1>1, <1>2

\* A request that begins to save its item.
LEMMA LookStep ==
  ASSUME IInv, NEW r \in Requests, Look(r)
  PROVE  IInv'
<1> USE DEF IInv
<1>1. Busy(r) /\ pc[r] = "look" /\ steps[r] = <<>> /\ open[r] = NoFile
  BY DEF Look, Busy, Place, TypeOK
<1>2. PICK exists \in Exists(Item(r).file) :
        IF exists /\ ~req[r].over
        THEN NextItem(r) /\ UNCHANGED overlapped
        ELSE /\ Goto(r, "check")
             /\ overlapped' = overlapped \cup {f \in Written(r) : Saving(f) # {}}
             /\ UNCHANGED <<todo, steps, open>>
  BY DEF Look, Item
<1>3. CASE exists /\ ~req[r].over
  BY <1>1, <1>2, <1>3, GivesUp DEF Look
<1>4. CASE ~(exists /\ ~req[r].over)
  <2>1. /\ Goto(r, "check")
        /\ overlapped' = overlapped \cup {f \in Written(r) : Saving(f) # {}}
        /\ UNCHANGED <<todo, steps, open, up, running, final, temp, data, req, load, deleted>>
    BY <1>2, <1>4 DEF Look
  <2>2. /\ \A q \in Requests \ {r} : SameRequest(q)
        /\ pc' \in [Requests -> Locations] /\ pc'[r] = "check"
    BY <2>1 DEF Goto, TypeOK, SameRequest, Locations
  <2>3. /\ Len(todo[r]) \in 1..MaxItems /\ req[r] \in Offers
        /\ Item(r).file \in Files \ Codes /\ todo[r] \in Seq(Items)
        /\ Written(r) = FilesOf(Item(r).file) /\ Written(r) \subseteq Files
    BY <1>1, Handling
  <2>4. TypeOK'
    BY <2>1, <2>2, <2>3 DEF TypeOK
  <2>5. Place'
    <3>1. ASSUME NEW q \in Requests \ {r} PROVE Place!(q)'
      BY <2>1, <2>2, <3>1 DEF Place, SameRequest, Busy, Item
    <3>2. Place!(r)'
      BY <1>1, <2>1, <2>2, <2>3 DEF Place, Busy, Item
    <3> QED BY <3>1, <3>2 DEF Place
  <2>6. \A q \in Requests, f \in Files :
          q \in Saving(f)' <=> q \in Saving(f) \/ (q = r /\ f \in Written(r))
    <3> SUFFICES ASSUME NEW q \in Requests, NEW f \in Files
                 PROVE  q \in Saving(f)' <=> q \in Saving(f) \/ (q = r /\ f \in Written(r))
      OBVIOUS
    <3>1. Written(q)' = Written(q)
      BY <2>1 DEF Written
    <3>2. CASE q = r
      BY <1>1, <2>2, <3>1, <3>2 DEF Saving
    <3>3. CASE q # r
      <4>1. pc'[q] = pc[q]
        BY <2>2, <3>3 DEF SameRequest
      <4> QED BY <3>1, <3>3, <4>1 DEF Saving
    <3> QED BY <3>2, <3>3
  <2>7. \A f \in Files \ overlapped' : f \in Written(r) => Saving(f) = {}
    BY <2>1
  <2>8. Alone'
    BY <2>1, <2>6, <2>7 DEF Alone, Saving
  <2>9. Inoded'
    <3>1. ASSUME NEW i \in Inodes, Past(i) PROVE Past(i)'
      BY <1>1, <2>1, <2>2, <3>1 DEF Past, At, SameRequest
    <3>2. \A f \in Files : final[f] \in Inodes \cup {NoFile} /\ temp[f] \in Inodes \cup {NoFile}
      BY DEF TypeOK
    <3> QED BY <2>1, <3>1, <3>2 DEF Inoded, Inode
  <2>10. Own'
    <3>1. ASSUME NEW f \in Files \ overlapped', NEW q \in Saving(f)', pc'[q] = "save"
          PROVE  q \in Saving(f) /\ SameRequest(q) /\ f \in Files \ overlapped
      BY <2>1, <2>2, <2>6, <3>1 DEF Saving
    <3> QED BY <2>1, <3>1 DEF Own, SameRequest, At, RefOf
  <2>11. Checked'
    <3>1. Known' = Known
      BY <2>1 DEF Known, Present
    <3>2. \A q \in Requests : pc'[q] = "save" => pc[q] = "save"
      BY <2>2 DEF SameRequest
    <3> QED BY <2>1, <3>1, <3>2 DEF Checked, Item, At, Present
  <2>12. Loaded' /\ Paired' /\ NextStartAccepts'
    BY <2>1 DEF Loaded, Paired, NextStartAccepts, Known, Present, Content
  <2>13. Absent'
    <3> SUFFICES ASSUME NEW f \in Files \ (overlapped' \cup deleted'), NEW q \in Saving(f)',
                        pc'[q] # "cleanup", ~req'[q].over, pc'[q] = "check" \/ At(q, f)' # "saved"
                 PROVE  ~Present(f)
      BY <2>1 DEF Absent, Present
    <3>1. CASE q \in Saving(f)
      <4>1. q # r
        BY <1>1, <3>1 DEF Saving
      <4> QED BY <2>1, <2>2, <3>1, <4>1 DEF Absent, SameRequest, At, Saving
    <3>2. CASE q = r /\ f \in Written(r)
      <4>1. FALSE \in Exists(Item(r).file)
        <5>1. exists \in BOOLEAN
          BY <2>3, FoundOut
        <5>2. exists = FALSE
          BY <1>4, <2>1, <3>2, <5>1
        <5> QED BY <5>2
      <4> QED BY <2>1, <2>3, <3>2, <4>1, NotFound
    <3> QED BY <2>6, <3>1, <3>2 DEF Saving
  <2> QED BY <2>4, <2>5, <2>8, <2>9, <2>10, <2>11, <2>12, <2>13
<1> QED BY <1>3, <1>4

LEMMA CheckStep ==
  ASSUME IInv, NEW r \in Requests, Check(r)
  PROVE  IInv'
<1> USE DEF IInv
<1>1. Busy(r) /\ pc[r] = "check" /\ steps[r] = <<>> /\ open[r] = NoFile
  BY DEF Check, Busy, Place, TypeOK
<1>2. CASE ~Checks(Item(r))
  BY <1>1, <1>2, GivesUp DEF Check, Item
<1>3. CASE Checks(Item(r))
  <2> DEFINE m == Item(r).file
  <2>1. /\ Goto(r, "save") /\ steps' = [steps EXCEPT ![r] = SavePlan(m)]
        /\ UNCHANGED <<todo, open, up, running, final, temp, data, req, load, overlapped, deleted>>
    BY <1>3 DEF Check, Item
  <2>2. /\ Len(todo[r]) \in 1..MaxItems /\ req[r] \in Offers
        /\ Item(r) \in Items /\ m \in Files \ Codes /\ todo[r] \in Seq(Items)
        /\ Written(r) = FilesOf(m) /\ Written(r) \subseteq Files
    BY <1>1, Handling
  <2>3. /\ SavePlan(m) \in Rest(m) /\ SavePlan(m) \in Seq(FileSteps) /\ SavePlan(m) # <<>>
        /\ \A f \in FilesOf(m) : Stage(SavePlan(m), f) = "open"
    BY <2>2, PlanBegins, PlanFollows DEF Follows
  <2>4. Head(SavePlan(m)).do = "open"
    BY <2>2, <2>3, PlanFollows DEF Follows, Step
  <2>5. /\ \A q \in Requests \ {r} : SameRequest(q)
        /\ pc' \in [Requests -> Locations] /\ pc'[r] = "save"
        /\ steps' \in [Requests -> Seq(FileSteps)] /\ steps'[r] = SavePlan(m)
    BY <2>1, <2>3 DEF Goto, TypeOK, SameRequest, Locations
  <2> HIDE DEF m
  <2>6. Item(r)' = Item(r) /\ \A q \in Requests : Written(q)' = Written(q)
    BY <2>1 DEF Item, Written
  <2>7. TypeOK'
    BY <1>1, <2>1, <2>3, <2>4, <2>5 DEF TypeOK, SameRequest
  <2>8. Place'
    <3>1. ASSUME NEW q \in Requests \ {r} PROVE Place!(q)'
      BY <2>1, <2>5, <3>1 DEF Place, SameRequest, Busy, Item
    <3>2. Place!(r)'
      BY <2>1, <2>2, <2>3, <2>5, <2>6 DEF Place, Busy, Item, m
    <3> QED BY <3>1, <3>2 DEF Place
  <2>9. \A f \in Files : Saving(f)' = Saving(f)
    BY <1>1, <2>5, <2>6 DEF Saving, SameRequest
  <2>10. Alone'
    BY <2>1, <2>9 DEF Alone
  <2>11. Inoded'
    <3>1. ASSUME NEW i \in Inodes, Past(i) PROVE Past(i)'
      BY <1>1, <2>1, <2>5, <3>1 DEF Past, At, SameRequest
    <3>2. \A f \in Files : final[f] \in Inodes \cup {NoFile} /\ temp[f] \in Inodes \cup {NoFile}
      BY DEF TypeOK
    <3>3. \A q \in Requests : open'[q] # NoFile => SameRequest(q)
      BY <1>1, <2>1, <2>5
    <3> QED BY <2>1, <3>1, <3>2, <3>3 DEF Inoded, Inode, SameRequest
  <2>12. \A f \in Written(r) : At(r, f)' = "open"
    BY <2>2, <2>3, <2>5 DEF At
  <2>13. Own'
    <3> SUFFICES ASSUME NEW f \in Files \ overlapped, NEW q \in Saving(f), pc'[q] = "save"
                 PROVE  /\ At(q, f)' = "write" =>
                             open'[q] = temp'[f] /\ temp'[f] # NoFile /\ data'[temp'[f]] = Empty
                        /\ At(q, f)' = "rename" =>
                             temp'[f] # NoFile /\ data'[temp'[f]] = RefOf(q, f)'
      BY <2>1, <2>9 DEF Own
    <3>1. CASE q = r
      BY <2>12, <3>1 DEF Saving
    <3>2. CASE q # r
      BY <2>1, <2>5, <3>2 DEF Own, SameRequest, At, RefOf, Saving
    <3> QED BY <3>1, <3>2
  <2>14. Known' = Known
    BY <2>1 DEF Known, Present
  <2>15. Checked'
    <3>1. ASSUME NEW q \in Requests \ {r} PROVE Checked!(q)'
      BY <2>1, <2>5, <2>14, <3>1 DEF Checked, SameRequest, Item, At, Present
    <3>2. m \in Configs => Item(r).ref = Tool(m) /\ Stage(steps'[r], Tool(m)) = "open"
      <4>1. m \in Configs => Item(r).ref = Tool(m)
        BY <1>3, KindAssumption DEF Checks, ToolChecks, m
      <4>2. m \in Configs => Tool(m) \in Written(r)
        BY <2>2 DEF FilesOf
      <4> QED BY <2>12, <4>1, <4>2 DEF At
    <3>3. m \notin Configs => Item(r).ref \in Known
      BY <1>3, <2>2 DEF Checks, ProviderChecks, AgentChecks, KnownProviders, Known, Loaded, m, Files
    <3>4. Checked!(r)'
      BY <2>6, <2>14, <3>2, <3>3 DEF Checked, m, At
    <3> QED BY <3>1, <3>4 DEF Checked
  <2>16. Loaded' /\ Paired' /\ NextStartAccepts'
    BY <2>1 DEF Loaded, Paired, NextStartAccepts, Known, Present, Content
  <2>17. Absent'
    <3> SUFFICES ASSUME NEW f \in Files \ (overlapped \cup deleted), NEW q \in Saving(f),
                        pc'[q] # "cleanup", ~req'[q].over, pc'[q] = "check" \/ At(q, f)' # "saved"
                 PROVE  ~Present(f)
      BY <2>1, <2>9 DEF Absent, Present
    <3>1. CASE q = r
      BY <1>1, <2>1, <3>1 DEF Absent
    <3>2. CASE q # r
      BY <2>1, <2>5, <3>2 DEF Absent, SameRequest, At, Saving
    <3> QED BY <3>1, <3>2
  <2> QED BY <2>7, <2>8, <2>10, <2>11, <2>13, <2>15, <2>16, <2>17
<1> QED BY <1>2, <1>3

-----------------------------------------------------------------------------
(* Writing and renaming                                                    *)

\* After a file is opened it is written, and nothing else is.
LEMMA PlanMoves ==
  ASSUME NEW m \in Files \ Codes, NEW s \in Rest(m), Len(s) # 1
  PROVE  /\ Tail(s) \in Rest(m) /\ Tail(s) # <<>> /\ Tail(s) \in Seq(FileSteps)
         /\ Head(Tail(s)).do = "write" <=> Head(s).do = "open"
         /\ Head(s).do = "open" => Head(Tail(s)).file = Head(s).file
<1> DEFINE h == Head(s)
           t == Tail(s)
           k == Head(t)
<1>1. Follows(s, m) /\ t \in Rest(m)
  BY PlanFollows DEF Follows
<1>2. Follows(t, m)
  BY <1>1, PlanFollows
<1>3. /\ h.file \in FilesOf(m) /\ h = Step(Stage(s, h.file), h.file)
      /\ \A f \in FilesOf(m) :
           /\ Stage(t, f) = IF f # h.file THEN Stage(s, f)
                            ELSE IF h.do = "open" THEN "write"
                            ELSE IF h.do = "write" THEN "rename" ELSE "saved"
           /\ Stage(s, f) = "write" => h = Step("write", f)
  BY <1>1 DEF Follows
<1>4. /\ t # <<>> /\ t \in Seq(FileSteps) /\ k.file \in FilesOf(m)
      /\ k = Step(Stage(t, k.file), k.file)
      /\ \A f \in FilesOf(m) : Stage(t, f) = "write" => k = Step("write", f)
  BY <1>2 DEF Follows
<1> HIDE DEF h, t, k
<1>5. h.do = "open" => k = Step("write", h.file)
  BY <1>3, <1>4
<1>6. ASSUME k.do = "write" PROVE h.do = "open"
  <2>1. Stage(t, k.file) = "write"
    BY <1>4, <1>6 DEF Step
  <2>2. k.file # h.file => h = Step("write", k.file)
    BY <1>3, <1>4, <2>1
  <2> QED BY <1>3, <1>4, <2>1, <2>2 DEF Step
<1> QED BY <1>1, <1>4, <1>5, <1>6 DEF h, t, k, Step

\* What a request that saves has before it.
LEMMA Saver ==
  ASSUME IInv, NEW r \in Requests, pc[r] = "save"
  PROVE  \E m \in Files \ Codes, f \in Files :
           /\ m = Item(r).file /\ f = Head(steps[r]).file /\ f \in FilesOf(m)
           /\ Busy(r) /\ Item(r) \in Items /\ Len(todo[r]) \in 1..MaxItems
           /\ Written(r) = FilesOf(m) /\ Written(r) \subseteq Files
           /\ steps[r] \in Rest(m) /\ Follows(steps[r], m)
           /\ r \in Saving(f)
<1> USE DEF IInv
<1>1. Busy(r)
  BY DEF Busy
<1>2. /\ Item(r).file \in Files \ Codes /\ Item(r) \in Items /\ Len(todo[r]) \in 1..MaxItems
      /\ Written(r) = FilesOf(Item(r).file) /\ Written(r) \subseteq Files
  BY <1>1, Handling
<1>3. steps[r] \in Rest(Item(r).file)
  BY DEF Place
<1>4. Follows(steps[r], Item(r).file)
  BY <1>2, <1>3, PlanFollows
<1>5. Head(steps[r]).file \in FilesOf(Item(r).file)
  BY <1>4 DEF Follows
<1> QED BY <1>1, <1>2, <1>3, <1>4, <1>5 DEF Saving

\* The next operation of the same save.
LEMMA Advance ==
  ASSUME IInv, NEW r \in Requests, pc[r] = "save", NEW m \in Files \ Codes, m = Item(r).file,
         Len(steps[r]) # 1, steps' = [steps EXCEPT ![r] = Tail(@)],
         UNCHANGED <<pc, req, todo, deleted>>
  PROVE  /\ steps' \in [Requests -> Seq(FileSteps)] /\ steps'[r] # <<>>
         /\ Head(steps'[r]).do = "write" <=> Head(steps[r]).do = "open"
         /\ Head(steps[r]).do = "open" => Head(steps'[r]).file = Head(steps[r]).file
         /\ \A q \in Requests \ {r} : steps'[q] = steps[q]
         /\ Place'
         /\ \A q \in Requests : Written(q)' = Written(q) /\ Item(q)' = Item(q)
         /\ \A g \in Files : Saving(g)' = Saving(g)
         /\ \A i \in Inodes : Past(i) => Past(i)'
         /\ \A g \in Written(r) :
              Stage(steps'[r], g) = IF g # Head(steps[r]).file THEN Stage(steps[r], g)
                                    ELSE IF Head(steps[r]).do = "open" THEN "write"
                                    ELSE IF Head(steps[r]).do = "write" THEN "rename" ELSE "saved"
<1> USE DEF IInv
<1>1. /\ steps[r] \in Rest(m) /\ Follows(steps[r], m) /\ Written(r) = FilesOf(m)
      /\ Written(r) \subseteq Files
  BY Saver
<1>2. steps'[r] = Tail(steps[r]) /\ \A q \in Requests \ {r} : steps'[q] = steps[q]
  BY DEF TypeOK
<1>3. /\ steps'[r] \in Rest(m) /\ steps'[r] # <<>> /\ steps'[r] \in Seq(FileSteps)
      /\ Head(steps'[r]).do = "write" <=> Head(steps[r]).do = "open"
      /\ Head(steps[r]).do = "open" => Head(steps'[r]).file = Head(steps[r]).file
  <2>1. /\ Tail(steps[r]) \in Rest(m) /\ Tail(steps[r]) # <<>>
        /\ Tail(steps[r]) \in Seq(FileSteps)
        /\ Head(Tail(steps[r])).do = "write" <=> Head(steps[r]).do = "open"
        /\ Head(steps[r]).do = "open" => Head(Tail(steps[r])).file = Head(steps[r]).file
    BY <1>1, PlanMoves
  <2> QED BY <1>2, <2>1
<1>4. steps' \in [Requests -> Seq(FileSteps)]
  BY <1>2, <1>3 DEF TypeOK
<1>5. \A q \in Requests : Written(q)' = Written(q) /\ Item(q)' = Item(q)
  BY DEF Written, Item
<1>6. Place'
  <2>1. ASSUME NEW q \in Requests \ {r} PROVE Place!(q)'
    BY <1>2, <2>1 DEF Place, Busy, Item
  <2>2. Place!(r)'
    BY <1>3, <1>5 DEF Place, Busy
  <2> QED BY <2>1, <2>2 DEF Place
<1>7. \A g \in Files : Saving(g)' = Saving(g)
  BY <1>5 DEF Saving
<1>8. \A g \in Written(r) :
        Stage(steps'[r], g) = IF g # Head(steps[r]).file THEN Stage(steps[r], g)
                              ELSE IF Head(steps[r]).do = "open" THEN "write"
                              ELSE IF Head(steps[r]).do = "write" THEN "rename" ELSE "saved"
  BY <1>1, <1>2 DEF Follows
<1>9. ASSUME NEW i \in Inodes, Past(i) PROVE Past(i)'
  <2>1. Stage(steps[r], i[2]) # "open" => Stage(steps'[r], i[2]) # "open"
    <3>1. \A n \in DOMAIN Tail(steps[r]) :
            n + 1 \in DOMAIN steps[r] /\ Tail(steps[r])[n] = steps[r][n + 1]
      BY <1>1 DEF Follows
    <3> QED BY <1>2, <3>1 DEF Stage, Left
  <2> QED BY <1>2, <1>9, <2>1 DEF Past, At
<1> QED BY <1>2, <1>3, <1>4, <1>5, <1>6, <1>7, <1>8, <1>9

\* A step that opens or writes the .tmp of f, which is inode i.
LEMMA Writing ==
  ASSUME IInv, NEW r \in Requests, pc[r] = "save", NEW m \in Files \ Codes, m = Item(r).file,
         NEW f, f = Head(steps[r]).file, NEW do \in {"open", "write"}, do = Head(steps[r]).do,
         steps' = [steps EXCEPT ![r] = Tail(@)],
         UNCHANGED <<up, running, final, req, pc, todo, load, overlapped, deleted>>,
         NEW i \in Inodes, i[2] = f,
         temp' = temp \/ (temp' = [temp EXCEPT ![f] = i] /\ Past(i)' /\ i # final[f]),
         f \notin overlapped => temp'[f] = i /\ i # final[f],
         open' = [open EXCEPT ![r] = IF do = "open" THEN i ELSE NoFile],
         NEW d \in Docs \cup {Empty, Mixed}, data' = [data EXCEPT ![i] = d],
         f \notin overlapped => d = IF do = "open" THEN Empty ELSE RefOf(r, f)
  PROVE  IInv'
<1> USE DEF IInv
<1>1. /\ f \in Written(r) /\ f \in Files /\ r \in Saving(f) /\ Follows(steps[r], m)
      /\ Written(r) = FilesOf(m) /\ Written(r) \subseteq Files
  BY Saver
<1>2. Head(steps[r]) = Step(do, f) /\ do = Stage(steps[r], f) /\ Len(steps[r]) # 1
  BY <1>1 DEF Follows, Step
<1>3. /\ steps' \in [Requests -> Seq(FileSteps)] /\ steps'[r] # <<>>
      /\ Head(steps'[r]).do = "write" <=> do = "open"
      /\ do = "open" => Head(steps'[r]).file = f
      /\ \A q \in Requests \ {r} : steps'[q] = steps[q]
      /\ Place'
      /\ \A q \in Requests : Written(q)' = Written(q) /\ Item(q)' = Item(q)
      /\ \A g \in Files : Saving(g)' = Saving(g)
      /\ \A j \in Inodes : Past(j) => Past(j)'
      /\ \A g \in Written(r) :
           Stage(steps'[r], g) = IF g # f THEN Stage(steps[r], g)
                                 ELSE IF do = "open" THEN "write" ELSE "rename"
  BY <1>2, Advance
<1>4. /\ \A q \in Requests \ {r} : open'[q] = open[q]
      /\ open'[r] = IF do = "open" THEN i ELSE NoFile
      /\ open' \in [Requests -> Inodes \cup {NoFile}]
  BY DEF TypeOK
<1>5. /\ \A j \in Inodes \ {i} : data'[j] = data[j]
      /\ data'[i] = d /\ data' \in [Inodes -> Docs \cup {Empty, Mixed}]
  BY DEF TypeOK
<1>6. /\ \A g \in Files \ {f} : temp'[g] = temp[g]
      /\ temp'[f] \in {temp[f], i} /\ temp' \in [Files -> Inodes \cup {NoFile}]
  BY <1>1 DEF TypeOK
<1>7. \A g \in Files : /\ final[g] \in Inodes \cup {NoFile} /\ temp[g] \in Inodes \cup {NoFile}
                       /\ final[g] # NoFile => final[g][2] = g
                       /\ temp[g] # NoFile => temp[g][2] = g
  BY DEF TypeOK, Inoded, Inode
<1>8. i # NoFile
  BY InodesExist
<1>9. \A g \in Files \ overlapped : final[g] # NoFile => data'[final[g]] = data[final[g]]
  BY <1>5, <1>7
<1>10. \A g \in Files \ {f} : temp[g] # NoFile => data'[temp[g]] = data[temp[g]]
  BY <1>5, <1>7
<1>11. TypeOK'
  BY <1>3, <1>4, <1>5, <1>6, <1>8 DEF TypeOK
<1>12. Alone'
  BY <1>3 DEF Alone
<1>13. Inoded'
  <2>1. \A g \in Files : Inode(g, final[g])'
    BY <1>3, <1>7 DEF Inoded, Inode
  <2>2. \A g \in Files : Inode(g, temp[g])' /\ (temp'[g] # NoFile => temp'[g] # final'[g])
    BY <1>1, <1>3, <1>6, <1>7 DEF Inoded, Inode
  <2>3. \A q \in Requests : open'[q] # NoFile => open'[q][2] = Head(steps'[q]).file
    BY <1>3, <1>4 DEF Inoded
  <2> QED BY <2>1, <2>2, <2>3 DEF Inoded
<1>14. Own'
  <2> SUFFICES ASSUME NEW g \in Files \ overlapped, NEW q \in Saving(g), pc[q] = "save"
               PROVE  /\ Stage(steps'[q], g) = "write" =>
                           open'[q] = temp'[g] /\ temp'[g] # NoFile /\ data'[temp'[g]] = Empty
                      /\ Stage(steps'[q], g) = "rename" =>
                           temp'[g] # NoFile /\ data'[temp'[g]] = RefOf(q, g)'
    BY <1>3 DEF Own, At
  <2>1. RefOf(q, g)' = RefOf(q, g) /\ g \in Written(q) /\ q \in Requests
    BY DEF RefOf, Saving
  <2>2. CASE g = f
    <3>1. q = r /\ temp'[f] = i
      BY <1>1, <2>2 DEF Alone
    <3> QED BY <1>2, <1>3, <1>4, <1>5, <1>8, <2>1, <2>2, <3>1
  <2>3. CASE g # f
    <3>1. Stage(steps[q], g) = "write" => q # r
      <4>1. \A k \in FilesOf(m) : Stage(steps[r], k) = "write" => Step(do, f) = Step("write", k)
        BY <1>1, <1>2 DEF Follows
      <4> QED BY <1>1, <2>1, <2>3, <4>1 DEF Step
    <3>2. Stage(steps'[q], g) = Stage(steps[q], g)
      BY <1>3, <2>1, <2>3
    <3> QED BY <1>4, <1>6, <1>10, <2>1, <2>3, <3>1, <3>2 DEF Own, At
  <2> QED BY <2>2, <2>3
<1>15. Known' = Known
  BY DEF Known, Present
<1>16. Checked'
  <2>1. ASSUME NEW q \in Requests \ {r} PROVE Checked!(q)'
    BY <1>3, <1>15, <2>1 DEF Checked, At, Present
  <2>2. m \in Configs => (Stage(steps'[r], Tool(m)) = "saved" => Stage(steps[r], Tool(m)) = "saved")
    BY <1>1, <1>3 DEF FilesOf
  <2>3. Checked!(r)'
    BY <1>3, <1>15, <2>2 DEF Checked, At, Present
  <2> QED BY <2>1, <2>3 DEF Checked
<1>17. Loaded' /\ Paired'
  BY <1>15 DEF Loaded, Paired, Present
<1>18. NextStartAccepts'
  BY <1>9 DEF NextStartAccepts, Present, Content
<1>19. Absent'
  <2> SUFFICES ASSUME NEW g \in Files \ (overlapped \cup deleted), NEW q \in Saving(g),
                      pc[q] # "cleanup", ~req[q].over,
                      pc[q] = "check" \/ Stage(steps'[q], g) # "saved"
               PROVE  ~Present(g)
    BY <1>3 DEF Absent, Present, At
  <2>1. q \in Requests /\ g \in Written(q)
    BY DEF Saving
  <2>2. Stage(steps[q], g) = "saved" => Stage(steps'[q], g) = "saved"
    BY <1>2, <1>3, <2>1
  <2> QED BY <2>2 DEF Absent, At
<1> QED BY <1>3, <1>11, <1>12, <1>13, <1>14, <1>16, <1>17, <1>18, <1>19

LEMMA OpenTempStep ==
  ASSUME IInv, NEW r \in Requests, OpenTemp(r)
  PROVE  IInv'
<1> USE DEF IInv
<1> DEFINE i == IF temp[Head(steps[r]).file] = NoFile
                THEN <<r, Head(steps[r]).file, Len(todo[r])>> ELSE temp[Head(steps[r]).file]
<1>1. pc[r] = "save"
  BY DEF OpenTemp
<1>2. PICK m \in Files \ Codes, f \in Files :
        /\ m = Item(r).file /\ f = Head(steps[r]).file /\ f \in FilesOf(m) /\ f \in Written(r)
        /\ Len(todo[r]) \in 1..MaxItems /\ Follows(steps[r], m) /\ Busy(r)
  BY <1>1, Saver
<1>3. Head(steps[r]).do = "open" /\ Stage(steps[r], f) = "open" /\ Len(steps[r]) # 1
  BY <1>2 DEF OpenTemp, Follows, Step
<1>4. i \in Inodes /\ i[2] = f
  BY <1>2 DEF Inodes, TypeOK, Inoded, Inode
<1>5. i # final[f]
  <2>1. CASE temp[f] = NoFile
    <3>1. i = <<r, f, Len(todo[r])>>
      BY <1>2, <2>1
    <3>2. ~Past(i)
      BY <1>2, <1>3, <3>1 DEF Past, At
    <3>3. i # NoFile
      BY <1>4, InodesExist
    <3> QED BY <1>2, <3>2, <3>3 DEF Inoded, Inode
  <2>2. CASE temp[f] # NoFile
    BY <1>2, <2>2 DEF Inoded
  <2> QED BY <2>1, <2>2
<1>6. \A k \in Inodes : k = i => Past(k)'
  <2>1. /\ pc'[r] = "save" /\ todo'[r] = todo[r] /\ Stage(steps'[r], f) = "write"
        /\ \A k \in Inodes : Past(k) => Past(k)'
    BY <1>1, <1>2, <1>3, Advance DEF OpenTemp
  <2>2. CASE temp[f] = NoFile
    BY <1>2, <2>1, <2>2 DEF Past, At
  <2>3. CASE temp[f] # NoFile
    BY <1>2, <2>1, <2>3 DEF Inoded, Inode, TypeOK
  <2> QED BY <2>2, <2>3
<1>7. /\ temp' = [temp EXCEPT ![f] = i] /\ data' = [data EXCEPT ![i] = Empty]
      /\ open' = [open EXCEPT ![r] = i] /\ steps' = [steps EXCEPT ![r] = Tail(@)]
  BY <1>2 DEF OpenTemp
<1>8. temp'[f] = i
  BY <1>2, <1>7 DEF TypeOK
<1> HIDE DEF i
<1>9. PICK k \in Inodes : k = i
  BY <1>4
<1>10. Past(k)'
  BY <1>6, <1>9
<1>11. /\ k[2] = f /\ k # final[f] /\ temp'[f] = k
       /\ temp' = [temp EXCEPT ![f] = k] /\ data' = [data EXCEPT ![k] = Empty]
       /\ open' = [open EXCEPT ![r] = k] /\ steps' = [steps EXCEPT ![r] = Tail(@)]
       /\ UNCHANGED <<up, running, final, req, pc, todo, load, overlapped, deleted>>
  BY <1>4, <1>5, <1>7, <1>8, <1>9 DEF OpenTemp
<1> HIDE DEF IInv
<1> QED BY <1>1, <1>2, <1>3, <1>10, <1>11, Writing

LEMMA WriteTempStep ==
  ASSUME IInv, NEW r \in Requests, WriteTemp(r)
  PROVE  IInv'
<1> USE DEF IInv
<1>1. pc[r] = "save" /\ Head(steps[r]).do = "write"
  BY DEF WriteTemp
<1>2. PICK m \in Files \ Codes, f \in Files :
        /\ m = Item(r).file /\ f = Head(steps[r]).file /\ f \in FilesOf(m)
        /\ Item(r) \in Items /\ Follows(steps[r], m) /\ r \in Saving(f)
  BY <1>1, Saver
<1>3. Stage(steps[r], f) = "write" /\ steps[r] # <<>>
  BY <1>1, <1>2 DEF Follows, Step
<1>4. PICK i \in Inodes : i = open[r] /\ i[2] = f
  BY <1>1, <1>2, <1>3 DEF TypeOK, Inoded
<1>5. f \notin overlapped =>
        temp[f] = i /\ i # final[f] /\ temp[f] # NoFile /\ data[i] = Empty
  BY <1>1, <1>2, <1>3, <1>4 DEF Own, At, Inoded
<1>6. RefOf(r, f) \in Docs
  BY <1>2 DEF RefOf, Docs, Items, Item
<1>7. PICK d \in Docs \cup {Empty, Mixed} :
        /\ data' = [data EXCEPT ![i] = d]
        /\ data[i] = Empty => d = RefOf(r, f)
  BY <1>2, <1>4, <1>6 DEF WriteTemp
<1>8. /\ open' = [open EXCEPT ![r] = NoFile] /\ steps' = [steps EXCEPT ![r] = Tail(@)]
      /\ UNCHANGED <<up, running, final, temp, req, pc, todo, load, overlapped, deleted>>
  BY DEF WriteTemp
<1> QED BY <1>1, <1>2, <1>4, <1>5, <1>7, <1>8, Writing

\* A rename that succeeds, whether the save goes on or is over.
LEMMA Renaming ==
  ASSUME IInv, NEW r \in Requests, pc[r] = "save", NEW m \in Files \ Codes, m = Item(r).file,
         NEW f \in Files, Head(steps[r]) = Step("rename", f), temp[f] # NoFile,
         final' = [final EXCEPT ![f] = temp[f]], temp' = [temp EXCEPT ![f] = NoFile],
         UNCHANGED <<up, running, data, req, load, overlapped, deleted>>,
         \A q \in Requests \ {r} : SameRequest(q),
         pc' \in [Requests -> Locations], todo' \in [Requests -> Seq(Items)],
         steps' \in [Requests -> Seq(FileSteps)], open' \in [Requests -> Inodes \cup {NoFile}],
         open'[r] = NoFile, steps'[r] # <<>> => Head(steps'[r]).do # "write",
         Place', \A i \in Inodes : Past(i) => Past(i)',
         pc'[r] \notin {"check", "cleanup"},
         pc'[r] = "save" =>
           /\ todo'[r] = todo[r]
           /\ \A g \in Written(r) :
                Stage(steps'[r], g) = IF g = f THEN "saved" ELSE Stage(steps[r], g)
  PROVE  IInv'
<1> USE DEF IInv
<1>1. /\ f \in Written(r) /\ r \in Saving(f) /\ Follows(steps[r], m) /\ Item(r) \in Items
      /\ Written(r) = FilesOf(m) /\ Written(r) \subseteq Files /\ f \in FilesOf(m)
  BY Saver DEF Step
<1>2. /\ Stage(steps[r], f) = "rename"
      /\ m \in Configs /\ f = m => Stage(steps[r], Tool(m)) = "saved"
  BY <1>1 DEF Follows, Step
<1>3. /\ \A g \in Files \ {f} : final'[g] = final[g] /\ temp'[g] = temp[g]
      /\ final'[f] = temp[f] /\ temp'[f] = NoFile
      /\ final' \in [Files -> Inodes \cup {NoFile}] /\ temp' \in [Files -> Inodes \cup {NoFile}]
  BY DEF TypeOK
<1>4. \A g \in Files : Present(g) => Present(g)'
  BY <1>3 DEF Present
<1>5. Known \subseteq Known' /\ Present(f)'
  BY <1>3, <1>4 DEF Known, Present
<1>6. ASSUME NEW g \in Files, NEW q \in Saving(g)'
      PROVE  /\ q \in Saving(g) /\ todo'[q] = todo[q] /\ RefOf(q, g)' = RefOf(q, g)
             /\ q = r => pc'[q] = "save"
  <2>1. q \in Requests /\ pc'[q] \in {"check", "save", "cleanup"} /\ g \in Written(q)'
    BY DEF Saving
  <2>2. todo'[q] = todo[q] /\ pc[q] \in {"check", "save", "cleanup"} /\ (q = r => pc'[q] = "save")
    BY <2>1 DEF SameRequest
  <2> QED BY <2>1, <2>2 DEF Saving, Written, RefOf
<1>7. TypeOK'
  <2>1. ASSUME NEW q \in Requests
        PROVE  (open'[q] # NoFile) = (steps'[q] # <<>> /\ Head(steps'[q]).do = "write")
    <3>1. CASE q = r
      BY <3>1
    <3>2. CASE q # r
      BY <3>2 DEF TypeOK, SameRequest
    <3> QED BY <3>1, <3>2
  <2> QED BY <1>3, <2>1 DEF TypeOK
<1>8. Alone'
  BY <1>6 DEF Alone
<1>9. Inoded'
  <2>1. \A g \in Files : Inode(g, final[g])' /\ Inode(g, temp[g])'
    BY <1>3 DEF TypeOK, Inoded, Inode
  <2>2. \A g \in Files : temp'[g] # NoFile => temp'[g] # final'[g]
    BY <1>3 DEF Inoded
  <2>3. ASSUME NEW q \in Requests, open'[q] # NoFile PROVE open'[q][2] = Head(steps'[q]).file
    <3>1. open'[q] = open[q] /\ steps'[q] = steps[q]
      BY <2>3 DEF SameRequest
    <3> QED BY <2>3, <3>1 DEF Inoded
  <2> QED BY <2>1, <2>2, <2>3 DEF Inoded
<1>10. Own'
  <2> SUFFICES ASSUME NEW g \in Files \ overlapped, NEW q \in Saving(g)', pc'[q] = "save"
               PROVE  /\ Stage(steps'[q], g) = "write" =>
                           open'[q] = temp'[g] /\ temp'[g] # NoFile /\ data[temp'[g]] = Empty
                      /\ Stage(steps'[q], g) = "rename" =>
                           temp'[g] # NoFile /\ data[temp'[g]] = RefOf(q, g)'
    BY DEF Own, At
  <2>1. q \in Saving(g) /\ RefOf(q, g)' = RefOf(q, g) /\ g \in Written(q) /\ q \in Requests
    BY <1>6 DEF Saving
  <2>2. CASE q # r
    <3>1. g # f /\ SameRequest(q)
      BY <1>1, <2>1, <2>2 DEF Alone
    <3> QED BY <1>3, <2>1, <3>1 DEF Own, SameRequest, At
  <2>3. CASE q = r /\ g = f
    BY <2>1, <2>3
  <2>4. CASE q = r /\ g # f
    <3>1. Stage(steps'[q], g) = Stage(steps[q], g)
      BY <2>1, <2>4
    <3>2. Stage(steps[q], g) # "write"
      <4>1. \A k \in FilesOf(m) :
              Stage(steps[r], k) = "write" => Step("rename", f) = Step("write", k)
        BY <1>1 DEF Follows
      <4> QED BY <1>1, <2>1, <2>4, <4>1 DEF Step
    <3> QED BY <1>3, <2>1, <2>4, <3>1, <3>2 DEF Own, At
  <2> QED BY <2>2, <2>3, <2>4
<1>11. Loaded' /\ Absent'
  <2>1. Loaded'
    BY <1>5 DEF Loaded
  <2>2. Absent'
    <3> SUFFICES ASSUME NEW g \in Files \ (overlapped \cup deleted), NEW q \in Saving(g)',
                        pc'[q] # "cleanup", ~req[q].over,
                        pc'[q] = "check" \/ Stage(steps'[q], g) # "saved"
                 PROVE  ~Present(g)'
      BY DEF Absent, At
    <3>1. q \in Saving(g) /\ q \in Requests /\ g \in Written(q)
      BY <1>6 DEF Saving
    <3>2. CASE q # r
      <4>1. g # f /\ SameRequest(q)
        BY <1>1, <3>1, <3>2 DEF Alone
      <4> QED BY <1>3, <3>1, <4>1 DEF Absent, SameRequest, At, Present
    <3>3. CASE q = r
      <4>1. pc'[r] = "save"
        BY <1>6, <3>3
      <4>2. g # f /\ Stage(steps[r], g) # "saved"
        BY <3>1, <3>3, <4>1
      <4> QED BY <1>3, <3>1, <3>3, <4>2 DEF Absent, At, Present
    <3> QED BY <3>2, <3>3
  <2> QED BY <2>1, <2>2
<1>12. Checked'
  <2>1. ASSUME NEW q \in Requests \ {r} PROVE Checked!(q)'
    <3>1. SameRequest(q)
      OBVIOUS
    <3>2. Item(q)' = Item(q)
      BY <3>1 DEF Item, SameRequest
    <3>3. Item(q).file \in Configs => Tool(Item(q).file) \in Files
      BY KindAssumption DEF Files
    <3> QED BY <1>4, <1>5, <3>1, <3>2, <3>3 DEF Checked, SameRequest, At
  <2>2. ASSUME pc'[r] = "save" PROVE Checked!(r)'
    <3>1. Item(r)' = Item(r)
      BY <2>2 DEF Item
    <3>2. CASE m \in Configs
      <4>1. Tool(m) \in Written(r) /\ Tool(m) \in Files
        BY <1>1, <3>2 DEF FilesOf
      <4>2. Stage(steps'[r], Tool(m)) = "saved" =>
              Present(Tool(m))' \/ FilesOf(m) \subseteq deleted
        BY <1>4, <1>5, <2>2, <3>2, <4>1 DEF Checked, At
      <4> QED BY <3>1, <3>2, <4>2 DEF Checked, At
    <3>3. CASE m \notin Configs
      BY <1>5, <3>1, <3>3 DEF Checked
    <3> QED BY <3>2, <3>3
  <2> QED BY <2>1, <2>2 DEF Checked
<1>13. Paired'
  <2> SUFFICES ASSUME NEW c \in Configs \ (overlapped \cup deleted), Present(c)'
               PROVE  Present(Tool(c))'
    BY DEF Paired
  <2>1. Tool(c) \in Files /\ c \in Files
    BY KindAssumption DEF Files
  <2>2. CASE c = f
    <3>1. c = m
      BY <1>1, <2>2, KindAssumption DEF FilesOf
    <3>2. Present(Tool(m)) \/ FilesOf(m) \subseteq deleted
      BY <1>2, <2>2, <3>1 DEF Checked, At
    <3> QED BY <1>1, <1>4, <2>1, <2>2, <3>1, <3>2
  <2>3. CASE c # f
    BY <1>3, <1>4, <2>1, <2>3 DEF Paired, Present
  <2> QED BY <2>2, <2>3
<1>14. NextStartAccepts'
  <2> SUFFICES ASSUME NEW g \in Files \ overlapped, Present(g)'
               PROVE  Content(g)' \in Docs /\ Content(g)' \in Known'
    BY DEF NextStartAccepts, Known
  <2>1. CASE g # f
    BY <1>3, <1>5, <2>1 DEF NextStartAccepts, Known, Present, Content
  <2>2. CASE g = f
    <3>1. Content(g)' = RefOf(r, f)
      BY <1>1, <1>2, <1>3, <2>2 DEF Own, At, Content
    <3>2. RefOf(r, f) \in Docs
      BY <1>1 DEF RefOf, Docs, Items, Item
    <3>3. RefOf(r, f) \in Known'
      <4>1. CASE f \in Codes
        BY <4>1 DEF RefOf, Known
      <4>2. CASE f \notin Codes
        <5>1. f = m /\ RefOf(r, f) = Item(r).ref
          BY <1>1, <4>2, KindAssumption DEF FilesOf, RefOf, Item
        <5>2. CASE m \in Configs
          <6>1. /\ Item(r).ref = Tool(m) /\ Tool(m) \in Files
                /\ Present(Tool(m)) \/ FilesOf(m) \subseteq deleted
            BY <1>2, <5>1, <5>2, KindAssumption DEF Checked, At, Files
          <6>2. Tool(m) \in Known
            BY <5>2, <6>1 DEF Known, FilesOf
          <6> QED BY <1>5, <5>1, <6>1, <6>2
        <5>3. CASE m \notin Configs
          BY <1>5, <5>1, <5>3 DEF Checked
        <5> QED BY <5>2, <5>3
      <4> QED BY <4>1, <4>2
    <3> QED BY <3>1, <3>2, <3>3
  <2> QED BY <2>1, <2>2
<1> QED BY <1>7, <1>8, <1>9, <1>10, <1>11, <1>12, <1>13, <1>14

LEMMA RenameStep ==
  ASSUME IInv, NEW r \in Requests, Rename(r)
  PROVE  IInv'
<1> USE DEF IInv
<1>1. pc[r] = "save" /\ Head(steps[r]).do = "rename" /\ Busy(r)
  BY DEF Rename, Busy
<1>2. PICK m \in Files \ Codes, f \in Files :
        /\ m = Item(r).file /\ f = Head(steps[r]).file /\ f \in FilesOf(m)
        /\ Written(r) = FilesOf(m) /\ Follows(steps[r], m) /\ steps[r] \in Rest(m)
  BY <1>1, Saver
<1>3. Head(steps[r]) = Step("rename", f) /\ Stage(steps[r], f) = "rename"
  BY <1>1, <1>2 DEF Follows, Step
<1>4. open[r] = NoFile
  BY <1>1 DEF TypeOK
<1>5. CASE temp[f] = NoFile
  <2>1. Goto(r, "cleanup") /\ UNCHANGED <<up, running, final, temp, data, req, todo, steps, open,
                                          load, overlapped, deleted>>
    BY <1>2, <1>5 DEF Rename
  <2>2. /\ \A q \in Requests \ {r} : SameRequest(q)
        /\ pc' \in [Requests -> Locations] /\ pc'[r] = "cleanup"
    BY <2>1 DEF Goto, TypeOK, SameRequest, Locations
  <2>3. TypeOK'
    BY <2>1, <2>2 DEF TypeOK
  <2>4. Place'
    <3>1. ASSUME NEW q \in Requests \ {r} PROVE Place!(q)'
      BY <2>1, <2>2, <3>1 DEF Place, SameRequest, Busy, Item
    <3>2. Place!(r)'
      BY <1>1, <2>1, <2>2 DEF Place, Busy, Item
    <3> QED BY <3>1, <3>2 DEF Place
  <2>5. \A g \in Files : Saving(g)' = Saving(g)
    <3>1. \A q \in Requests : Written(q)' = Written(q)
      BY <2>1 DEF Written
    <3> QED BY <1>1, <2>2, <3>1 DEF Saving, SameRequest
  <2>6. /\ \A q \in Requests : pc'[q] # "cleanup" => pc'[q] = pc[q]
        /\ \A g \in Files : Saving(g) \subseteq Requests
    BY <2>2 DEF SameRequest, Saving
  <2>7. Alone'
    BY <2>1, <2>5 DEF Alone
  <2>8. Inoded'
    <3>1. ASSUME NEW i \in Inodes, Past(i) PROVE Past(i)'
      BY <1>1, <2>1, <2>2, <3>1 DEF Past, At, SameRequest
    <3>2. \A g \in Files : final[g] \in Inodes \cup {NoFile} /\ temp[g] \in Inodes \cup {NoFile}
      BY DEF TypeOK
    <3> QED BY <2>1, <3>1, <3>2 DEF Inoded, Inode
  <2>9. Own'
    BY <2>1, <2>5, <2>6 DEF Own, At, RefOf
  <2>10. Known' = Known
    BY <2>1 DEF Known, Present
  <2>11. Checked'
    BY <2>1, <2>6, <2>10 DEF Checked, At, Item, Present
  <2>12. Loaded' /\ Paired' /\ NextStartAccepts'
    BY <2>1, <2>10 DEF Loaded, Paired, NextStartAccepts, Present, Content
  <2>13. Absent'
    BY <2>1, <2>5, <2>6 DEF Absent, At, Present
  <2> QED BY <2>3, <2>4, <2>7, <2>8, <2>9, <2>11, <2>12, <2>13
<1>6. CASE temp[f] # NoFile /\ Len(steps[r]) = 1
  <2>1. /\ final' = [final EXCEPT ![f] = temp[f]] /\ temp' = [temp EXCEPT ![f] = NoFile]
        /\ NextItem(r) /\ UNCHANGED <<up, running, data, req, load, overlapped, deleted>>
    BY <1>2, <1>6 DEF Rename
  <2>2. /\ \A q \in Requests \ {r} : SameRequest(q)
        /\ Idle(r)' /\ \A i \in Inodes : Past(i) => Past(i)'
        /\ Place'
        /\ pc' \in [Requests -> Locations] /\ todo' \in [Requests -> Seq(Items)]
        /\ steps' \in [Requests -> Seq(FileSteps)]
        /\ open' \in [Requests -> Inodes \cup {NoFile}]
        /\ steps'[r] = <<>> /\ open'[r] = NoFile
    BY <1>1, <2>1, Passing
  <2>3. pc'[r] \notin {"check", "save", "cleanup"}
    BY <2>2 DEF Idle
  <2> HIDE DEF IInv
  <2> QED BY <1>1, <1>2, <1>3, <1>6, <2>1, <2>2, <2>3, Renaming
<1>7. CASE temp[f] # NoFile /\ Len(steps[r]) # 1
  <2>1. /\ final' = [final EXCEPT ![f] = temp[f]] /\ temp' = [temp EXCEPT ![f] = NoFile]
        /\ steps' = [steps EXCEPT ![r] = Tail(@)]
        /\ UNCHANGED <<up, running, data, req, load, overlapped, deleted, pc, todo, open>>
    BY <1>2, <1>7 DEF Rename
  <2>2. /\ steps' \in [Requests -> Seq(FileSteps)]
        /\ Head(steps'[r]).do # "write"
        /\ \A q \in Requests \ {r} : steps'[q] = steps[q]
        /\ Place'
        /\ \A i \in Inodes : Past(i) => Past(i)'
        /\ \A g \in Written(r) :
             Stage(steps'[r], g) = IF g # f THEN Stage(steps[r], g) ELSE "saved"
    BY <1>1, <1>2, <1>7, <2>1, Advance
  <2>3. /\ \A q \in Requests \ {r} : SameRequest(q)
        /\ pc' \in [Requests -> Locations] /\ todo' \in [Requests -> Seq(Items)]
        /\ open' \in [Requests -> Inodes \cup {NoFile}]
        /\ open'[r] = NoFile /\ todo'[r] = todo[r] /\ pc'[r] \notin {"check", "cleanup"}
    BY <1>1, <1>4, <2>1, <2>2 DEF TypeOK, SameRequest
  <2>4. \A g \in Written(r) :
          Stage(steps'[r], g) = IF g = f THEN "saved" ELSE Stage(steps[r], g)
    BY <2>2
  <2>5. steps'[r] # <<>> => Head(steps'[r]).do # "write"
    BY <2>2
  <2>6. UNCHANGED <<up, running, data, req, load, overlapped, deleted>>
    BY <2>1
  <2> HIDE DEF IInv
  <2> QED
    <3>1. temp[f] # NoFile /\ pc[r] = "save" /\ Head(steps[r]) = Step("rename", f)
          /\ m = Item(r).file
      BY <1>1, <1>2, <1>3, <1>7
    <3>2. /\ final' = [final EXCEPT ![f] = temp[f]] /\ temp' = [temp EXCEPT ![f] = NoFile]
          /\ steps' \in [Requests -> Seq(FileSteps)] /\ Place'
          /\ \A i \in Inodes : Past(i) => Past(i)'
      BY <2>1, <2>2
    <3> QED BY <2>3, <2>4, <2>5, <2>6, <3>1, <3>2, Renaming
<1> QED BY <1>5, <1>6, <1>7

\* Whose .tmp files a failed save removes: nobody's who is alone with the file.
LEMMA CleanupStep ==
  ASSUME IInv, NEW r \in Requests, Cleanup(r)
  PROVE  IInv'
<1> USE DEF IInv
<1> DEFINE left == {steps[r][i].file : i \in DOMAIN steps[r]}
<1>1. Busy(r) /\ pc[r] = "cleanup"
  BY DEF Cleanup, Busy
<1>2. /\ NextItem(r) /\ UNCHANGED <<up, running, final, data, req, load, overlapped, deleted>>
      /\ temp' = [f \in Files |-> IF f \in left THEN NoFile ELSE temp[f]]
  BY DEF Cleanup
<1>3. /\ \A q \in Requests \ {r} : SameRequest(q)
      /\ Idle(r)' /\ \A i \in Inodes : Past(i) => Past(i)'
      /\ Place'
      /\ pc' \in [Requests -> Locations] /\ todo' \in [Requests -> Seq(Items)]
      /\ steps' \in [Requests -> Seq(FileSteps)]
      /\ open' \in [Requests -> Inodes \cup {NoFile}]
      /\ steps'[r] = <<>> /\ open'[r] = NoFile
  BY <1>1, <1>2, Passing
<1>4. left \subseteq Written(r)
  <2>1. Item(r).file \in Files \ Codes /\ Written(r) = FilesOf(Item(r).file)
    BY <1>1, Handling
  <2>2. steps[r] \in Rest(Item(r).file)
    BY <1>1 DEF Place
  <2> QED BY <2>1, <2>2, PlanFollows DEF Follows
<1> HIDE DEF left
<1>5. \A f \in Files \ overlapped : f \in left => \A q \in Saving(f) : q = r
  BY <1>1, <1>4 DEF Alone, Saving
<1>6. \A f \in Files : \A q \in Saving(f)' :
        q \in Saving(f) /\ q \in Requests \ {r} /\ SameRequest(q)
  BY <1>3 DEF Saving, Idle, SameRequest, Written
<1>7. TypeOK'
  <2>1. temp' \in [Files -> Inodes \cup {NoFile}]
    BY <1>2 DEF TypeOK
  <2> QED BY <1>2, <1>3, <2>1 DEF TypeOK, SameRequest
<1>8. Alone'
  BY <1>2, <1>6 DEF Alone
<1>9. Inoded'
  <2>1. \A f \in Files : temp'[f] \in {NoFile, temp[f]} /\ final[f] \in Inodes \cup {NoFile}
                         /\ temp[f] \in Inodes \cup {NoFile}
    BY <1>2 DEF TypeOK
  <2>2. \A q \in Requests : open'[q] # NoFile => SameRequest(q)
    BY <1>3
  <2>3. \A f \in Files : Inode(f, final[f])' /\ Inode(f, temp[f])'
    BY <1>2, <1>3, <2>1 DEF Inoded, Inode
  <2>4. \A f \in Files : temp'[f] # NoFile => temp'[f] # final'[f]
    BY <1>2, <2>1 DEF Inoded
  <2>5. \A q \in Requests : open'[q] # NoFile => open'[q][2] = Head(steps'[q]).file
    BY <2>2 DEF Inoded, SameRequest
  <2> QED BY <2>3, <2>4, <2>5 DEF Inoded
<1>10. Own'
  <2>1. ASSUME NEW f \in Files \ overlapped, NEW q \in Saving(f)' PROVE temp'[f] = temp[f]
    BY <1>2, <1>5, <1>6
  <2> QED BY <1>2, <1>6, <2>1 DEF Own, SameRequest, At, RefOf
<1>11. Known' = Known
  BY <1>2 DEF Known, Present
<1>12. Checked'
  <2>1. \A q \in Requests : pc'[q] = "save" => SameRequest(q)
    BY <1>3 DEF Idle
  <2> QED BY <1>2, <1>11, <2>1 DEF Checked, SameRequest, At, Item, Present
<1>13. Loaded' /\ Paired' /\ NextStartAccepts'
  BY <1>2, <1>11 DEF Loaded, Paired, NextStartAccepts, Present, Content
<1>14. Absent'
  BY <1>2, <1>6 DEF Absent, SameRequest, At, Present
<1> QED BY <1>3, <1>7, <1>8, <1>9, <1>10, <1>12, <1>13, <1>14

-----------------------------------------------------------------------------
(* Deleting                                                                *)

\* What a delete removes, it has announced.
LEMMA RemoveFileStep ==
  ASSUME IInv, NEW r \in Requests, RemoveFile(r)
  PROVE  IInv'
<1> USE DEF IInv
<1>1. Busy(r) /\ pc[r] = "remove"
  BY DEF RemoveFile, Busy
<1>2. PICK m \in Files \ Codes, f \in Files :
        /\ m = Item(r).file /\ f = Head(steps[r]).file /\ f \in FilesOf(m)
        /\ steps[r] \in Removals(m) /\ FilesOf(m) \subseteq deleted
        /\ todo[r] \in Seq(Items) /\ Len(todo[r]) \in 1..MaxItems /\ req[r] \in Offers
  <2>1. /\ Item(r).file \in Files \ Codes /\ steps[r] \in Removals(Item(r).file)
        /\ FilesOf(Item(r).file) \subseteq deleted
        /\ todo[r] \in Seq(Items) /\ Len(todo[r]) \in 1..MaxItems /\ req[r] \in Offers
    BY <1>1, Handling DEF Place
  <2>2. Head(steps[r]).file \in FilesOf(Item(r).file) /\ FilesOf(Item(r).file) \subseteq Files
    BY <2>1, RemovalFollows, Kinds
  <2> QED BY <2>1, <2>2
<1>3. /\ final' = [final EXCEPT ![f] = NoFile]
      /\ UNCHANGED <<up, running, temp, data, req, load, overlapped, deleted>>
  BY <1>2 DEF RemoveFile
<1>4. /\ \A g \in Files \ {f} : final'[g] = final[g]
      /\ final'[f] = NoFile /\ final' \in [Files -> Inodes \cup {NoFile}]
  BY <1>2, <1>3 DEF TypeOK
<1>5. steps[r] # <<>> /\ Head(steps[r]).do = "remove"
      /\ (Len(steps[r]) # 1 => Tail(steps[r]) \in Removals(m))
  BY <1>2, RemovalFollows
<1>6. open[r] = NoFile
  BY <1>5 DEF TypeOK
<1>7. /\ \A q \in Requests \ {r} : SameRequest(q)
      /\ Idle(r)' /\ \A i \in Inodes : Past(i) => Past(i)'
      /\ Place'
      /\ pc' \in [Requests -> Locations] /\ todo' \in [Requests -> Seq(Items)]
      /\ steps' \in [Requests -> Seq(FileSteps)]
      /\ open' \in [Requests -> Inodes \cup {NoFile}]
      /\ open'[r] = NoFile /\ (steps'[r] # <<>> => Head(steps'[r]).do # "write")
  <2>1. CASE NextItem(r)
    BY <1>1, <1>3, <2>1, Passing
  <2>2. CASE /\ Len(steps[r]) > 1 /\ steps' = [steps EXCEPT ![r] = Tail(@)]
             /\ UNCHANGED <<pc, todo, open>>
    <3>1. Len(steps[r]) # 1
      <4>1. \A n \in Nat : n > 1 => n # 1
        OBVIOUS
      <4>2. Len(steps[r]) \in Nat /\ Len(steps[r]) > 1
        BY <2>2 DEF TypeOK
      <4> QED BY <4>1, <4>2, Zenon
    <3>2. /\ Tail(steps[r]) \in Removals(m) /\ Tail(steps[r]) \in Seq(FileSteps)
          /\ Head(Tail(steps[r])).do = "remove"
      BY <1>2, <1>5, <3>1, RemovalFollows
    <3>3. /\ steps' \in [Requests -> Seq(FileSteps)] /\ steps'[r] = Tail(steps[r])
          /\ \A q \in Requests \ {r} : SameRequest(q)
      BY <1>3, <2>2, <3>2 DEF TypeOK, SameRequest
    <3>4. ASSUME NEW i \in Inodes, Past(i) PROVE Past(i)'
      BY <1>1, <2>2, <3>3, <3>4 DEF Past, At, SameRequest
    <3>5. Place'
      <4>1. ASSUME NEW q \in Requests \ {r} PROVE Place!(q)'
        BY <1>3, <3>3, <4>1 DEF Place, SameRequest, Busy, Item
      <4>2. Place!(r)'
        <5>1. Item(r)' = Item(r) /\ Len(todo'[r]) <= MaxItems
          BY <2>2 DEF Item, Place
        <5> QED BY <1>1, <1>2, <1>3, <2>2, <3>2, <3>3, <5>1 DEF Place, Busy
      <4> QED BY <4>1, <4>2 DEF Place
    <3> QED BY <1>1, <1>6, <2>2, <3>2, <3>3, <3>4, <3>5 DEF TypeOK, Idle
  <2> QED BY <2>1, <2>2 DEF RemoveFile
<1>8. \A g \in Files : \A q \in Saving(g)' :
        q \in Saving(g) /\ q \in Requests \ {r} /\ SameRequest(q)
  BY <1>7 DEF Saving, Idle, SameRequest, Written
<1>9. Known \subseteq Known' /\ \A g \in Files : Present(g)' => Present(g)
  BY <1>2, <1>3, <1>4 DEF Known, Present
<1>10. TypeOK'
  <2>1. ASSUME NEW q \in Requests
        PROVE  (open'[q] # NoFile) = (steps'[q] # <<>> /\ Head(steps'[q]).do = "write")
    <3>1. CASE q = r
      BY <1>7, <3>1
    <3>2. CASE q # r
      BY <1>7, <3>2 DEF TypeOK, SameRequest
    <3> QED BY <3>1, <3>2
  <2> QED BY <1>3, <1>4, <1>7, <2>1 DEF TypeOK
<1>11. Alone'
  BY <1>3, <1>8 DEF Alone
<1>12. Inoded'
  <2>1. \A q \in Requests : open'[q] # NoFile => SameRequest(q)
    BY <1>7
  <2>2. \A q \in Requests : open'[q] # NoFile => open'[q][2] = Head(steps'[q]).file
    BY <2>1 DEF Inoded, SameRequest
  <2>3. \A g \in Files : Inode(g, final[g])' /\ Inode(g, temp[g])'
    BY <1>3, <1>4, <1>7 DEF Inoded, Inode, TypeOK
  <2>4. \A g \in Files : temp'[g] # NoFile => temp'[g] # final'[g]
    BY <1>3, <1>4 DEF Inoded
  <2> QED BY <2>2, <2>3, <2>4 DEF Inoded
<1>13. Own'
  BY <1>3, <1>8 DEF Own, SameRequest, At, RefOf
<1>14. Checked'
  <2> SUFFICES ASSUME NEW q \in Requests, pc'[q] = "save" PROVE Checked!(q)'
    BY DEF Checked
  <2>1. SameRequest(q) /\ Item(q)' = Item(q)
    BY <1>7 DEF Idle, SameRequest, Item
  <2>2. CASE Item(q).file \in Configs
    <3>1. Tool(Item(q).file) = f => m = Item(q).file
      BY <1>2, <2>2, KindAssumption DEF FilesOf
    <3>2. Tool(Item(q).file) \in Files
      BY <2>2, KindAssumption DEF Files
    <3>3. Present(Tool(Item(q).file)) /\ Tool(Item(q).file) # f =>
            final'[Tool(Item(q).file)] # NoFile
      BY <1>4, <3>2 DEF Present
    <3>4. /\ Item(q).ref = Tool(Item(q).file)
          /\ Stage(steps'[q], Tool(Item(q).file)) = "saved" =>
               final'[Tool(Item(q).file)] # NoFile \/ FilesOf(Item(q).file) \subseteq deleted
      BY <1>2, <2>1, <2>2, <3>1, <3>3 DEF Checked, SameRequest, At
    <3> QED BY <1>3, <2>1, <2>2, <3>4 DEF Present, At
  <2>3. CASE Item(q).file \notin Configs
    BY <1>9, <2>1, <2>3 DEF Checked, SameRequest
  <2> QED BY <2>2, <2>3
<1>15. Loaded'
  BY <1>3, <1>9 DEF Loaded
<1>16. Paired'
  <2> SUFFICES ASSUME NEW c \in Configs \ (overlapped \cup deleted), Present(c)'
               PROVE  Present(Tool(c))'
    BY <1>3 DEF Paired
  <2>1. Tool(c) \in Files /\ c \in Files
    BY KindAssumption DEF Files
  <2>2. Tool(c) # f
    BY <1>2, KindAssumption DEF FilesOf
  <2> QED BY <1>4, <1>9, <2>1, <2>2 DEF Paired, Present
<1>17. Absent'
  BY <1>3, <1>8, <1>9 DEF Absent, SameRequest, At
<1>18. NextStartAccepts'
  <2> SUFFICES ASSUME NEW g \in Files \ overlapped, Present(g)'
               PROVE  Content(g)' \in Docs /\ Content(g)' \in Known'
    BY <1>3 DEF NextStartAccepts, Known
  <2>1. g # f
    BY <1>4 DEF Present
  <2> QED BY <1>3, <1>4, <1>9, <2>1 DEF NextStartAccepts, Known, Present, Content
<1> QED BY <1>7, <1>10, <1>11, <1>12, <1>13, <1>14, <1>15, <1>16, <1>17, <1>18

-----------------------------------------------------------------------------
(* Loading, and the process                                                *)

LEMMA LoadStep ==
  ASSUME IInv, LoadProviders \/ LoadAgents
  PROVE  IInv'
<1> USE DEF IInv
<1>1. UNCHANGED <<up, final, temp, data, req, pc, todo, steps, open, overlapped, deleted>>
  BY DEF LoadProviders, LoadAgents, handlerVars
<1>2. /\ Known' = Known /\ Main \cup Reads(Providers) \subseteq Known
      /\ Reads(Agents) \subseteq Known /\ Reads(Agents) \subseteq Agents
  BY <1>1 DEF Known, Present, Reads, Files
<1>3. /\ running' = running \/ (load.on /\ running' = load.names \cup Reads(Agents))
      /\ load' = NotLoading \/ \E w \in BOOLEAN :
                   load' = [on |-> TRUE, names |-> Main \cup Reads(Providers), whole |-> w]
  <2>1. CASE LoadProviders
    <3>1. \A w : (w /\ Validates(Main \cup Reads(Providers), RefsOf(Providers))) \in BOOLEAN
      BY Zenon
    <3> QED BY <2>1, <3>1 DEF LoadProviders
  <2>2. CASE LoadAgents
    BY <2>2 DEF LoadAgents
  <2> QED BY <2>1, <2>2
<1>4. TypeOK'
  <2>1. Main \cup Reads(Providers) \subseteq Main \cup Providers
    BY DEF Reads
  <2>2. load' \in [on : BOOLEAN, names : SUBSET (Main \cup Providers), whole : BOOLEAN]
    <3>1. CASE load' = NotLoading
      BY <3>1 DEF NotLoading
    <3>2. ASSUME NEW w \in BOOLEAN,
                 load' = [on |-> TRUE, names |-> Main \cup Reads(Providers), whole |-> w]
          PROVE  load' \in [on : BOOLEAN, names : SUBSET (Main \cup Providers), whole : BOOLEAN]
      BY <2>1, <3>2
    <3> QED BY <1>3, <3>1, <3>2
  <2>3. running' \subseteq Main \cup Providers \cup Agents
    BY <1>2, <1>3 DEF TypeOK
  <2> QED BY <1>1, <2>2, <2>3 DEF TypeOK
<1>5. Place'
  BY <1>1 DEF Place, Busy, Item
<1>6. Loaded'
  <2>1. running' \subseteq Known
    BY <1>2, <1>3 DEF Loaded
  <2>2. load'.on => load'.names \subseteq Known
    BY <1>2, <1>3 DEF NotLoading
  <2> QED BY <1>2, <2>1, <2>2 DEF Loaded
<1>7. \A q \in Requests : SameRequest(q)
  BY <1>1 DEF SameRequest
<1>8. \A i \in Inodes : Past(i) => Past(i)'
  BY <1>1 DEF Past, At
<1> QED BY <1>1, <1>4, <1>5, <1>6, <1>7, <1>8, Quiet

LEMMA StartStep ==
  ASSUME IInv, Start
  PROVE  IInv'
<1> USE DEF IInv
<1>1. /\ UNCHANGED <<final, temp, data, req, pc, todo, steps, open, load, overlapped, deleted>>
      /\ up' = TRUE /\ running' = Main \cup Reads(Providers \cup Agents)
  BY DEF Start, handlerVars
<1>2. TypeOK'
  <2>1. running' \subseteq Main \cup Providers \cup Agents
    BY <1>1 DEF Reads
  <2> QED BY <1>1, <2>1 DEF TypeOK
<1>3. Place'
  BY <1>1 DEF Place, Busy, Item
<1>4. Loaded'
  BY <1>1 DEF Loaded, Known, Present, Reads, Files
<1>5. \A q \in Requests : SameRequest(q)
  BY <1>1 DEF SameRequest
<1>6. \A i \in Inodes : Past(i) => Past(i)'
  BY <1>1 DEF Past, At
<1> QED BY <1>1, <1>2, <1>3, <1>4, <1>5, <1>6, Quiet

LEMMA KillStep ==
  ASSUME IInv, Kill
  PROVE  IInv'
<1> USE DEF IInv
<1>1. /\ UNCHANGED <<running, final, temp, data, req, overlapped, deleted>>
      /\ up' = FALSE /\ load' = NotLoading
      /\ pc' = [r \in Requests |-> IF Busy(r) THEN "done" ELSE pc[r]]
      /\ todo' = [r \in Requests |-> <<>>]
      /\ steps' = [r \in Requests |-> <<>>]
      /\ open' = [r \in Requests |-> NoFile]
  BY DEF Kill
<1>2. ASSUME NEW q \in Requests
      PROVE  /\ pc'[q] \in {"free", "done"} /\ (pc[q] # "free" => pc'[q] # "free")
             /\ todo'[q] = <<>> /\ steps'[q] = <<>> /\ open'[q] = NoFile
  BY <1>1 DEF Busy
<1>3. TypeOK'
  <2>1. pc' \in [Requests -> Locations]
    BY <1>1, <1>2 DEF Locations
  <2>2. load' \in [on : BOOLEAN, names : SUBSET (Main \cup Providers), whole : BOOLEAN]
    BY <1>1 DEF NotLoading
  <2>3. /\ todo' \in [Requests -> Seq(Items)] /\ steps' \in [Requests -> Seq(FileSteps)]
        /\ open' \in [Requests -> Inodes \cup {NoFile}]
    BY <1>1
  <2> QED BY <1>1, <1>2, <2>1, <2>2, <2>3 DEF TypeOK
<1>4. Place'
  <2>1. Len(<<>>) <= MaxItems
    BY BoundAssumption
  <2> QED BY <1>2, <2>1 DEF Place, Busy
<1>5. Loaded'
  BY <1>1 DEF Loaded, Known, Present, NotLoading
<1>6. \A q \in Requests : Idle(q)'
  BY <1>2 DEF Idle
<1>7. ASSUME NEW i \in Inodes, Past(i) PROVE Past(i)'
  <2>1. i[3] \in Nat /\ i[3] > 0
    BY BoundAssumption DEF Inodes
  <2> QED BY <1>2, <1>7, <2>1 DEF Past
<1> QED BY <1>1, <1>3, <1>4, <1>5, <1>6, <1>7, Quiet

-----------------------------------------------------------------------------
(* The theorems                                                            *)

LEMMA Initially == ASSUME Init PROVE IInv
<1>1. /\ up = TRUE /\ running = Main \cup (Installed \cap Agents)
      /\ final = [f \in Files |-> IF f \in Installed THEN <<"installed", f, 1>> ELSE NoFile]
      /\ temp = [f \in Files |-> NoFile]
      /\ req = [r \in Requests |-> Nobody] /\ pc = [r \in Requests |-> "free"]
      /\ todo = [r \in Requests |-> <<>>] /\ steps = [r \in Requests |-> <<>>]
      /\ open = [r \in Requests |-> NoFile]
      /\ load = NotLoading /\ overlapped = {} /\ deleted = {}
  BY DEF Init
<1>2. PICK m \in Main :
        data = [i \in Inodes |-> IF i[1] # "installed" THEN Empty
                                 ELSE IF i[2] \in Agents THEN m ELSE NoRef]
  BY DEF Init
<1>3. \A f \in Files : final[f] # NoFile =>
        /\ f \in Installed /\ final[f] = <<"installed", f, 1>> /\ final[f] \in Inodes
        /\ Content(f) \in Main \cup {NoRef}
  BY <1>1, <1>2, BoundAssumption DEF Inodes, Content
<1>4. TypeOK
  <2>1. final \in [Files -> Inodes \cup {NoFile}] /\ temp \in [Files -> Inodes \cup {NoFile}]
    BY <1>1, <1>3
  <2>2. data \in [Inodes -> Docs \cup {Empty, Mixed}]
    BY <1>2 DEF Docs
  <2>3. load \in [on : BOOLEAN, names : SUBSET (Main \cup Providers), whole : BOOLEAN]
    BY <1>1 DEF NotLoading
  <2>4. /\ todo \in [Requests -> Seq(Items)] /\ steps \in [Requests -> Seq(FileSteps)]
        /\ open \in [Requests -> Inodes \cup {NoFile}]
        /\ req \in [Requests -> Offers \cup {Nobody}] /\ pc \in [Requests -> Locations]
    BY <1>1 DEF Locations
  <2>5. \A r \in Requests : (open[r] # NoFile) =
                              (steps[r] # <<>> /\ Head(steps[r]).do = "write")
    BY <1>1
  <2> QED BY <1>1, <2>1, <2>2, <2>3, <2>4, <2>5 DEF TypeOK
<1>5. Place
  <2>1. Len(<<>>) <= MaxItems
    BY BoundAssumption
  <2> QED BY <1>1, <2>1 DEF Place, Busy
<1>6. \A f \in Files : Saving(f) = {}
  BY <1>1 DEF Saving
<1>7. Alone /\ Own /\ Absent
  BY <1>6 DEF Alone, Own, Absent
<1>8. Inoded
  <2>1. \A f \in Files : Inode(f, final[f]) /\ Inode(f, temp[f]) /\ temp[f] = NoFile
    BY <1>1, <1>3, KindAssumption DEF Inode, Past
  <2> QED BY <1>1, <2>1 DEF Inoded
<1>9. Checked /\ Loaded
  <2>1. \A f \in Installed \cap Agents : f \in Files /\ Present(f)
    BY <1>1 DEF Files, Present, NoFile
  <2> QED BY <1>1, <2>1 DEF Checked, Loaded, Known, NotLoading
<1>10. Paired
  BY <1>3, KindAssumption DEF Paired, Present, Files
<1>11. NextStartAccepts
  BY <1>3 DEF NextStartAccepts, Present, Docs
<1> QED BY <1>4, <1>5, <1>7, <1>8, <1>9, <1>10, <1>11 DEF IInv

\* Every step keeps the invariant.
LEMMA Steps == ASSUME IInv, [Next]_vars PROVE IInv'
<1>1. CASE UNCHANGED vars
  <2>1. /\ TypeOK' /\ Place' /\ Loaded' /\ \A q \in Requests : SameRequest(q)
        /\ \A i \in Inodes : Past(i) => Past(i)'
    BY <1>1 DEF vars, IInv, TypeOK, Place, Loaded, SameRequest, Past, At, Known, Present, Busy, Item
  <2> QED BY <1>1, <2>1, Quiet DEF vars
<1>2. CASE \E r \in Requests : Handle(r)
  <2> SUFFICES ASSUME NEW r \in Requests, Handle(r) PROVE IInv'
    BY <1>2
  <2> QED BY FindConflictsStep, LookStep, CheckStep, OpenTempStep, WriteTempStep, RenameStep,
             CleanupStep, FindModuleStep, RemoveFileStep DEF Handle
<1>3. CASE \E r \in Requests : \E o \in Offers : Receive(r, o)
  BY <1>3, ReceiveStep
<1>4. CASE LoadProviders \/ LoadAgents \/ Kill \/ Start
  BY <1>4, LoadStep, KillStep, StartStep
<1> QED BY <1>1, <1>2, <1>3, <1>4 DEF Next

\* The inductive invariant: every file nobody raced for has one writer with a
\* .tmp of its own, and what is being saved was checked.
THEOREM Invariance == Spec => []IInv
<1>1. Init => IInv
  BY Initially
<1>2. IInv /\ [Next]_vars => IInv'
  BY Steps
<1> QED BY <1>1, <1>2, PTL DEF Spec

\* The variables keep their types, and an open inode belongs to a write that
\* comes next.
THEOREM TypeCorrect == Spec => []TypeOK
<1>1. IInv => TypeOK
  BY DEF IInv
<1> QED BY <1>1, Invariance, PTL

\* Whatever requests save, import and delete side by side, and whenever the
\* process is killed, every module nobody raced for is whole and refers to what
\* is there, or to what somebody deleted.
THEOREM NextStartAlwaysAccepts == Spec => []NextStartAccepts
<1>1. IInv => NextStartAccepts
  BY DEF IInv
<1> QED BY <1>1, Invariance, PTL

\* No import or scaffold replaces a module it may not overwrite, although it
\* looked several steps before, unless two saves raced or a delete was under way.
THEOREM NeverReplaces == Spec => NeverReplacesUnasked
<1>1. IInv /\ [Next]_vars =>
        \A r \in Requests, f \in Files :
          Replaces(r, f) => req[r].over \/ f \in overlapped \cup deleted
  <2> SUFFICES ASSUME IInv, NEW r \in Requests, NEW f \in Files, Replaces(r, f), ~req[r].over,
                      f \notin overlapped \cup deleted
               PROVE  FALSE
    OBVIOUS
  <2>1. pc[r] = "save" /\ Head(steps[r]) = Step("rename", f) /\ Present(f)
    BY DEF Replaces
  <2>2. r \in Saving(f) /\ Stage(steps[r], f) = "rename"
    <3>1. PICK m \in Files \ Codes, g \in Files :
            g = Head(steps[r]).file /\ g \in FilesOf(m) /\ Follows(steps[r], m) /\ r \in Saving(g)
      BY <2>1, Saver
    <3>2. g = f
      BY <2>1, <3>1 DEF Step
    <3> QED BY <2>1, <3>1, <3>2 DEF Follows, Step
  <2> QED BY <2>1, <2>2 DEF IInv, Absent, At
<1> QED BY <1>1, Invariance, PTL DEF Spec, NeverReplacesUnasked
=============================================================================
