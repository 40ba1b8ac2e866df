---------------------------- MODULE MemoryStore ----------------------------
(***************************************************************************)
(* The workspace memory (internal/memory/store.go): the project memory,    *)
(* the solution and error knowledge bases and the file index, four files   *)
(* under .goflow that HTTP handlers, console commands, finished turns,     *)
(* prompt builders and tool executors read, change and write back with no  *)
(* lock between them.                                                      *)
(*                                                                         *)
(* A job is one such operation.  Its program is a sequence of file         *)
(* operations: "load" reads a file whole, os.WriteFile is "truncate" and   *)
(* then "write".  Texts, scores, usage left and timestamps are left out; *)
(* a knowledge base is the sequence of its items, a file's state in the    *)
(* workspace is a version (0 when it is absent), and the index maps the    *)
(* files to the versions it summarises.                                    *)
(***************************************************************************)
EXTENDS Integers, Sequences, FiniteSets, Functions

CONSTANTS Procs,        \* goroutines that use the store
          Items,        \* identities of solutions and errors
          Walk,         \* the files of the workspace, in the order of a walk
          MaxItems,     \* the 200 items a knowledge base keeps
          MaxOffered,   \* the 2 solutions a prompt is offered
          MaxFiles,     \* the 2500 files the index has room for
          Before,       \* the knowledge bases an earlier process may have left
          MaxEdits,     \* bound: changes of workspace files
          Bounds        \* bounds: what a behaviour may be made of, that is the kinds
                        \* and number of jobs, changes of files, kills of the process

ASSUME LimitAssumption == {MaxItems, MaxOffered, MaxFiles} \subseteq Nat \ {0}
ASSUME WalkAssumption == Walk \in Seq(Range(Walk))

\* The kinds of job.
Kinds == {"retire", "supersede", "restore", "record", "failed",
          "dashboard", "prompt", "mark", "rebuild", "put", "blank"}

ASSUME BoundAssumption ==
  /\ MaxEdits \in Nat
  /\ \A b \in Bounds : b \in [kinds : SUBSET Kinds, jobs : Nat, edits : 0..MaxEdits, crashes : Nat]

\* The knowledge bases: at most MaxItems items, each once.
Bases == {kb \in UNION {[1..n -> [id : Items, retired : BOOLEAN]] : n \in 0..MaxItems} :
            \A i, j \in DOMAIN kb : kb[i].id = kb[j].id => i = j}

ASSUME BeforeAssumption == Before \subseteq Bases

VARIABLES
  up,      \* the process runs
  disk,    \* the four files
  ws,      \* the version of every workspace file
  job,     \* what every process does
  todo,    \* the file operations its job has left
  val,     \* the value it loaded or is about to write
  stale,   \* ghost: <<p, f>> when another process wrote f since p loaded it
  since,   \* ghost: the versions a file had since p's EnsureFreshFileIndex began,
           \* and 0 when the call could not read it
  last,    \* ghost: the last content of each file that was written whole
  retired, \* ghost: the solutions that were retired and have not become active again
  left     \* what is left of the bounds

vars == <<up, disk, ws, job, todo, val, stale, since, last, retired, left>>

Files  == Range(Walk)
Stores == {"project", "solutions", "errors", "index"}
\* What a file holds.
Missing  == <<"missing">>
Empty    == <<"empty">>
Base(kb) == <<"base", kb>>
Index(i) == <<"index", i>>
Text(t)  == <<"text", t>>
NoJob == [kind |-> "none", arg |-> {}, other |-> {}]
Nothing == <<>>
NoIndex == [w \in Files |-> 0]
\* There is no room for another file.
Full(index) == Cardinality({w \in Files : index[w] > 0}) >= MaxFiles

-----------------------------------------------------------------------------
(* Values *)

Template == Text("template")   \* the text defaultProjectMemory returns
Profile  == Text("profile")    \* the text generatedProjectMemoryContent returns
User     == Text("user")       \* what the user wrote
Mixed    == Text("mixed")      \* the beginning of one and the end of another

Ids(kb) == {kb[i].id : i \in DOMAIN kb}
IsRetired(kb, s) == \E i \in DOMAIN kb : kb[i].id = s /\ kb[i].retired
IsActive(kb, s) == s \in Ids(kb) /\ ~IsRetired(kb, s)
\* What a search of the solutions can find.
Found(kb) == {s \in Ids(kb) : ~IsRetired(kb, s)}

\* A file that is missing reads as an empty base or index, and an empty one
\* (truncated, not yet written) as a decoding error; project.md has no format.
ReadFails(f) == disk[f] = Empty /\ f # "project"
ReadValue(f) ==
  IF disk[f] # Missing THEN disk[f][2]
  ELSE IF f = "index" THEN NoIndex ELSE Nothing

SetRetired(kb, s, flag) ==
  [i \in DOMAIN kb |-> IF kb[i].id = s THEN [kb[i] EXCEPT !.retired = flag] ELSE kb[i]]

\* The items over the limit go.
Kept(kb) == SubSeq(kb, 1, IF Len(kb) <= MaxItems THEN Len(kb) ELSE MaxItems)

\* What was learned again becomes active.
UpsertActive(kb, s) ==
  IF s \in Ids(kb) THEN SetRetired(kb, s, FALSE)
  ELSE Kept(<<[id |-> s, retired |-> FALSE]>> \o kb)

\* The base is not cut.
UpsertAll(kb, s) ==
  IF s \in Ids(kb) THEN kb ELSE <<[id |-> s, retired |-> FALSE]>> \o kb

\* A known item keeps its place and its retirement, a new one comes first and
\* the last one over the limit goes.
UpsertItem(kb, s) ==
  IF s \in Ids(kb) THEN kb
  ELSE Kept(<<[id |-> s, retired |-> FALSE]>> \o kb)

-----------------------------------------------------------------------------
(* Programs *)

Store(f) == << <<"truncate", f>>, <<"write", f>> >>
Update(f) == << <<"load", f>> >> \o Store(f)

\* RebuildFiles summarises one file after the other.
Rebuild == [i \in 1..Len(Walk) |-> <<"summarize", Walk[i]>>] \o Store("index")

\* What a job does with the index that EnsureFreshFileIndex returns.
AfterFresh(kind) ==
  CASE kind \in {"dashboard", "blank"} -> Store("project")
    [] kind = "prompt" -> << <<"offer", "solutions">> >>
    [] kind = "mark" -> Update("index")

\* EnsureFreshFileIndex: the index is read, the files it names are compared,
\* the workspace is searched for others, and a stale index is rebuilt.
Returned(kind) == << <<"return", "index">> >> \o AfterFresh(kind)
Rebuilt(kind) == Rebuild \o Returned(kind)
Fresh(kind) ==
  << <<"begin", "index">>, <<"compare", "index">>, <<"search", "index">> >> \o Rebuilt(kind)

\* recordTaskMemory keeps the errors of a failed turn, and what a turn decided
\* as a solution.  The dashboard first records the ended workflow runs again,
\* then sees to the project profile.
Learn == Update("errors") \o Update("solutions")
Program(kind) ==
  CASE kind \in {"retire", "restore", "record"} -> Update("solutions")
    [] kind = "supersede" -> << <<"check", "solutions">> >> \o Update("solutions")
    [] kind = "failed" -> Learn
    [] kind = "dashboard" -> Learn \o (<< <<"look", "project">> >> \o Fresh(kind))
    [] kind \in {"prompt", "mark", "blank"} -> Fresh(kind)
    [] kind = "rebuild" -> Rebuild
    [] kind = "put" -> Store("project")

At(p, verb) == todo[p] # <<>> /\ Head(todo[p])[1] = verb
File(p) == Head(todo[p])[2]
Rest(p) == Tail(todo[p])
After(p, n) == SubSeq(todo[p], n + 1, Len(todo[p]))

\* Process p goes on with these steps of job j and value v, or its job is over.
Go(p, steps, j, v) ==
  /\ todo' = [todo EXCEPT ![p] = steps]
  /\ job' = [job EXCEPT ![p] = IF steps = <<>> THEN NoJob ELSE j]
  /\ val' = [val EXCEPT ![p] = IF steps = <<>> THEN Nothing ELSE v]
Take(p, steps, v) == Go(p, steps, job[p], v)
Continue(p, steps) == Take(p, steps, val[p])

\* The workspace is new, or an earlier process has left solutions behind.
Init ==
  /\ up = FALSE
  /\ \/ disk = [f \in Stores |-> Missing] /\ retired = {}
     \/ \E kb \in Before :
          /\ disk = [f \in Stores |-> CASE f = "solutions" -> Base(kb)
                                       [] f = "project" -> Template
                                       [] OTHER -> Missing]
          /\ retired = {s \in Items : IsRetired(kb, s)}
  /\ last = disk
  /\ ws = [w \in Files |-> 0]
  /\ job = [p \in Procs |-> NoJob]
  /\ todo = [p \in Procs |-> <<>>]
  /\ val = [p \in Procs |-> Nothing]
  /\ stale = {}
  /\ since = [p \in Procs |-> [w \in Files |-> {}]]
  /\ left \in Bounds

\* Bootstrap calls Ensure: the template is written when project.md is missing.
Boot ==
  /\ ~up /\ up' = TRUE
  /\ IF disk["project"] = Missing
     THEN /\ disk' = [disk EXCEPT !["project"] = Template]
          /\ last' = [last EXCEPT !["project"] = Template]
     ELSE UNCHANGED <<disk, last>>
  /\ UNCHANGED <<ws, job, todo, val, stale, since, retired, left>>

\* A job begins.  It is about the items of arg; the items or files of other are
\* the replacement of a superseded solution and the files to mark as used.
Begin(p, request) ==
  /\ up /\ todo[p] = <<>> /\ left.jobs > 0 /\ request.kind \in left.kinds
  /\ Go(p, Program(request.kind), request,
        CASE request.kind = "put" -> User [] request.kind = "rebuild" -> Index(NoIndex)
          [] OTHER -> Nothing)
  /\ left' = [left EXCEPT !.jobs = @ - 1]
  /\ UNCHANGED <<up, disk, ws, stale, since, last, retired>>

-----------------------------------------------------------------------------
(* The knowledge bases *)

\* SupersedeSolution looks the replacement up before it retires the other.
Check(p) ==
  /\ At(p, "check")
  /\ Continue(p, IF /\ job[p].other # job[p].arg
                    /\ ~ReadFails("solutions")
                    /\ \A s \in job[p].other : IsActive(ReadValue("solutions"), s)
                 THEN Rest(p) ELSE <<>>)
  /\ UNCHANGED <<up, disk, ws, stale, since, last, retired, left>>

\* What the job makes of the base it read; Nothing when it writes nothing.
Changed(p, f, kb) ==
  LET s == CHOOSE x \in job[p].arg : TRUE
  IN CASE job[p].kind \in {"retire", "supersede"} ->
            IF s \in Ids(kb) THEN SetRetired(kb, s, TRUE) ELSE Nothing
       [] job[p].kind = "restore" ->
            IF s \in Ids(kb) THEN SetRetired(kb, s, FALSE) ELSE Nothing
       [] job[p].kind \in {"record", "failed", "dashboard"} -> UpsertItem(kb, s)
       [] job[p].kind = "prompt" ->
            IF \E o \in job[p].arg : IsActive(kb, o) THEN kb ELSE Nothing

\* A failed read ends the operation (RecordTask goes on with the next one), and
\* so does one that finds nothing to change.
LoadBase(p) ==
  /\ At(p, "load") /\ File(p) \in {"solutions", "errors"}
  /\ LET new == IF ReadFails(File(p)) THEN Nothing
                ELSE Changed(p, File(p), ReadValue(File(p)))
     IN IF new = Nothing THEN Continue(p, After(p, 3)) ELSE Take(p, Rest(p), Base(new))
  /\ stale' = stale \ {<<p, File(p)>>}
  /\ UNCHANGED <<up, disk, ws, since, last, retired, left>>

\* searchResultsWithIndex leaves the retired solutions out; the prompt takes at
\* most MaxOffered of the others and some of the indexed files, and then marks
\* both as used.
Offer(p) ==
  /\ At(p, "offer")
  /\ LET kb == IF ReadFails("solutions") THEN <<>> ELSE ReadValue("solutions")
         indexed == {w \in Files : val[p] # Nothing /\ val[p][2][w] > 0}
     IN \E offered \in SUBSET Found(kb), selected \in SUBSET indexed :
          /\ Cardinality(offered) <= MaxOffered
          /\ Go(p, (IF offered = {} THEN <<>> ELSE Update("solutions"))
                     \o (IF selected = {} THEN <<>> ELSE Update("index")),
                   [job[p] EXCEPT !.arg = offered, !.other = selected], Nothing)
  /\ UNCHANGED <<up, disk, ws, stale, since, last, retired, left>>

-----------------------------------------------------------------------------
(* The file index *)

\* MarkFilesUsedByTask reads the index again, and writes it back when it names
\* one of the files.
LoadIndex(p) ==
  /\ At(p, "load") /\ File(p) = "index"
  /\ LET marks == ~ReadFails("index") /\ \E w \in job[p].other : ReadValue("index")[w] > 0
     IN IF marks THEN Take(p, Rest(p), Index(ReadValue("index"))) ELSE Continue(p, After(p, 3))
  /\ stale' = stale \ {<<p, "index">>}
  /\ UNCHANGED <<up, disk, ws, since, last, retired, left>>

\* An index that cannot be read is an error: the mark is given up, the prompt
\* and the generated profile do without an index.
BeginFresh(p) ==
  /\ At(p, "begin")
  /\ since' = [since EXCEPT ![p] = [w \in Files |-> IF ReadFails("index") THEN {} ELSE {ws[w]}]]
  /\ IF ReadFails("index")
     THEN Take(p, IF job[p].kind = "mark" THEN <<>> ELSE AfterFresh(job[p].kind),
                  IF job[p].kind = "prompt" THEN Nothing ELSE Profile)
     ELSE Take(p, IF disk["index"] = Missing THEN Rebuilt(job[p].kind) ELSE Rest(p),
                  Index(ReadValue("index")))
  /\ UNCHANGED <<up, disk, ws, stale, last, retired, left>>

\* fileIndexStale: first every indexed file, then the files of the workspace.
Compare(p) ==
  /\ At(p, "compare")
  /\ IF \E w \in Files : val[p][2][w] \notin {0, ws[w]}
     THEN Take(p, Rebuilt(job[p].kind), Index(NoIndex)) ELSE Continue(p, Rest(p))
  /\ UNCHANGED <<up, disk, ws, stale, since, last, retired, left>>

\* The workspace is not searched.
FoundAnyway(p) == TRUE
\* The files of the workspace are those that the index names; when it is full,
\* it does not matter that there are more.
FoundAll(p) ==
  LET index == val[p][2]
  IN /\ \A w \in Files : index[w] > 0 => ws[w] > 0
     /\ ~Full(index) => \A w \in Files : ws[w] > 0 => index[w] > 0
Search(p) ==
  /\ At(p, "search")
  /\ IF FoundAll(p) THEN Continue(p, Returned(job[p].kind))
     ELSE Take(p, Rebuilt(job[p].kind), Index(NoIndex))
  /\ UNCHANGED <<up, disk, ws, stale, since, last, retired, left>>

\* One file of the walk: it is gone, there is no room for it, it cannot be read,
\* or its summary is added.
Summarize(p) ==
  /\ At(p, "summarize")
  /\ LET w == File(p)  index == val[p][2]
     IN \/ /\ ws[w] = 0 \/ Full(index)
           /\ Continue(p, Rest(p)) /\ UNCHANGED since
        \/ /\ ws[w] > 0 /\ ~Full(index)
           /\ Continue(p, Rest(p))
           /\ since' = [since EXCEPT ![p][w] = IF @ = {} THEN {} ELSE @ \cup {0}]
        \/ /\ ws[w] > 0 /\ ~Full(index)
           /\ Take(p, Rest(p), Index([index EXCEPT ![w] = ws[w]])) /\ UNCHANGED since
  /\ UNCHANGED <<up, disk, ws, stale, last, retired, left>>

Return(p) ==
  /\ At(p, "return")
  /\ since' = [since EXCEPT ![p] = [w \in Files |-> {}]]
  /\ Take(p, Rest(p), IF job[p].kind \in {"dashboard", "blank"} THEN Profile ELSE val[p])
  /\ UNCHANGED <<up, disk, ws, stale, last, retired, left>>

\* The workspace changes under the program: a file is written or removed.
Edit(w) ==
  /\ left.edits > 0
  /\ left' = [left EXCEPT !.edits = @ - 1]
  /\ \E v \in {0, left.edits} :
       /\ v # ws[w]
       /\ ws' = [ws EXCEPT ![w] = v]
       /\ since' = [p \in Procs |-> [since[p] EXCEPT ![w] = IF @ = {} THEN {} ELSE @ \cup {v}]]
  /\ UNCHANGED <<up, disk, job, todo, val, stale, last, retired>>

-----------------------------------------------------------------------------
(* Project memory and files *)

\* EnsureProjectProfile: only the template is replaced by a generated profile.
Look(p) ==
  /\ At(p, "look")
  /\ Continue(p, IF disk["project"] = Template THEN Rest(p) ELSE <<>>)
  /\ stale' = stale \ {<<p, "project">>}
  /\ UNCHANGED <<up, disk, ws, since, last, retired, left>>

Truncate(p) ==
  /\ At(p, "truncate")
  /\ disk' = [disk EXCEPT ![File(p)] = Empty]
  /\ Continue(p, Rest(p))
  /\ UNCHANGED <<up, ws, stale, since, last, retired, left>>

\* A write over a file that another one filled since it was truncated leaves the
\* end of a longer content behind: JSON is decoded up to the end of the first
\* value, but project.md is read whole.
Write(p) ==
  /\ At(p, "write")
  /\ LET f == File(p)
     IN \E content \in {val[p]} \cup
                        (IF f = "project" /\ disk[f] \notin {Empty, val[p]}
                         THEN {Mixed} ELSE {}) :
          /\ disk' = [disk EXCEPT ![f] = content]
          /\ last' = [last EXCEPT ![f] = content]
          /\ retired' = IF f # "solutions" THEN retired
                        ELSE {s \in Items : \/ IsRetired(content[2], s)
                                            \/ s \in retired \ Ids(content[2])}
          /\ stale' = {x \in stale : x # <<p, f>>}
                        \cup {<<q, f>> : q \in {r \in Procs \ {p} :
                                                   <<"write", f>> \in Range(todo[r])}}
  /\ Continue(p, Rest(p))
  /\ UNCHANGED <<up, ws, since, left>>

Crash ==
  /\ up /\ left.crashes > 0
  /\ up' = FALSE
  /\ job' = [p \in Procs |-> NoJob]
  /\ todo' = [p \in Procs |-> <<>>]
  /\ val' = [p \in Procs |-> Nothing]
  /\ stale' = {}
  /\ since' = [p \in Procs |-> [w \in Files |-> {}]]
  /\ left' = [left EXCEPT !.crashes = @ - 1]
  /\ UNCHANGED <<disk, ws, last, retired>>

One(S) == {{x} : x \in S}
Requests ==
  [kind : {"retire", "restore", "record", "failed", "dashboard"},
   arg : One(Items), other : {{}}]
    \cup [kind : {"supersede"}, arg : One(Items), other : One(Items)]
    \cup [kind : {"mark"}, arg : {{}}, other : One(Files)]
    \cup [kind : {"prompt", "rebuild", "put", "blank"}, arg : {{}}, other : {{}}]

Step(p) ==
  \/ Check(p) \/ LoadBase(p) \/ Offer(p) \/ LoadIndex(p)
  \/ BeginFresh(p) \/ Compare(p) \/ Search(p) \/ Summarize(p) \/ Return(p)
  \/ Look(p) \/ Truncate(p) \/ Write(p)

Next ==
  \/ Boot
  \/ Crash
  \/ \E w \in Files : Edit(w)
  \/ \E p \in Procs : Step(p) \/ \E r \in Requests : Begin(p, r)

Spec == Init /\ [][Next]_vars

-----------------------------------------------------------------------------
(* Properties *)

Contents(f) ==
  CASE f \in {"solutions", "errors"} -> {Base(kb) : kb \in Bases}
    [] f = "project" -> {Template, Profile, User, Mixed}
    [] f = "index" -> {Index(i) : i \in [Files -> 0..MaxEdits]}

\* A knowledge base holds at most MaxItems items, each once, and no two jobs mix
\* two kinds of content in one file.
TypeOK ==
  /\ \A f \in Stores : disk[f] \in {Missing, Empty} \cup Contents(f)
  /\ \A p \in Procs : todo[p] # <<>> => up /\ job[p].kind \in Kinds

Writes(p, f) == At(p, "write") /\ File(p) = f /\ todo'[p] # todo[p] /\ up'
\* A write makes a solution active that was retired, be it in this base or before
\* the base lost it.
Reactivates(p, s) ==
  Writes(p, "solutions") /\ s \in retired /\ IsActive(last'["solutions"][2], s)
\* The base has lost a solution that it had.
Lost(s) == s \in retired \ Ids(last["solutions"][2])
\* A write takes an item out of a knowledge base.
Drops(p, f, s) ==
  /\ Writes(p, f) /\ last[f] # Missing
  /\ s \in Ids(last[f][2]) \ Ids(last'[f][2])
ReplacesEdit(p) == Writes(p, "project") /\ last["project"] = User
Restores(p, s) == job[p].kind = "restore" /\ s \in job[p].arg
Replaces(p) == job[p].kind \in {"put", "blank"}

\* Whatever happens, the index that EnsureFreshFileIndex returns is as fresh as
\* a check without locks can be: for every file the version it summarises, or
\* its absence, was true at some moment of the call.  A file may be absent also
\* because the call could not read it or because the index is full.  Jobs that
\* write back an index they read before a rebuild do not get past the next check.
FreshEntries ==
  \A p \in Procs :
    At(p, "return") =>
      \A w \in Files : \/ val[p][2][w] \in since[p][w]
                       \/ val[p][2][w] = 0 /\ Full(val[p][2])

\* What the knowledge bases and the project memory hold is undone only by an
\* operator, by two writes that overlap, or at the limit.  As long as nobody wrote
\* the file since the writer read it, a solution that was ever retired becomes
\* active only by a restore or when the base has lost it and it is learned anew; a
\* base loses an item only when it is full; and the user's project memory is
\* replaced only by a request to replace it.  Turns that learn the solution again,
\* prompts that mark solutions as used and the generated profile all write these
\* files.
NothingLostAlone ==
  [][\A p \in Procs :
       /\ \A s \in Items :
            Reactivates(p, s) => Restores(p, s) \/ <<p, "solutions">> \in stale \/ Lost(s)
       /\ \A f \in {"solutions", "errors"}, s \in Items :
            Drops(p, f, s) => Len(last[f][2]) = MaxItems \/ <<p, f>> \in stale
       /\ ReplacesEdit(p) => Replaces(p) \/ <<p, "project">> \in stale]_vars

\* store.go:148: "Existing user edits are never overwritten."  The profile is
\* generated between the look at project.md and the write.
UserEditsKept == [][\A p \in Procs : ReplacesEdit(p) => Replaces(p)]_vars

\* docs/resources.md:220: a retired solution stays out of search and prompts
\* until it is restored.
RetiredStaysOut ==
  [][\A p \in Procs, s \in Items : Reactivates(p, s) => Restores(p, s)]_vars
=============================================================================
