---------------------------- MODULE SessionStore ----------------------------
(***************************************************************************)
(* The session of a GoFlow process: what it keeps in memory, how it is     *)
(* written to and read from disk (internal/session/state.go, archive.go,   *)
(* compaction.go), how the HTTP server exchanges it when the operator      *)
(* selects another workspace (internal/api/workspace.go, the rebinder in   *)
(* cmd/goflow/main.go), and what a client that follows a run's event       *)
(* stream receives while all of that goes on.                              *)
(*                                                                         *)
(* One session file belongs to a path.  A session is cut down to one run   *)
(* with its replay events; an event has its sequence number, an identity   *)
(* of its own (a ghost) and the form its content is kept in.               *)
(***************************************************************************)
EXTENDS Integers, Sequences, SequencesExt, FiniteSetsExt, Filters

CONSTANTS Workspaces,   \* the workspace roots, the first of which is Home
          Home,         \* the workspace the process starts in
          SharedPath,   \* persist_path is absolute, so every workspace shares it
          Selectors,    \* HTTP requests that select a workspace
          EventWindow,  \* maxAgentRunEvents
          MaxEvents,    \* bound: events made in a behaviour
          MaxApps,      \* bound: sessions bootstrapped by one process
          MaxStarts,    \* bound: starts of the process
          MaxCrashes,   \* bound: kills of the process
          MaxFaults     \* bound: file operations that fail

ASSUME HomeAssumption == Home \in Workspaces
ASSUME SharedAssumption == SharedPath \in BOOLEAN
ASSUME NamesAssumption == Selectors \cap {"nobody", "run", "main"} = {}
ASSUME BoundAssumption == /\ {EventWindow, MaxEvents} \subseteq Nat \ {0}
                          /\ {MaxApps, MaxStarts, MaxCrashes, MaxFaults} \subseteq Nat

VARIABLES
  phase,     \* "down", "up", "stopping", "stopped" or "refused"
  apps,      \* the RuntimeApps this process bootstrapped: workspace and session
  current,   \* main's currentApp: the one saved at the end
  serving,   \* the server's s.runtime and s.workspace
  exec,      \* who holds agentExecMu and workflowExecMu
  select,    \* the select requests
  save,      \* the Save under way
  disk,      \* session.json and its archive, of every path
  client,    \* the client that follows the run
  counts,    \* events made, starts, crashes and faults so far
  log,       \* ghost: the events recorded for every path, in order
  image      \* ghost: the session the last finished Save of a path wrote

vars == <<phase, apps, current, serving, exec, select, save, disk, client,
          counts, log, image>>
memory == <<apps, current, serving, exec, select, save>>

None == 0
Nobody == "nobody"
Runner == "run"

Path(w) == IF SharedPath THEN Home ELSE w
Paths == {Path(w) : w \in Workspaces}

EmptySession == [run |-> "none", events |-> <<>>]
Absent == [kind |-> "absent", data |-> EmptySession]
Torn   == [kind |-> "torn", data |-> EmptySession]
Whole(data) == [kind |-> "whole", data |-> data]

Idle == [pc |-> "idle", workspace |-> Home, app |-> None]
NoSave == [pc |-> "none", app |-> None, by |-> Nobody, image |-> EmptySession]

-----------------------------------------------------------------------------
(* Replay events *)

\* Sequence numbers count the kept events.
LengthSeq(events) == Len(events) + 1

NextSeq(events) == Max({0} \cup {events[i].seq : i \in DOMAIN events}) + 1

\* The window is not trimmed.
Unbounded(events) == events

\* The last EventWindow events.
Bounded(events) ==
  IF Len(events) <= EventWindow
  THEN events
  ELSE SubSeq(events, Len(events) - EventWindow + 1, Len(events))

Recorded(session, id) ==
  [session EXCEPT !.events =
     Bounded(Append(@, [seq |-> NextSeq(@), id |-> id, form |-> "full"]))]

-----------------------------------------------------------------------------
(* Save and Load *)

\* session.json keeps every record and cuts the long texts; the archive keeps
\* them whole.
Compacted(session) ==
  [session EXCEPT !.events = [i \in DOMAIN @ |-> [@[i] EXCEPT !.form = "cut"]]]

\* What Load returns for the files of a path, and what it leaves on disk.
\* Without session.json there is no session; a readable archive wins; without
\* an archive session.json is read and migrated: its content becomes the
\* archive.  session.json is rewritten when its compact form is much shorter.
LoadRefuses(files) ==
  /\ files.file.kind # "absent"
  /\ \/ files.archive.kind = "torn"
     \/ files.archive.kind = "absent" /\ files.file.kind = "torn"

Loaded(files) ==
  IF files.file.kind = "absent" THEN EmptySession
  ELSE IF files.archive.kind = "whole" THEN files.archive.data ELSE files.file.data

Migrated(files) ==
  IF files.file.kind = "absent" \/ LoadRefuses(files) THEN files
  ELSE [archive |-> Whole(Loaded(files)),
        file |-> IF files.file.kind = "whole" THEN Whole(Compacted(Loaded(files)))
                 ELSE files.file]

SavePath == Path(apps[save.app].ws)

\* The archive is written in place instead of through a temporary file.
WriteInPlace ==
  /\ save.pc = "archive"
  /\ save' = [save EXCEPT !.pc = "rename"]
  /\ disk' = [disk EXCEPT ![SavePath].archive = Torn]
  /\ UNCHANGED <<phase, apps, current, serving, exec, select, client, counts, log, image>>

\* writeFullSessionArchive: a temporary file, then the old archive is removed.
WriteTemporary ==
  /\ save.pc = "archive"
  /\ save' = [save EXCEPT !.pc = "rename"]
  /\ disk' = [disk EXCEPT ![SavePath].archive = Absent]
  /\ UNCHANGED <<phase, apps, current, serving, exec, select, client, counts, log, image>>

RenameArchive ==
  /\ save.pc = "rename"
  /\ save' = [save EXCEPT !.pc = "file"]
  /\ disk' = [disk EXCEPT ![SavePath].archive = Whole(save.image)]
  /\ UNCHANGED <<phase, apps, current, serving, exec, select, client, counts, log, image>>

\* When the rename fails the temporary file is copied, which is not atomic.
CopyArchive ==
  /\ save.pc = "rename" /\ counts.faults < MaxFaults
  /\ counts' = [counts EXCEPT !.faults = @ + 1]
  /\ save' = [save EXCEPT !.pc = "copy"]
  /\ disk' = [disk EXCEPT ![SavePath].archive = Torn]
  /\ UNCHANGED <<phase, apps, current, serving, exec, select, client, log, image>>

FinishCopy ==
  /\ save.pc = "copy"
  /\ save' = [save EXCEPT !.pc = "file"]
  /\ disk' = [disk EXCEPT ![SavePath].archive = Whole(save.image)]
  /\ UNCHANGED <<phase, apps, current, serving, exec, select, client, counts, log, image>>

\* os.WriteFile truncates session.json and then writes it.
TruncateFile ==
  /\ save.pc = "file"
  /\ save' = [save EXCEPT !.pc = "write"]
  /\ disk' = [disk EXCEPT ![SavePath].file = Torn]
  /\ UNCHANGED <<phase, apps, current, serving, exec, select, client, counts, log, image>>

WriteFile ==
  /\ save.pc = "write"
  /\ save' = [save EXCEPT !.pc = "done"]
  /\ disk' = [disk EXCEPT ![SavePath].file = Whole(Compacted(save.image))]
  /\ image' = [image EXCEPT ![SavePath] = save.image]
  /\ UNCHANGED <<phase, apps, current, serving, exec, select, client, counts, log>>

\* A file operation fails: Save returns the error and leaves the disk as it is.
SaveFails ==
  /\ save.pc \in {"archive", "copy", "write"} /\ counts.faults < MaxFaults
  /\ counts' = [counts EXCEPT !.faults = @ + 1]
  /\ save' = [save EXCEPT !.pc = "failed"]
  /\ UNCHANGED <<phase, apps, current, serving, exec, select, disk, client, log, image>>

Saving == \/ WriteTemporary \/ RenameArchive \/ CopyArchive \/ FinishCopy
          \/ TruncateFile \/ WriteFile \/ SaveFails

BeginSave(a, by) ==
  /\ save = NoSave
  /\ save' = [pc |-> "archive", app |-> a, by |-> by, image |-> apps[a].session]

-----------------------------------------------------------------------------
(* Init and the life of the process *)

\* A session.json of an older version: not compacted, and no archive beside it.
LegacyFiles ==
  [archive |-> Absent,
   file |-> Whole([EmptySession EXCEPT !.run = "completed",
                     !.events = <<[seq |-> 1, id |-> 0, form |-> "full"]>>])]

Init ==
  /\ phase = "down"
  /\ disk \in [Paths -> {[archive |-> Absent, file |-> Absent], LegacyFiles}]
  /\ apps = <<>> /\ current = None /\ serving = None /\ exec = Nobody
  /\ select = [s \in Selectors |-> Idle]
  /\ save = NoSave
  /\ client = [pc |-> "closed", since |-> 0, got |-> <<>>]
  /\ counts = [events |-> 0, starts |-> 0, crashes |-> 0, faults |-> 0]
  /\ image = [p \in Paths |-> Loaded(disk[p])]
  /\ log = [p \in Paths |-> [i \in DOMAIN image[p].events |-> image[p].events[i].id]]

Start ==
  /\ phase \in {"down", "stopped"} /\ counts.starts < MaxStarts
  /\ counts' = [counts EXCEPT !.starts = @ + 1]
  /\ disk' = [disk EXCEPT ![Path(Home)] = Migrated(@)]
  /\ IF LoadRefuses(disk[Path(Home)])
     THEN /\ phase' = "refused"
          /\ UNCHANGED <<apps, current, serving>>
     ELSE /\ phase' = "up"
          /\ apps' = <<[ws |-> Home, session |-> Loaded(disk[Path(Home)])]>>
          /\ current' = 1 /\ serving' = 1
  /\ UNCHANGED <<exec, select, save, client, log, image>>

ForgetMemory ==
  /\ apps' = <<>> /\ current' = None /\ serving' = None /\ exec' = Nobody
  /\ select' = [s \in Selectors |-> Idle]
  /\ save' = NoSave
  /\ client' = [client EXCEPT !.pc = "closed"]

\* The process is killed, or Shutdown waits five seconds for a request that
\* does not end and main exits without a Save.
Crash ==
  /\ phase \in {"up", "stopping"} /\ counts.crashes < MaxCrashes
  /\ counts' = [counts EXCEPT !.crashes = @ + 1]
  /\ phase' = "down"
  /\ ForgetMemory
  /\ UNCHANGED <<disk, log, image>>

\* Ctrl+C: Shutdown waits for the requests that are being served; a run in the
\* background is not one of them.  Then main saves currentApp.
Stop ==
  /\ phase = "up" /\ client.pc = "closed"
  /\ \A s \in Selectors : select[s].pc = "idle"
  /\ phase' = "stopping"
  /\ BeginSave(current, "main")
  /\ UNCHANGED <<apps, current, serving, exec, select, disk, client, counts, log, image>>

Exit ==
  /\ phase = "stopping" /\ save.pc \in {"done", "failed"}
  /\ phase' = "stopped"
  /\ ForgetMemory
  /\ UNCHANGED <<disk, counts, log, image>>

-----------------------------------------------------------------------------
(* Runs and clients *)

Session == apps[serving].session

\* A run, or the resumption of a paused one, takes agentExecMu.
BeginRun ==
  /\ phase = "up" /\ exec = Nobody /\ Session.run \in {"none", "awaiting_tool_approval"}
  /\ exec' = Runner
  /\ apps' = [apps EXCEPT ![serving].session.run = "running"]
  /\ UNCHANGED <<phase, current, serving, select, save, disk, client, counts, log, image>>

Record(status, holder) ==
  /\ exec = Runner /\ counts.events < MaxEvents
  /\ LET id == counts.events + 1
         p == Path(apps[serving].ws)
     IN /\ counts' = [counts EXCEPT !.events = id]
        /\ apps' = [apps EXCEPT ![serving].session = [Recorded(@, id) EXCEPT !.run = status]]
        /\ log' = [log EXCEPT ![p] = Append(@, id)]
  /\ exec' = holder
  /\ UNCHANGED <<phase, current, serving, select, save, disk, client, image>>

AppendEvent == Record("running", Runner)

\* CompleteAgentRun sets the status and appends its event in one critical section.
EndRun == \E status \in {"completed", "awaiting_tool_approval"} : Record(status, Nobody)

\* The events of Home's run that a client with this cursor has not been sent.
Unsent(since) ==
  Filter(Session.events, {i \in DOMAIN Session.events : Session.events[i].seq > since})

Follow ==
  /\ phase = "up" /\ client.pc = "closed" /\ Path(apps[serving].ws) = Path(Home)
  /\ Unsent(client.since) # <<>> \/ Session.run = "running"
  /\ client' = [client EXCEPT !.pc = "open"]
  /\ UNCHANGED <<phase, memory, disk, counts, log, image>>

\* One turn of the stream's loop: the events after the cursor, and the end of
\* the stream when the run neither runs nor is being cancelled.  Another
\* session does not have the run: the stream ends with an error.
Poll ==
  /\ client.pc = "open"
  /\ IF Path(apps[serving].ws) # Path(Home)
     THEN client' = [client EXCEPT !.pc = "closed"]
     ELSE LET sent == Unsent(client.since)
          IN client' = [pc |-> IF Session.run = "running" THEN "open" ELSE "closed",
                        since |-> Max({client.since} \cup {sent[i].seq : i \in DOMAIN sent}),
                        got |-> client.got \o [i \in DOMAIN sent |-> sent[i].id]]
  /\ UNCHANGED <<phase, memory, disk, counts, log, image>>

Disconnect ==
  /\ client.pc = "open"
  /\ client' = [client EXCEPT !.pc = "closed"]
  /\ UNCHANGED <<phase, memory, disk, counts, log, image>>

-----------------------------------------------------------------------------
(* Selecting a workspace *)

\* A request for another path than the one served goes on; the check precedes
\* the locks.
AskSelect(s) ==
  /\ phase = "up" /\ select[s].pc = "idle" /\ Len(apps) < MaxApps
  /\ \E w \in Workspaces \ {apps[serving].ws} :
       select' = [select EXCEPT ![s] = [pc |-> "asked", workspace |-> w, app |-> None]]
  /\ UNCHANGED <<phase, apps, current, serving, exec, save, disk, client, counts, log, image>>

\* workspaceRebindSessionBlockers
Blocked == Session.run \in {"running", "awaiting_tool_approval"}

\* Both execution mutexes with TryLock, then the blockers of the session.
LockSelect(s) ==
  /\ select[s].pc = "asked"
  /\ IF exec # Nobody \/ Blocked
     THEN /\ select' = [select EXCEPT ![s] = Idle]
          /\ UNCHANGED exec
     ELSE /\ select' = [select EXCEPT ![s].pc = "locked"]
          /\ exec' = s
  /\ UNCHANGED <<phase, apps, current, serving, save, disk, client, counts, log, image>>

\* Bootstrap loads the session of the new workspace before the old one is saved.
BootSelect(s) ==
  LET p == Path(select[s].workspace)
  IN /\ select[s].pc = "locked" /\ Len(apps) < MaxApps
     /\ disk' = [disk EXCEPT ![p] = Migrated(@)]
     /\ IF LoadRefuses(disk[p])
        THEN /\ select' = [select EXCEPT ![s] = Idle]
             /\ exec' = Nobody
             /\ UNCHANGED apps
        ELSE /\ apps' = Append(apps, [ws |-> select[s].workspace, session |-> Loaded(disk[p])])
             /\ select' = [select EXCEPT ![s].pc = "booted", ![s].app = Len(apps) + 1]
             /\ UNCHANGED exec
     /\ UNCHANGED <<phase, current, serving, save, client, counts, log, image>>

SaveSelect(s) ==
  /\ select[s].pc = "booted"
  /\ BeginSave(current, s)
  /\ select' = [select EXCEPT ![s].pc = "saving"]
  /\ UNCHANGED <<phase, apps, current, serving, exec, disk, client, counts, log, image>>

\* The rebinder forgets to store the new app as currentApp.
KeepOldApp(s) ==
  /\ select[s].pc = "saving" /\ save.by = s /\ save.pc \in {"done", "failed"}
  /\ save' = NoSave
  /\ IF save.pc = "done"
     THEN /\ select' = [select EXCEPT ![s].pc = "saved"]
          /\ UNCHANGED exec
     ELSE /\ select' = [select EXCEPT ![s] = Idle]
          /\ exec' = Nobody
  /\ UNCHANGED <<phase, apps, current, serving, disk, client, counts, log, image>>

\* The old app is saved and closed: currentApp changes.  A failed Save closes
\* the new app and fails the request.
SavedSelect(s) ==
  /\ select[s].pc = "saving" /\ save.by = s /\ save.pc \in {"done", "failed"}
  /\ save' = NoSave
  /\ IF save.pc = "done"
     THEN /\ current' = select[s].app
          /\ select' = [select EXCEPT ![s].pc = "saved"]
          /\ UNCHANGED exec
     ELSE /\ select' = [select EXCEPT ![s] = Idle]
          /\ exec' = Nobody
          /\ UNCHANGED current
  /\ UNCHANGED <<phase, apps, serving, disk, client, counts, log, image>>

\* The handler stores the new runtime and workspace and releases the mutexes.
ServeSelect(s) ==
  /\ select[s].pc = "saved"
  /\ serving' = select[s].app
  /\ exec' = Nobody
  /\ select' = [select EXCEPT ![s] = Idle]
  /\ UNCHANGED <<phase, apps, current, save, disk, client, counts, log, image>>

-----------------------------------------------------------------------------
Next ==
  \/ Start \/ Crash \/ Stop \/ Exit \/ Saving
  \/ BeginRun \/ AppendEvent \/ EndRun
  \/ Follow \/ Poll \/ Disconnect
  \/ \E s \in Selectors : \/ AskSelect(s) \/ LockSelect(s) \/ BootSelect(s)
                          \/ SaveSelect(s) \/ SavedSelect(s) \/ ServeSelect(s)

Spec == Init /\ [][Next]_vars

-----------------------------------------------------------------------------
(* Properties *)

Sessions == [run : {"none", "running", "awaiting_tool_approval", "completed"},
             events : UNION {[1..n -> [seq : 1..MaxEvents, id : 0..MaxEvents,
                                       form : {"full", "cut"}]] : n \in 0..EventWindow}]

\* Every session in memory and on disk is well formed; in particular a run
\* keeps at most EventWindow events, and both pointers name a loaded session
\* while the process is up.
TypeOK ==
  /\ phase \in {"down", "up", "stopping", "stopped", "refused"}
  /\ \A a \in DOMAIN apps : apps[a].ws \in Workspaces /\ apps[a].session \in Sessions
  /\ \A p \in Paths : \A f \in {"file", "archive"} :
       /\ disk[p][f].kind \in {"absent", "torn", "whole"}
       /\ disk[p][f].data \in Sessions
  /\ phase \in {"up", "stopping"} => {current, serving} \subseteq DOMAIN apps
  /\ exec \in Selectors \cup {Nobody, Runner}
  /\ save = NoSave \/ save.app \in DOMAIN apps

NothingFailed == counts.crashes = 0 /\ counts.faults = 0

\* The files survive a kill at this very moment: between any two operations of
\* a Save, of every path, Load accepts what is on disk and returns the records
\* of the last finished Save or of the one under way (the first kill; nothing
\* before it has failed).  Save writes two files in four steps (state.go,
\* archive.go), and Load chooses between them.
RecoverableNow ==
  NothingFailed =>
    \A p \in Paths :
      /\ ~LoadRefuses(disk[p])
      /\ Compacted(Loaded(disk[p])) \in
           {Compacted(image[p])}
             \cup (IF save # NoSave /\ SavePath = p THEN {Compacted(save.image)} ELSE {})

\* After a clean stop the files of every workspace the process served hold the
\* last events of its run: nothing that was recorded before, between or after
\* switches of the workspace is left behind in a session that nobody saves
\* (main.go saves currentApp only, the rebinder the app it replaces).  A run
\* still executing when the session was saved goes on recording; it is left out.
KeptAtStop ==
  phase = "stopped" /\ NothingFailed =>
    \A p \in Paths :
      LET kept == Loaded(disk[p])
      IN kept.run # "running" =>
           [i \in DOMAIN kept.events |-> kept.events[i].id]
             = SubSeq(log[p], Max({1, Len(log[p]) - EventWindow + 1}), Len(log[p]))

\* The client that follows the run receives its events in the order they were
\* recorded, each once, over any number of streams; and its cursor never passes
\* an event that it was not sent, so that what it misses was evicted from the
\* window before it asked.  The latter needs that no kill and no failed Save lost
\* events: a resumed run then numbers its new events with sequence numbers the
\* client has already seen.
StreamDelivers ==
  /\ \A i, j \in DOMAIN client.got : i < j => client.got[i] < client.got[j]
  /\ NothingFailed =>
       \A a \in DOMAIN apps :
         Path(apps[a].ws) = Path(Home) =>
           \A i \in DOMAIN apps[a].session.events :
             LET e == apps[a].session.events[i]
             IN e.seq <= client.since => e.id \in Range(client.got)
=============================================================================
