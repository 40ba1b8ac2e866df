------------------------- MODULE SessionStoreProofs -------------------------
(* Proofs about SessionStore, for any workspaces, selectors and bounds. *)
EXTENDS SessionStore, FiltersProofs

------------------------------------------------------------------------------
(* The inductive invariant                                                 *)

RunStates == {"none", "running", "awaiting_tool_approval", "completed"}
Events == [seq : 1..MaxEvents, id : 0..MaxEvents, form : {"full", "cut"}]

\* The numbers of a run's events increase, and so do their identities. Before the
\* run has completed no number is greater than its event's identity, which counts
\* all events there were; a run that has not begun has no events.
Numbered(x) ==
    /\ \A i, j \in DOMAIN x.events : i < j => x.events[i].seq < x.events[j].seq
                                          /\ x.events[i].id < x.events[j].id
    /\ x.run = "none" => x.events = <<>>
    /\ x.run # "completed" => \A i \in DOMAIN x.events : x.events[i].seq <= x.events[i].id

\* The sessions there may be when n events were made.
SessionsAt(n) ==
    {x \in [run : RunStates, events : Seq(Events)] :
        /\ Len(x.events) <= EventWindow
        /\ \A i \in DOMAIN x.events : x.events[i].id <= n
        /\ Numbered(x)}

CopiesAt(n) ==
    {c \in [kind : {"absent", "torn", "whole"}, data : SessionsAt(n)] :
        c.kind # "whole" => c.data = EmptySession}

SavePcs == {"none", "archive", "rename", "copy", "file", "write", "done", "failed"}
SelectPcs == {"idle", "asked", "locked", "booted", "saving", "saved"}

\* The types, when n events were made.
Apps(n)    == [ws : Workspaces, session : SessionsAt(n)]
AppsOK(n)  == apps \in Seq(Apps(n))
SaveOK(n)  == save \in [pc : SavePcs, app : Nat, by : Selectors \cup {Nobody, "main"},
                        image : SessionsAt(n)]
FilesAt(n) == [archive : CopiesAt(n), file : CopiesAt(n)]
DiskOK(n)  == disk \in [Paths -> FilesAt(n)]
ImageOK(n) == image \in [Paths -> SessionsAt(n)]
SelectOK   == select \in [Selectors -> [pc : SelectPcs, workspace : Workspaces, app : Nat]]

Typed(n) ==
    /\ phase \in {"down", "up", "stopping", "stopped", "refused"}
    /\ counts \in [events : 0..MaxEvents, starts : Nat, crashes : Nat, faults : Nat]
    /\ exec \in Selectors \cup {Nobody, Runner}
    /\ AppsOK(n) /\ SaveOK(n) /\ DiskOK(n) /\ ImageOK(n) /\ SelectOK

\* A process that is up has an application to save and one to serve; a process
\* that is not has nothing.
Running ==
    /\ phase \in {"up", "stopping"} => current \in DOMAIN apps /\ serving \in DOMAIN apps
    /\ phase \in {"down", "stopped", "refused"} => save.pc = "none" /\ exec = Nobody
    /\ exec = Runner => Session.run = "running"

\* A switch holds the execution mutexes from its check to its end.
Switching ==
    \A s \in Selectors :
        /\ select[s].pc # "idle" => phase = "up"
        /\ select[s].pc \in {"locked", "booted", "saving", "saved"} => exec = s
        /\ select[s].pc \in {"booted", "saving", "saved"} => select[s].app \in DOMAIN apps

\* A Save belongs to main, which is stopping, or to the switch that waits for it.
Saver ==
    /\ save.pc = "none" => save = NoSave
    /\ save.pc # "none" =>
          /\ save.app \in DOMAIN apps
          /\ \/ save.by = "main" /\ phase = "stopping"
             \/ save.by \in Selectors /\ select[save.by].pc = "saving"

\* A file that has the records of session x.
Holds(copy, x) == copy.kind = "whole" /\ Compacted(copy.data) = Compacted(x)

OldFile(files, x) ==
    \/ Holds(files.file, x)
    \/ files.file.kind = "absent" /\ Compacted(x) = Compacted(EmptySession)

\* Both files have the session x, or what stands for it.
Settled(files, x) ==
    /\ OldFile(files, x)
    /\ files.archive.kind = "absent" \/ Holds(files.archive, x)

UnderWay(p) == save.pc # "none" /\ SavePath = p

\* What a path's files hold after each step of a Save.
Progress(pc, files, old, new) ==
    \/ pc \in {"archive", "done"} /\ Settled(files, old)
    \/ pc = "rename" /\ OldFile(files, old) /\ files.archive.kind = "absent"
    \/ pc = "file" /\ OldFile(files, old) /\ Holds(files.archive, new)
    \/ pc = "write" /\ files.file.kind = "torn" /\ Holds(files.archive, new)

FilesOK(p) ==
    IF UnderWay(p) THEN Progress(save.pc, disk[p], image[p], save.image)
    ELSE Settled(disk[p], image[p])

FilesHeld == NothingFailed => \A p \in Paths : FilesOK(p)

Control == Running /\ Switching /\ Saver

IInv == Typed(counts.events) /\ Control /\ FilesHeld

------------------------------------------------------------------------------
(* Sessions                                                                *)

LEMMA Constants ==
  /\ MaxEvents \in Nat \ {0} /\ EventWindow \in Nat \ {0}
  /\ MaxApps \in Nat /\ MaxStarts \in Nat /\ MaxCrashes \in Nat /\ MaxFaults \in Nat
  /\ Home \in Workspaces /\ \A w \in Workspaces : Path(w) \in Paths
  /\ Nobody \notin Selectors /\ Runner \notin Selectors /\ "main" \notin Selectors
BY BoundAssumption, HomeAssumption, NamesAssumption DEF Path, Paths, Nobody, Runner

LEMMA Monotone ==
  ASSUME NEW m \in Nat, NEW n \in Nat, m <= n
  PROVE  SessionsAt(m) \subseteq SessionsAt(n) /\ CopiesAt(m) \subseteq CopiesAt(n)
<1>1. SessionsAt(m) \subseteq SessionsAt(n)
  <2> SUFFICES ASSUME NEW x \in SessionsAt(m) PROVE x \in SessionsAt(n)
    OBVIOUS
  <2>1. x.events \in Seq(Events) /\ \A i \in DOMAIN x.events : x.events[i].id <= m
    BY DEF SessionsAt
  <2>2. \A i \in DOMAIN x.events : x.events[i] \in Events
    BY <2>1
  <2>3. \A e \in Events : e.id \in Int
    BY Constants DEF Events
  <2>4. \A i \in DOMAIN x.events : x.events[i].id <= n
    BY <2>1, <2>2, <2>3
  <2> QED BY <2>4 DEF SessionsAt
<1> QED BY <1>1 DEF CopiesAt

LEMMA EmptyOK == ASSUME NEW n \in Nat PROVE EmptySession \in SessionsAt(n)
BY Constants DEF EmptySession, SessionsAt, RunStates, Numbered

\* Compaction keeps everything but the form of the events.
LEMMA CompactedOK ==
  ASSUME NEW n \in Nat, NEW x \in SessionsAt(n)
  PROVE  /\ Compacted(x) \in SessionsAt(n)
         /\ Compacted(Compacted(x)) = Compacted(x)
<1> DEFINE cut(e) == [e EXCEPT !.form = "cut"]
           y == Compacted(x)
<1>1. x \in [run : RunStates, events : Seq(Events)] /\ Numbered(x)
      /\ Len(x.events) <= EventWindow
      /\ \A i \in DOMAIN x.events : x.events[i].id <= n
  BY DEF SessionsAt
<1>2. \A e \in Events : cut(e) \in Events /\ cut(e).seq = e.seq /\ cut(e).id = e.id
                        /\ cut(cut(e)) = cut(e)
  BY DEF Events
<1>3. /\ y.events = [i \in DOMAIN x.events |-> cut(x.events[i])]
      /\ y.run = x.run /\ y = [run |-> x.run, events |-> y.events]
  <2> DEFINE some == [i \in DOMAIN x.events |-> cut(x.events[i])]
  <2>1. y = [x EXCEPT !.events = some]
    BY DEF Compacted
  <2> HIDE DEF some, y
  <2>2. y.events = some /\ y.run = x.run /\ y = [run |-> x.run, events |-> y.events]
    BY <1>1, <2>1
  <2> QED BY <2>2 DEF some
<1> HIDE DEF cut
<1>4. DOMAIN x.events = 1..Len(x.events) /\ Len(x.events) \in Nat
      /\ \A i \in DOMAIN x.events : x.events[i] \in Events
  BY <1>1
<1>5. y.events \in Seq(Events) /\ Len(y.events) = Len(x.events)
      /\ DOMAIN y.events = DOMAIN x.events
  BY <1>2, <1>3, <1>4
<1>6. \A i \in DOMAIN x.events : y.events[i].seq = x.events[i].seq
                                 /\ y.events[i].id = x.events[i].id
  BY <1>2, <1>3, <1>4
<1>7. Numbered(y)
  BY <1>1, <1>3, <1>5, <1>6 DEF Numbered
<1>8. y \in SessionsAt(n)
  <2> HIDE DEF y
  <2> QED BY <1>1, <1>3, <1>5, <1>6, <1>7 DEF SessionsAt
<1>9. Compacted(y) = y
  <2>1. Compacted(y).events = [i \in DOMAIN y.events |-> cut(y.events[i])]
    BY <1>3 DEF Compacted, cut
  <2>2. \A i \in DOMAIN y.events : cut(y.events[i]) = y.events[i]
    BY <1>2, <1>3, <1>4, <1>5
  <2>3. Compacted(y).events = y.events
    BY <1>3, <2>1, <2>2
  <2> DEFINE some == [i \in DOMAIN y.events |-> cut(y.events[i])]
  <2>4. Compacted(y) = [run |-> y.run, events |-> Compacted(y).events]
    <3>1. Compacted(y) = [y EXCEPT !.events = some]
      BY DEF Compacted, cut
    <3> HIDE DEF some, y
    <3> QED BY <1>3, <3>1
  <2> QED BY <1>3, <2>3, <2>4
<1> QED BY <1>8, <1>9

LEMMA GreatestIsMax ==
  ASSUME NEW S \in SUBSET Int, NEW m \in S, \A y \in S : m >= y
  PROVE  Max(S) = m
<1> DEFINE isMax(x) == x \in S /\ \A y \in S : x >= y
<1>1. isMax(m) /\ \A x : isMax(x) => x = m
  <2>1. isMax(m)
    OBVIOUS
  <2>2. ASSUME NEW x, isMax(x) PROVE x = m
    <3>1. x \in Int /\ m \in Int /\ x >= m /\ m >= x
      BY <2>2
    <3> QED BY <3>1
  <2> QED BY <2>1, <2>2
<1>2. Max(S) = CHOOSE x : isMax(x)
  BY DEF Max
<1> HIDE DEF isMax
<1>3. isMax(CHOOSE x : isMax(x))
  BY <1>1
<1> QED BY <1>1, <1>2, <1>3

\* The next number is greater than those before it and not greater than the
\* number of events that have been made.
LEMMA NextSeqOK ==
  ASSUME NEW n \in Nat, n < MaxEvents, NEW x \in SessionsAt(n), x.run # "completed"
  PROVE  /\ NextSeq(x.events) \in 1..(n + 1)
         /\ \A i \in DOMAIN x.events : x.events[i].seq < NextSeq(x.events)
<1> DEFINE ev == x.events
           seqs == {0} \cup {ev[i].seq : i \in DOMAIN ev}
<1>1. ev \in Seq(Events) /\ Len(ev) \in Nat /\ DOMAIN ev = 1..Len(ev)
  BY DEF SessionsAt
<1>2. /\ \A i \in DOMAIN ev : ev[i].seq \in 1..MaxEvents /\ ev[i].id \in Nat
      /\ \A i \in DOMAIN ev : ev[i].seq <= ev[i].id /\ ev[i].id <= n
      /\ \A i, j \in DOMAIN ev : i < j => ev[i].seq < ev[j].seq
  <2>1. \A i \in DOMAIN ev : ev[i] \in Events
    BY <1>1
  <2>2. \A e \in Events : e.seq \in 1..MaxEvents /\ e.id \in Nat
    BY Constants DEF Events
  <2> QED BY <2>1, <2>2 DEF SessionsAt, Numbered
<1>3. seqs \in SUBSET Int
  BY <1>2, Constants
<1>4. NextSeq(ev) = Max(seqs) + 1
  BY DEF NextSeq
<1>5. CASE Len(ev) = 0
  <2>1. seqs = {0}
    BY <1>1, <1>5
  <2>2. Max(seqs) = 0
    <3>1. 0 \in {0} /\ {0} \in SUBSET Int /\ \A y \in {0} : 0 >= y
      OBVIOUS
    <3>2. Max({0}) = 0
      BY <3>1, GreatestIsMax
    <3> QED BY <2>1, <3>2
  <2> QED BY <1>1, <1>4, <1>5, <2>2
<1>6. CASE Len(ev) # 0
  <2> DEFINE last == ev[Len(ev)].seq
  <2>1. Len(ev) \in DOMAIN ev
    BY <1>1, <1>6
  <2>2. \A i \in DOMAIN ev : ev[i].seq <= last
    BY <1>1, <1>2, <2>1
  <2>3. last \in seqs /\ last \in 1..n
    BY <1>2, <2>1, Constants
  <2>4. \A y \in seqs : last >= y
    BY <1>2, <2>2, <2>3
  <2> HIDE DEF last, seqs
  <2>5. Max(seqs) = last
    BY <1>3, <2>3, <2>4, GreatestIsMax
  <2> QED BY <1>2, <1>4, <2>2, <2>3, <2>5 DEF last
<1> QED BY <1>5, <1>6

\* How many of n events are evicted, and what stays.
Evicted(n) == IF n <= EventWindow THEN 0 ELSE n - EventWindow

LEMMA BoundedOK ==
  ASSUME NEW S, NEW s \in Seq(S)
  PROVE  /\ Bounded(s) \in Seq(S) /\ Evicted(Len(s)) \in 0..Len(s)
         /\ Len(Bounded(s)) = Len(s) - Evicted(Len(s)) /\ Len(Bounded(s)) <= EventWindow
         /\ \A i \in 1..Len(Bounded(s)) :
               /\ i + Evicted(Len(s)) \in 1..Len(s)
               /\ Bounded(s)[i] = s[i + Evicted(Len(s))]
<1> DEFINE L == Len(s)
           off == Evicted(L)
           kept == Bounded(s)
<1>1. L \in Nat /\ EventWindow \in Nat /\ EventWindow > 0
  BY Constants
<1>2. CASE L <= EventWindow
  <2>1. kept = s /\ off = 0
    BY <1>2 DEF Bounded, Evicted
  <2> QED BY <1>1, <1>2, <2>1
<1>3. CASE ~(L <= EventWindow)
  <2> DEFINE a == off + 1
  <2>1. kept = SubSeq(s, L - EventWindow + 1, L) /\ off = L - EventWindow
    BY <1>3 DEF Bounded, Evicted
  <2>2. /\ off \in 0..L /\ a \in 1..L /\ L - off = EventWindow
        /\ a = L - EventWindow + 1 /\ L - a + 1 = EventWindow
    BY <1>1, <1>3, <2>1
  <2>3. kept = SubSeq(s, a, L)
    BY <2>1, <2>2
  <2> HIDE DEF kept, off, a, L
  <2>4. kept \in Seq(S) /\ Len(kept) = L - a + 1
        /\ \A i \in 1..(L - a + 1) : kept[i] = s[a + i - 1]
    BY <1>1, <2>2, <2>3 DEF L
  <2>5. ASSUME NEW i \in 1..Len(kept) PROVE i + off \in 1..L /\ kept[i] = s[i + off]
    <3>1. i \in 1..EventWindow /\ i \in Int /\ off \in Int
      BY <1>1, <2>2, <2>4, <2>5
    <3>2. i + off = a + i - 1
      BY <3>1 DEF a
    <3>3. i + off >= 1 /\ i + off <= L
      BY <1>1, <2>2, <3>1
    <3> QED BY <1>1, <2>2, <2>4, <3>1, <3>2, <3>3
  <2> QED BY <1>1, <2>2, <2>4, <2>5 DEF kept, off, L
<1> QED BY <1>2, <1>3

LEMMA RecordedOK ==
  ASSUME NEW n \in Nat, n < MaxEvents, NEW x \in SessionsAt(n), x.run # "completed",
         NEW status \in RunStates \ {"none"}
  PROVE  [Recorded(x, n + 1) EXCEPT !.run = status] \in SessionsAt(n + 1)
<1> DEFINE ev   == x.events
           e    == [seq |-> NextSeq(ev), id |-> n + 1, form |-> "full"]
           all  == Append(ev, e)
           L    == Len(ev) + 1
           off  == Evicted(L)
           kept == Bounded(all)
<1>1. ev \in Seq(Events) /\ Len(ev) \in Nat /\ L \in Nat /\ x.run \in RunStates
      /\ x = [run |-> x.run, events |-> ev]
  BY DEF SessionsAt
<1>2. e \in Events /\ e.seq <= e.id /\ e.id = n + 1
  BY NextSeqOK, Constants DEF Events
<1> HIDE DEF e
<1>3. all \in Seq(Events) /\ Len(all) = L /\ DOMAIN all = 1..L
      /\ \A i \in 1..L : all[i] = IF i = L THEN e ELSE ev[i]
  BY <1>1, <1>2
<1>4. /\ \A i \in 1..L : all[i].seq \in Int /\ all[i].id \in Int
      /\ \A i \in 1..L : all[i].seq <= all[i].id /\ all[i].id <= n + 1
      /\ \A i, j \in 1..L : i < j => all[i].seq < all[j].seq /\ all[i].id < all[j].id
  <2>1. \A i \in 1..L : all[i] \in Events
    BY <1>3
  <2>2. \A y \in Events : y.seq \in Int /\ y.id \in Int
    BY Constants DEF Events
  <2>3. \A i \in DOMAIN ev : ev[i].seq < e.seq /\ ev[i].seq <= ev[i].id /\ ev[i].id <= n
    BY NextSeqOK DEF SessionsAt, Numbered, e
  <2>4. DOMAIN ev = 1..(L - 1) /\ \A i \in 1..L : i # L => i \in DOMAIN ev
    BY <1>1
  <2>5. \A i, j \in DOMAIN ev : i < j => ev[i].seq < ev[j].seq /\ ev[i].id < ev[j].id
    BY DEF SessionsAt, Numbered
  <2>6. \A i \in 1..L : all[i].seq <= all[i].id /\ all[i].id <= n + 1
    <3> SUFFICES ASSUME NEW i \in 1..L
                 PROVE  all[i].seq <= all[i].id /\ all[i].id <= n + 1
      OBVIOUS
    <3>1. CASE i = L
      BY <1>2, <1>3, <3>1
    <3>2. CASE i # L
      <4>1. ev[i].id \in Int /\ ev[i].id <= n /\ all[i] = ev[i]
        BY <1>3, <2>1, <2>2, <2>3, <2>4, <3>2
      <4> QED BY <2>3, <2>4, <3>2, <4>1
    <3> QED BY <3>1, <3>2
  <2>7. \A i, j \in 1..L : i < j => all[i].seq < all[j].seq /\ all[i].id < all[j].id
    <3> SUFFICES ASSUME NEW i \in 1..L, NEW j \in 1..L, i < j
                 PROVE  all[i].seq < all[j].seq /\ all[i].id < all[j].id
      OBVIOUS
    <3>1. i # L /\ i \in DOMAIN ev /\ all[i] = ev[i]
      BY <2>4, <1>1, <1>3
    <3>2. CASE j = L
      <4>1. all[j] = e /\ ev[i].id <= n /\ ev[i].id \in Int
        BY <1>3, <2>1, <2>2, <2>3, <3>1, <3>2
      <4> QED BY <1>2, <2>3, <3>1, <4>1
    <3>3. CASE j # L
      BY <1>3, <2>4, <2>5, <3>1, <3>3
    <3> QED BY <3>2, <3>3
  <2> QED BY <2>1, <2>2, <2>6, <2>7
<1> HIDE DEF all
<1>5. /\ kept \in Seq(Events) /\ Len(kept) <= EventWindow /\ off \in Nat
      /\ \A i \in DOMAIN kept : i \in Int /\ i + off \in 1..L /\ kept[i] = all[i + off]
  <2>1. kept \in Seq(Events) /\ Len(kept) <= EventWindow /\ off \in 0..L
        /\ \A i \in 1..Len(kept) : i + off \in 1..L /\ kept[i] = all[i + off]
    BY <1>3, BoundedOK
  <2>2. off \in Nat /\ DOMAIN kept = 1..Len(kept) /\ Len(kept) \in Nat
    BY <1>1, <2>1
  <2> QED BY <2>1, <2>2
<1> HIDE DEF kept, off, L
<1>6. \A i \in DOMAIN kept : kept[i].id <= n + 1 /\ kept[i].seq <= kept[i].id
  BY <1>4, <1>5
<1>7. \A i, j \in DOMAIN kept : i < j => kept[i].seq < kept[j].seq
                                         /\ kept[i].id < kept[j].id
  <2> SUFFICES ASSUME NEW i \in DOMAIN kept, NEW j \in DOMAIN kept, i < j
               PROVE  kept[i].seq < kept[j].seq /\ kept[i].id < kept[j].id
    OBVIOUS
  <2>1. /\ i + off \in 1..L /\ j + off \in 1..L
        /\ kept[i] = all[i + off] /\ kept[j] = all[j + off]
    BY <1>5
  <2>2. i + off < j + off
    BY <1>5
  <2> QED BY <1>4, <2>1, <2>2
<1> DEFINE z == [run |-> status, events |-> kept]
<1>8. z \in SessionsAt(n + 1)
  <2>1. z.run = status /\ z.events = kept
    OBVIOUS
  <2>2. Numbered(z)
    BY <1>6, <1>7, <2>1 DEF Numbered
  <2>3. z \in [run : RunStates, events : Seq(Events)]
    BY <1>5
  <2> HIDE DEF z
  <2> QED BY <1>5, <1>6, <2>1, <2>2, <2>3 DEF SessionsAt
<1>9. [Recorded(x, n + 1) EXCEPT !.run = status] = z
  <2>1. Recorded(x, n + 1) = [x EXCEPT !.events = kept]
    BY DEF Recorded, kept, all, e
  <2> QED BY <1>1, <2>1
<1> QED BY <1>8, <1>9

------------------------------------------------------------------------------
(* Load                                                                    *)

\* Whatever is on disk, what Load returns is a session, and so is what it leaves.
LEMMA LoadedOK ==
  ASSUME NEW n \in Nat, NEW files \in FilesAt(n)
  PROVE  Loaded(files) \in SessionsAt(n) /\ Migrated(files) \in FilesAt(n)
<1>1. Loaded(files) \in SessionsAt(n)
  BY EmptyOK DEF Loaded, FilesAt, CopiesAt
<1>2. Whole(Loaded(files)) \in CopiesAt(n) /\ Whole(Compacted(Loaded(files))) \in CopiesAt(n)
  BY <1>1, CompactedOK DEF Whole, CopiesAt
<1>3. Migrated(files) \in FilesAt(n)
  BY <1>2 DEF Migrated, FilesAt
<1> QED BY <1>1, <1>3

\* Settled files are accepted, Load returns their session and leaves them settled.
LEMMA LoadedSettled ==
  ASSUME NEW n \in Nat, NEW files \in FilesAt(n), NEW x, Settled(files, x)
  PROVE  /\ ~LoadRefuses(files)
         /\ Compacted(Loaded(files)) = Compacted(x)
         /\ Settled(Migrated(files), x)
<1> DEFINE d == Loaded(files)
<1>1. ~LoadRefuses(files)
  BY DEF LoadRefuses, Settled, OldFile, Holds
<1>2. Compacted(d) = Compacted(x)
  BY DEF Loaded, Settled, OldFile, Holds
<1>3. d \in SessionsAt(n) /\ Compacted(Compacted(d)) = Compacted(d)
  BY LoadedOK, CompactedOK
<1>4. CASE files.file.kind = "absent"
  <2>1. Migrated(files) = files
    BY <1>4 DEF Migrated
  <2> QED BY <1>1, <1>2, <2>1
<1>5. CASE files.file.kind = "whole"
  <2>1. Migrated(files) = [archive |-> Whole(d), file |-> Whole(Compacted(d))]
    BY <1>1, <1>5 DEF Migrated
  <2>2. Holds(Whole(d), x) /\ Holds(Whole(Compacted(d)), x)
    <3> HIDE DEF d
    <3> QED BY <1>2, <1>3 DEF Holds, Whole
  <2>3. Migrated(files).archive = Whole(d) /\ Migrated(files).file = Whole(Compacted(d))
    BY <2>1
  <2> HIDE DEF d
  <2>4. Settled(Migrated(files), x)
    BY <2>2, <2>3 DEF Settled, OldFile
  <2> QED BY <1>1, <1>2, <2>4 DEF d
<1>6. files.file.kind \in {"absent", "whole"}
  BY DEF Settled, OldFile, Holds
<1> QED BY <1>1, <1>2, <1>4, <1>5, <1>6

------------------------------------------------------------------------------
(* Save                                                                    *)

\* The steps of a Save leave everything but its place alone.
LEMMA SaveStepOK ==
  ASSUME NEW n \in Nat, Typed(n), Control, save.pc # "none",
         NEW pc \in SavePcs \ {"none"}, save' = [save EXCEPT !.pc = pc],
         UNCHANGED <<phase, apps, current, serving, exec, select>>
  PROVE  /\ SaveOK(n)' /\ AppsOK(n)' /\ SelectOK' /\ Control'
         /\ save'.pc = pc /\ save'.image = save.image /\ SavePath' = SavePath
         /\ SavePath \in Paths /\ save.image \in SessionsAt(n)
         /\ \A p \in Paths : UnderWay(p)' <=> UnderWay(p)
<1>1. save' \in [pc : SavePcs, app : Nat, by : Selectors \cup {Nobody, "main"},
                 image : SessionsAt(n)]
      /\ save'.pc = pc /\ save'.app = save.app /\ save'.by = save.by
      /\ save'.image = save.image /\ save.image \in SessionsAt(n)
  BY DEF Typed, SaveOK
<1>2. SaveOK(n)' /\ AppsOK(n)' /\ SelectOK'
  BY <1>1 DEF SaveOK, AppsOK, SelectOK, Typed
<1>3. SavePath' = SavePath
  BY <1>1 DEF SavePath
<1>4. SavePath \in Paths
  <2>1. save.app \in DOMAIN apps
    BY DEF Control, Saver
  <2>2. apps[save.app].ws \in Workspaces
    <3>1. apps \in Seq(Apps(n))
      BY DEF Typed, AppsOK
    <3>2. apps[save.app] \in Apps(n)
      BY <2>1, <3>1
    <3> QED BY <3>2 DEF Apps
  <2> QED BY <2>2, Constants DEF SavePath
<1>5. Running' /\ Switching'
  BY <1>1 DEF Control, Running, Switching, Session
<1>6. Saver'
  BY <1>1 DEF Control, Saver
<1>7. \A p \in Paths : UnderWay(p)' <=> UnderWay(p)
  BY <1>1, <1>3 DEF UnderWay
<1> QED BY <1>1, <1>2, <1>3, <1>4, <1>5, <1>6, <1>7 DEF Control

\* A step that writes one file of a path.
LEMMA WriteOK ==
  ASSUME NEW n \in Nat, DiskOK(n), NEW q \in Paths, NEW copy \in CopiesAt(n)
  PROVE  /\ disk' = [disk EXCEPT ![q].archive = copy] =>
               /\ DiskOK(n)' /\ \A p \in Paths \ {q} : disk'[p] = disk[p]
               /\ disk'[q].archive = copy /\ disk'[q].file = disk[q].file
         /\ disk' = [disk EXCEPT ![q].file = copy] =>
               /\ DiskOK(n)' /\ \A p \in Paths \ {q} : disk'[p] = disk[p]
               /\ disk'[q].file = copy /\ disk'[q].archive = disk[q].archive
BY DEF DiskOK, FilesAt

\* A step of Save keeps the invariant when it makes the progress of its place.
LEMMA SavingOK ==
  ASSUME NEW n \in Nat, n = counts.events, n = counts'.events, IInv, save.pc # "none",
         NEW pc \in SavePcs \ {"none"}, save' = [save EXCEPT !.pc = pc],
         UNCHANGED <<phase, apps, current, serving, exec, select>>,
         counts' \in [events : 0..MaxEvents, starts : Nat, crashes : Nat, faults : Nat],
         NothingFailed' => NothingFailed, DiskOK(n)', ImageOK(n)',
         \A p \in Paths \ {SavePath} : disk'[p] = disk[p] /\ image'[p] = image[p],
         NothingFailed' =>
             Progress(pc, disk'[SavePath], image'[SavePath], save.image)
  PROVE  IInv'
<1>1. Typed(n) /\ Control
  BY DEF IInv
<1>2. /\ SaveOK(n)' /\ AppsOK(n)' /\ SelectOK' /\ Control'
      /\ save'.pc = pc /\ save'.image = save.image /\ SavePath' = SavePath
      /\ \A p \in Paths : UnderWay(p)' <=> UnderWay(p)
  BY <1>1, SaveStepOK
<1>3. Typed(n)'
  BY <1>1, <1>2 DEF Typed
<1>4. FilesHeld'
  <2> SUFFICES ASSUME NothingFailed', NEW p \in Paths PROVE FilesOK(p)'
    BY DEF FilesHeld, Paths, Path
  <2>1. FilesOK(p)
    BY DEF IInv, FilesHeld
  <2>2. CASE p = SavePath
    <3>1. UnderWay(p)' /\ Progress(save.pc, disk[p], image[p], save.image)'
      BY <1>2, <2>2 DEF UnderWay, NothingFailed
    <3> QED BY <3>1 DEF FilesOK
  <2>3. CASE p # SavePath
    BY <1>2, <2>1, <2>3 DEF FilesOK, UnderWay
  <2> QED BY <2>2, <2>3
<1> QED BY <1>2, <1>3, <1>4 DEF IInv

\* What the file operations write.
LEMMA WrittenOK ==
  ASSUME NEW n \in Nat, NEW x \in SessionsAt(n)
  PROVE  /\ {Absent, Torn, Whole(x), Whole(Compacted(x))} \subseteq CopiesAt(n)
         /\ Absent.kind = "absent" /\ Torn.kind = "torn"
         /\ Holds(Whole(x), x) /\ Holds(Whole(Compacted(x)), x)
<1>1. EmptySession \in SessionsAt(n) /\ Compacted(x) \in SessionsAt(n)
      /\ Compacted(Compacted(x)) = Compacted(x)
  BY EmptyOK, CompactedOK
<1> QED BY <1>1 DEF Absent, Torn, Whole, CopiesAt, Holds

\* The facts that every step of a Save uses.
LEMMA SaveFacts ==
  ASSUME NEW n \in Nat, n = counts.events, IInv, save.pc # "none"
  PROVE  /\ DiskOK(n) /\ ImageOK(n) /\ save.image \in SessionsAt(n) /\ SavePath \in Paths
         /\ counts \in [events : 0..MaxEvents, starts : Nat, crashes : Nat, faults : Nat]
         /\ NothingFailed =>
              Progress(save.pc, disk[SavePath], image[SavePath], save.image)
<1>1. DiskOK(n) /\ ImageOK(n) /\ save.image \in SessionsAt(n)
      /\ counts \in [events : 0..MaxEvents, starts : Nat, crashes : Nat, faults : Nat]
  BY DEF IInv, Typed, SaveOK
<1>2. SavePath \in Paths
  <2>1. save.app \in DOMAIN apps /\ apps \in Seq(Apps(n))
    BY DEF IInv, Typed, AppsOK, Control, Saver
  <2>2. apps[save.app] \in Apps(n)
    BY <2>1
  <2> QED BY <2>2, Constants DEF SavePath, Apps
<1>3. NothingFailed => Progress(save.pc, disk[SavePath], image[SavePath], save.image)
  BY <1>2 DEF IInv, FilesHeld, FilesOK, UnderWay
<1> QED BY <1>1, <1>2, <1>3

LEMMA WriteTemporaryOK ==
  ASSUME NEW n \in Nat, n = counts.events, IInv, WriteTemporary PROVE IInv'
<1>1. save.pc = "archive" /\ save' = [save EXCEPT !.pc = "rename"]
      /\ disk' = [disk EXCEPT ![SavePath].archive = Absent]
      /\ UNCHANGED <<phase, apps, current, serving, exec, select, counts, image>>
  BY DEF WriteTemporary
<1>2. /\ DiskOK(n)' /\ \A p \in Paths \ {SavePath} : disk'[p] = disk[p]
      /\ disk'[SavePath].archive = Absent /\ disk'[SavePath].file = disk[SavePath].file
  <2>1. DiskOK(n) /\ SavePath \in Paths /\ Absent \in CopiesAt(n)
    BY <1>1, SaveFacts, WrittenOK
  <2> QED BY <1>1, <2>1, WriteOK
<1>3. NothingFailed' => Progress("rename", disk'[SavePath], image'[SavePath], save.image)
  BY <1>1, <1>2, SaveFacts, WrittenOK DEF Progress, Settled, OldFile, NothingFailed
<1>4. (NothingFailed' => NothingFailed) /\ ImageOK(n)'
  BY <1>1, SaveFacts DEF NothingFailed, ImageOK
<1> QED BY <1>1, <1>2, <1>3, <1>4, SaveFacts, SavingOK DEF SavePcs

LEMMA RenameArchiveOK ==
  ASSUME NEW n \in Nat, n = counts.events, IInv, RenameArchive PROVE IInv'
<1>1. save.pc = "rename" /\ save' = [save EXCEPT !.pc = "file"]
      /\ disk' = [disk EXCEPT ![SavePath].archive = Whole(save.image)]
      /\ UNCHANGED <<phase, apps, current, serving, exec, select, counts, image>>
  BY DEF RenameArchive
<1>2. /\ DiskOK(n)' /\ \A p \in Paths \ {SavePath} : disk'[p] = disk[p]
      /\ disk'[SavePath].archive = Whole(save.image) /\ disk'[SavePath].file = disk[SavePath].file
  <2>1. DiskOK(n) /\ SavePath \in Paths /\ Whole(save.image) \in CopiesAt(n)
    BY <1>1, SaveFacts, WrittenOK
  <2> QED BY <1>1, <2>1, WriteOK
<1>3. NothingFailed' => Progress("file", disk'[SavePath], image'[SavePath], save.image)
  BY <1>1, <1>2, SaveFacts, WrittenOK DEF Progress, OldFile, NothingFailed
<1>4. (NothingFailed' => NothingFailed) /\ ImageOK(n)'
  BY <1>1, SaveFacts DEF NothingFailed, ImageOK
<1> QED BY <1>1, <1>2, <1>3, <1>4, SaveFacts, SavingOK DEF SavePcs

LEMMA CopyArchiveOK ==
  ASSUME NEW n \in Nat, n = counts.events, IInv, CopyArchive PROVE IInv'
<1>1. save.pc = "rename" /\ save' = [save EXCEPT !.pc = "copy"]
      /\ disk' = [disk EXCEPT ![SavePath].archive = Torn]
      /\ UNCHANGED <<phase, apps, current, serving, exec, select, image>>
  BY DEF CopyArchive
<1>2. /\ DiskOK(n)' /\ \A p \in Paths \ {SavePath} : disk'[p] = disk[p]
      /\ disk'[SavePath].archive = Torn /\ disk'[SavePath].file = disk[SavePath].file
  <2>1. DiskOK(n) /\ SavePath \in Paths /\ Torn \in CopiesAt(n)
    BY <1>1, SaveFacts, WrittenOK
  <2> QED BY <1>1, <2>1, WriteOK
<1>3. /\ counts' \in [events : 0..MaxEvents, starts : Nat, crashes : Nat, faults : Nat]
      /\ counts'.events = n /\ ~NothingFailed'
  BY SaveFacts, <1>1 DEF CopyArchive, NothingFailed
<1>4. ImageOK(n)'
  BY <1>1, SaveFacts DEF ImageOK
<1> QED BY <1>1, <1>2, <1>3, <1>4, SavingOK DEF SavePcs

LEMMA FinishCopyOK ==
  ASSUME NEW n \in Nat, n = counts.events, IInv, FinishCopy PROVE IInv'
<1>1. save.pc = "copy" /\ save' = [save EXCEPT !.pc = "file"]
      /\ disk' = [disk EXCEPT ![SavePath].archive = Whole(save.image)]
      /\ UNCHANGED <<phase, apps, current, serving, exec, select, counts, image>>
  BY DEF FinishCopy
<1>2. /\ DiskOK(n)' /\ \A p \in Paths \ {SavePath} : disk'[p] = disk[p]
      /\ disk'[SavePath].archive = Whole(save.image) /\ disk'[SavePath].file = disk[SavePath].file
  <2>1. DiskOK(n) /\ SavePath \in Paths /\ Whole(save.image) \in CopiesAt(n)
    BY <1>1, SaveFacts, WrittenOK
  <2> QED BY <1>1, <2>1, WriteOK
<1>3. ~NothingFailed /\ ~NothingFailed'
  BY <1>1, SaveFacts DEF Progress, NothingFailed
<1>4. ImageOK(n)'
  BY <1>1, SaveFacts DEF ImageOK
<1> QED BY <1>1, <1>2, <1>3, <1>4, SaveFacts, SavingOK DEF SavePcs

LEMMA TruncateFileOK ==
  ASSUME NEW n \in Nat, n = counts.events, IInv, TruncateFile PROVE IInv'
<1>1. save.pc = "file" /\ save' = [save EXCEPT !.pc = "write"]
      /\ disk' = [disk EXCEPT ![SavePath].file = Torn]
      /\ UNCHANGED <<phase, apps, current, serving, exec, select, counts, image>>
  BY DEF TruncateFile
<1>2. /\ DiskOK(n)' /\ \A p \in Paths \ {SavePath} : disk'[p] = disk[p]
      /\ disk'[SavePath].file = Torn /\ disk'[SavePath].archive = disk[SavePath].archive
  <2>1. DiskOK(n) /\ SavePath \in Paths /\ Torn \in CopiesAt(n)
    BY <1>1, SaveFacts, WrittenOK
  <2> QED BY <1>1, <2>1, WriteOK
<1>3. NothingFailed' => Progress("write", disk'[SavePath], image'[SavePath], save.image)
  BY <1>1, <1>2, SaveFacts, WrittenOK DEF Progress, NothingFailed
<1>4. (NothingFailed' => NothingFailed) /\ ImageOK(n)'
  BY <1>1, SaveFacts DEF NothingFailed, ImageOK
<1> QED BY <1>1, <1>2, <1>3, <1>4, SaveFacts, SavingOK DEF SavePcs

LEMMA WriteFileOK ==
  ASSUME NEW n \in Nat, n = counts.events, IInv, WriteFile PROVE IInv'
<1>1. save.pc = "write" /\ save' = [save EXCEPT !.pc = "done"]
      /\ disk' = [disk EXCEPT ![SavePath].file = Whole(Compacted(save.image))]
      /\ UNCHANGED <<phase, apps, current, serving, exec, select, counts>>
  BY DEF WriteFile
<1>2. /\ DiskOK(n)' /\ \A p \in Paths \ {SavePath} : disk'[p] = disk[p]
      /\ disk'[SavePath].file = Whole(Compacted(save.image))
      /\ disk'[SavePath].archive = disk[SavePath].archive
  <2>1. DiskOK(n) /\ SavePath \in Paths /\ Whole(Compacted(save.image)) \in CopiesAt(n)
    BY <1>1, SaveFacts, WrittenOK
  <2> QED BY <1>1, <2>1, WriteOK
<1>3. image' = [image EXCEPT ![SavePath] = save.image]
  BY DEF WriteFile
<1>4. /\ ImageOK(n)' /\ image'[SavePath] = save.image
      /\ \A p \in Paths \ {SavePath} : image'[p] = image[p]
  BY <1>1, <1>3, SaveFacts DEF ImageOK
<1>5. NothingFailed' => Progress("done", disk'[SavePath], image'[SavePath], save.image)
  BY <1>1, <1>2, <1>4, SaveFacts, WrittenOK DEF Progress, Settled, OldFile, NothingFailed
<1>6. NothingFailed' => NothingFailed
  BY <1>1 DEF NothingFailed
<1> QED BY <1>1, <1>2, <1>4, <1>5, <1>6, SaveFacts, SavingOK DEF SavePcs

LEMMA SaveFailsOK ==
  ASSUME NEW n \in Nat, n = counts.events, IInv, SaveFails PROVE IInv'
<1>1. save.pc \in {"archive", "copy", "write"} /\ save' = [save EXCEPT !.pc = "failed"]
      /\ UNCHANGED <<phase, apps, current, serving, exec, select, disk, image>>
  BY DEF SaveFails
<1>2. /\ counts' \in [events : 0..MaxEvents, starts : Nat, crashes : Nat, faults : Nat]
      /\ counts'.events = n /\ ~NothingFailed'
  BY <1>1, SaveFacts DEF SaveFails, NothingFailed
<1>3. DiskOK(n)' /\ ImageOK(n)'
  BY <1>1, SaveFacts DEF DiskOK, ImageOK
<1> QED BY <1>1, <1>2, <1>3, SavingOK DEF SavePcs

------------------------------------------------------------------------------
(* The process, its runs and its clients                                   *)

\* Nothing happens to the files.
LEMMA FilesKept ==
  ASSUME FilesHeld, UNCHANGED <<disk, image, save>>,
         save.pc # "none" => SavePath' = SavePath, NothingFailed' => NothingFailed
  PROVE  FilesHeld'
<1> SUFFICES ASSUME NothingFailed', NEW p \in Paths PROVE FilesOK(p)'
  BY DEF FilesHeld, Paths, Path
<1>1. FilesOK(p)
  BY DEF FilesHeld
<1>2. UnderWay(p)' <=> UnderWay(p)
  BY DEF UnderWay
<1> QED BY <1>1, <1>2 DEF FilesOK

LEMMA StutterOK ==
  ASSUME NEW n \in Nat, n = counts.events, IInv,
         UNCHANGED <<phase, memory, disk, counts, image>>
  PROVE  IInv'
<1>1. UNCHANGED <<phase, apps, current, serving, exec, select, save, disk, counts, image>>
  BY DEF memory
<1>2. Typed(counts.events)'
  BY <1>1 DEF IInv, Typed, AppsOK, SaveOK, DiskOK, ImageOK, SelectOK
<1>3. Control'
  BY <1>1 DEF IInv, Control, Running, Switching, Saver, Session
<1>4. FilesHeld'
  BY <1>1, FilesKept DEF IInv, SavePath, NothingFailed
<1> QED BY <1>2, <1>3, <1>4 DEF IInv

\* Types allow more when more events have been made.
LEMMA TypedMore ==
  ASSUME NEW m \in Nat, NEW n \in Nat, m <= n
  PROVE  /\ SaveOK(m) => SaveOK(n)
         /\ DiskOK(m) => DiskOK(n)
         /\ ImageOK(m) => ImageOK(n)
<1>1. SessionsAt(m) \subseteq SessionsAt(n) /\ CopiesAt(m) \subseteq CopiesAt(n)
  BY Monotone
<1> QED BY <1>1 DEF SaveOK, DiskOK, ImageOK, FilesAt

\* An application takes on another session.
LEMMA SessionChange ==
  ASSUME NEW m \in Nat, NEW n \in Nat, m <= n, AppsOK(m), NEW a \in DOMAIN apps,
         NEW x \in SessionsAt(n), apps' = [apps EXCEPT ![a].session = x]
  PROVE  /\ AppsOK(n)' /\ DOMAIN apps' = DOMAIN apps /\ apps'[a].session = x
         /\ \A b \in DOMAIN apps : apps'[b].ws = apps[b].ws
<1>1. /\ apps \in Seq(Apps(m)) /\ DOMAIN apps = 1..Len(apps) /\ Len(apps) \in Nat
      /\ \A b \in DOMAIN apps : apps[b] \in Apps(m)
  BY DEF AppsOK
<1>2. \A y \in Apps(m) : /\ y \in Apps(n) /\ [y EXCEPT !.session = x] \in Apps(n)
                         /\ [y EXCEPT !.session = x].ws = y.ws
                         /\ [y EXCEPT !.session = x].session = x
  BY Monotone DEF Apps
<1>3. /\ DOMAIN apps' = DOMAIN apps
      /\ \A b \in DOMAIN apps :
           apps'[b] = IF b = a THEN [apps[b] EXCEPT !.session = x] ELSE apps[b]
  OBVIOUS
<1>4. \A b \in DOMAIN apps : apps'[b] \in Apps(n) /\ apps'[b].ws = apps[b].ws
  BY <1>1, <1>2, <1>3
<1>5. apps' \in Seq(Apps(n))
  <2>1. apps' = [b \in 1..Len(apps) |-> apps'[b]]
    BY <1>1, <1>3
  <2>2. \A b \in 1..Len(apps) : apps'[b] \in Apps(n)
    BY <1>1, <1>4
  <2>3. \A N \in Nat : [b \in 1..N |-> apps'[b]] \in [1..N -> Apps(n)] =>
                       [b \in 1..N |-> apps'[b]] \in Seq(Apps(n))
    OBVIOUS
  <2> QED BY <1>1, <2>1, <2>2, <2>3
<1>6. apps'[a].session = x
  BY <1>1, <1>2, <1>3
<1> QED BY <1>3, <1>4, <1>5, <1>6 DEF AppsOK

\* No switch is past its check, and nobody saves, while the mutexes are free.
LEMMA FreeMutex ==
  ASSUME IInv
  PROVE  /\ exec = Nobody => \A s \in Selectors : select[s].pc \in {"idle", "asked"}
         /\ exec = Runner => \A s \in Selectors : select[s].pc \in {"idle", "asked"}
         /\ phase = "up" /\ exec \notin Selectors => save = NoSave
<1>1. \A s \in Selectors : select[s].pc \in SelectPcs
  BY DEF IInv, Typed, SelectOK
<1>2. \A s \in Selectors : exec # s => select[s].pc \in {"idle", "asked"}
  BY <1>1 DEF IInv, Control, Switching, SelectPcs
<1> QED BY <1>2, Constants DEF IInv, Control, Saver

LEMMA BeginRunOK ==
  ASSUME NEW n \in Nat, n = counts.events, IInv, BeginRun PROVE IInv'
<1> DEFINE x == [Session EXCEPT !.run = "running"]
<1>1. /\ phase = "up" /\ exec = Nobody /\ exec' = Runner
      /\ Session.run \in {"none", "awaiting_tool_approval"}
      /\ UNCHANGED <<phase, current, serving, select, save, disk, counts, image>>
  BY DEF BeginRun
<1>2. serving \in DOMAIN apps /\ AppsOK(n) /\ Session \in SessionsAt(n)
  <2>1. serving \in DOMAIN apps /\ AppsOK(n)
    BY <1>1 DEF IInv, Control, Running, Typed
  <2>2. apps[serving] \in Apps(n)
    BY <2>1 DEF AppsOK
  <2> QED BY <2>1, <2>2 DEF Apps, Session
<1>3. apps' = [apps EXCEPT ![serving].session = x]
  BY DEF BeginRun, Session
<1>4. x \in SessionsAt(n) /\ x.run = "running"
  BY <1>1, <1>2 DEF SessionsAt, Numbered, RunStates
<1> HIDE DEF x
<1>5. /\ AppsOK(n)' /\ DOMAIN apps' = DOMAIN apps /\ apps'[serving].session = x
      /\ \A b \in DOMAIN apps : apps'[b].ws = apps[b].ws
  <2>1. n <= n
    OBVIOUS
  <2> QED BY <1>2, <1>3, <1>4, <2>1, SessionChange
<1>6. Typed(counts.events)'
  BY <1>1, <1>5 DEF IInv, Typed, AppsOK, SaveOK, DiskOK, ImageOK, SelectOK
<1>7. Control'
  <2>1. save = NoSave /\ \A s \in Selectors : select[s].pc \in {"idle", "asked"}
    BY <1>1, FreeMutex, Constants
  <2>2. Running'
    BY <1>1, <1>4, <1>5 DEF IInv, Control, Running, Session
  <2>3. Switching' /\ Saver'
    BY <1>1, <2>1 DEF IInv, Control, Switching, Saver, NoSave
  <2> QED BY <2>2, <2>3 DEF Control
<1>8. FilesHeld'
  <2>1. save.pc = "none"
    BY <1>1, FreeMutex, Constants DEF NoSave
  <2> QED BY <1>1, <2>1, FilesKept DEF IInv, NothingFailed
<1> QED BY <1>6, <1>7, <1>8 DEF IInv

LEMMA RecordOK ==
  ASSUME NEW n \in Nat, n = counts.events, IInv, NEW status \in RunStates \ {"none"},
         NEW holder \in {Runner, Nobody}, holder = Runner => status = "running",
         Record(status, holder)
  PROVE  IInv'
<1> DEFINE m == n + 1
           x == [Recorded(Session, m) EXCEPT !.run = status]
<1>1. /\ exec = Runner /\ n < MaxEvents /\ exec' = holder
      /\ counts' = [counts EXCEPT !.events = m]
      /\ UNCHANGED <<phase, current, serving, select, save, disk, image>>
  BY DEF Record
<1>2. m \in Nat /\ n <= m
  OBVIOUS
<1>3. /\ counts' \in [events : 0..MaxEvents, starts : Nat, crashes : Nat, faults : Nat]
      /\ counts'.events = m /\ (NothingFailed' => NothingFailed)
  BY <1>1, <1>2, Constants DEF IInv, Typed, NothingFailed
<1>4. /\ phase \in {"up", "stopping"} /\ serving \in DOMAIN apps /\ AppsOK(n)
      /\ Session.run = "running"
  BY <1>1, Constants DEF IInv, Control, Running, Typed, Nobody, Runner
<1>5. Session \in SessionsAt(n)
  <2>1. apps[serving] \in Apps(n)
    BY <1>4 DEF AppsOK
  <2> QED BY <2>1 DEF Apps, Session
<1>6. apps' = [apps EXCEPT ![serving].session = x]
  BY DEF Record, Session
<1>7. x \in SessionsAt(m) /\ x.run = status
  <2>1. x \in SessionsAt(m)
    BY <1>1, <1>4, <1>5, RecordedOK
  <2>2. Recorded(Session, m).run = Session.run /\ Recorded(Session, m)
          = [run |-> Session.run, events |-> Recorded(Session, m).events]
    <3> DEFINE e == Bounded(Append(Session.events,
                       [seq |-> NextSeq(Session.events), id |-> m, form |-> "full"]))
    <3>1. Recorded(Session, m) = [Session EXCEPT !.events = e]
      BY DEF Recorded
    <3> HIDE DEF e
    <3> QED BY <1>5, <3>1 DEF SessionsAt
  <2> QED BY <2>1, <2>2
<1> HIDE DEF x, m
<1>8. /\ AppsOK(m)' /\ DOMAIN apps' = DOMAIN apps /\ apps'[serving].session = x
      /\ \A b \in DOMAIN apps : apps'[b].ws = apps[b].ws
  BY <1>2, <1>4, <1>6, <1>7, SessionChange
<1>9. SaveOK(m)' /\ DiskOK(m)' /\ ImageOK(m)' /\ SelectOK'
  <2>1. SaveOK(m) /\ DiskOK(m) /\ ImageOK(m) /\ SelectOK
    BY <1>2, TypedMore DEF IInv, Typed
  <2> QED BY <1>1, <2>1 DEF SaveOK, DiskOK, ImageOK, SelectOK
<1>10. Typed(m)'
  BY <1>1, <1>3, <1>8, <1>9 DEF IInv, Typed
<1>11. Control'
  <2>1. \A s \in Selectors : select[s].pc \in {"idle", "asked"}
    BY <1>1, FreeMutex
  <2>2. Running'
    BY <1>1, <1>4, <1>7, <1>8 DEF IInv, Control, Running, Session, Runner, Nobody
  <2>3. Switching' /\ Saver'
    BY <1>1, <1>8, <2>1 DEF IInv, Control, Switching, Saver
  <2> QED BY <2>2, <2>3 DEF Control
<1>12. FilesHeld'
  <2>1. save.pc # "none" => SavePath' = SavePath
    BY <1>1, <1>8 DEF IInv, Control, Saver, SavePath
  <2> QED BY <1>1, <1>3, <2>1, FilesKept DEF IInv
<1> QED BY <1>3, <1>10, <1>11, <1>12 DEF IInv

\* Nobody saves: the files of every path are settled.
LEMMA AllSettled ==
  ASSUME IInv, save.pc = "none", NothingFailed, NEW p \in Paths
  PROVE  Settled(disk[p], image[p])
BY DEF IInv, FilesHeld, FilesOK, UnderWay

\* A Load, while nobody saves.
LEMMA LoadStep ==
  ASSUME NEW n \in Nat, n = counts.events, IInv, save.pc = "none", NEW q \in Paths
  PROVE  /\ Loaded(disk[q]) \in SessionsAt(n)
         /\ disk' = [disk EXCEPT ![q] = Migrated(@)] => DiskOK(n)'
         /\ NothingFailed => ~LoadRefuses(disk[q])
         /\ /\ disk' = [disk EXCEPT ![q] = Migrated(@)]
            /\ UNCHANGED image /\ save'.pc = "none" /\ (NothingFailed' => NothingFailed)
            => FilesHeld'
<1>1. DiskOK(n) /\ disk[q] \in FilesAt(n)
  BY DEF IInv, Typed, DiskOK
<1>2. Loaded(disk[q]) \in SessionsAt(n) /\ Migrated(disk[q]) \in FilesAt(n)
  BY <1>1, LoadedOK
<1>3. disk' = [disk EXCEPT ![q] = Migrated(@)] => DiskOK(n)'
  BY <1>1, <1>2 DEF DiskOK
<1>4. NothingFailed => ~LoadRefuses(disk[q]) /\ Settled(Migrated(disk[q]), image[q])
  BY <1>1, AllSettled, LoadedSettled
<1>5. ASSUME disk' = [disk EXCEPT ![q] = Migrated(@)], UNCHANGED image,
             save'.pc = "none", NothingFailed' => NothingFailed
      PROVE  FilesHeld'
  <2> SUFFICES ASSUME NothingFailed', NEW p \in Paths PROVE FilesOK(p)'
    BY DEF FilesHeld, Paths, Path
  <2>1. Settled(disk[p], image[p])
    BY <1>5, AllSettled
  <2>2. disk'[p] = IF p = q THEN Migrated(disk[q]) ELSE disk[p]
    BY <1>1, <1>5 DEF DiskOK
  <2>3. Settled(disk'[p], image'[p])
    BY <1>4, <1>5, <2>1, <2>2
  <2> QED BY <1>5, <2>3 DEF FilesOK, UnderWay
<1> QED BY <1>2, <1>3, <1>4, <1>5

LEMMA InitOK == Init => IInv
<1> SUFFICES ASSUME Init PROVE IInv
  OBVIOUS
<1> DEFINE old == LegacyFiles.file.data
           none == [archive |-> Absent, file |-> Absent]
<1>1. /\ old \in SessionsAt(0) /\ LegacyFiles = [archive |-> Absent, file |-> Whole(old)]
  <2> DEFINE e == [seq |-> 1, id |-> 0, form |-> "full"]
  <2>1. e \in Events
    BY Constants DEF Events
  <2>2. old = [run |-> "completed", events |-> <<e>>]
    BY DEF LegacyFiles, Whole, EmptySession
  <2>3. <<e>> \in Seq(Events) /\ Len(<<e>>) = 1 /\ DOMAIN <<e>> = 1..1 /\ <<e>>[1] = e
    BY <2>1
  <2>4. old \in SessionsAt(0)
    <3>1. old.run = "completed" /\ old.events = <<e>>
          /\ old \in [run : RunStates, events : Seq(Events)]
      BY <2>2, <2>3 DEF RunStates
    <3>2. \A i \in DOMAIN old.events : i = 1 /\ old.events[i].id = 0
      BY <2>3, <3>1
    <3> HIDE DEF old, e
    <3>3. Numbered(old)
      <4>1. \A i, j \in DOMAIN old.events : ~(i < j)
        BY <3>2
      <4>2. old.run = "completed"
        BY <3>1
      <4> QED BY <4>1, <4>2 DEF Numbered
    <3>4. Len(old.events) <= EventWindow
      BY <2>3, <3>1, Constants
    <3>5. \A i \in DOMAIN old.events : old.events[i].id <= 0
      BY <3>2
    <3> QED BY <3>1, <3>3, <3>4, <3>5 DEF SessionsAt
  <2>5. LegacyFiles = [archive |-> Absent, file |-> Whole(old)]
    BY DEF LegacyFiles, Whole
  <2> QED BY <2>4, <2>5
<1> HIDE DEF old
<1>2. EmptySession \in SessionsAt(0)
  BY EmptyOK
<1>3. /\ Absent \in CopiesAt(0) /\ Whole(old) \in CopiesAt(0)
      /\ Absent.kind = "absent" /\ Whole(old).kind = "whole" /\ Whole(old).data = old
  BY <1>1, <1>2 DEF CopiesAt, Absent, Whole
<1>4. \A files \in {none, LegacyFiles} :
         files \in FilesAt(0) /\ Loaded(files) \in SessionsAt(0)
         /\ Settled(files, Loaded(files))
  <2>1. none \in FilesAt(0) /\ LegacyFiles \in FilesAt(0)
    BY <1>1, <1>3 DEF FilesAt
  <2>2. Settled(none, Loaded(none))
    BY <1>3 DEF Settled, OldFile, Loaded
  <2>3. Settled(LegacyFiles, Loaded(LegacyFiles))
    BY <1>1, <1>3 DEF Settled, OldFile, Holds, Loaded
  <2> QED BY <2>1, <2>2, <2>3, LoadedOK
<1>5. \A p \in Paths : disk[p] \in {none, LegacyFiles} /\ image[p] = Loaded(disk[p])
  BY DEF Init
<1>6. DiskOK(0) /\ ImageOK(0)
  BY <1>4 DEF Init, DiskOK, ImageOK
<1>7. SaveOK(0) /\ SelectOK /\ AppsOK(0)
  BY <1>2, Constants DEF Init, SaveOK, SelectOK, AppsOK, NoSave, None, SavePcs, SelectPcs, Idle
<1>8. Typed(0) /\ counts.events = 0
  BY <1>6, <1>7, Constants DEF Init, Typed
<1>9. Control
  BY Constants DEF Init, Control, Running, Switching, Saver, NoSave, Idle, Nobody, Runner
<1>10. FilesHeld
  BY <1>4, <1>5 DEF FilesHeld, FilesOK, UnderWay, Init, NoSave
<1> QED BY <1>8, <1>9, <1>10 DEF IInv

LEMMA StartOK ==
  ASSUME NEW n \in Nat, n = counts.events, IInv, Start PROVE IInv'
<1> DEFINE q == Path(Home)
<1>1. /\ phase \in {"down", "stopped"} /\ counts' = [counts EXCEPT !.starts = @ + 1]
      /\ disk' = [disk EXCEPT ![q] = Migrated(@)]
      /\ UNCHANGED <<exec, select, save, image>>
  BY DEF Start
<1>2. /\ save = NoSave /\ save.pc = "none" /\ exec = Nobody /\ q \in Paths
      /\ \A s \in Selectors : select[s].pc = "idle"
  BY <1>1, Constants DEF IInv, Control, Running, Saver, Switching
<1> HIDE DEF q
<1>3. /\ counts' \in [events : 0..MaxEvents, starts : Nat, crashes : Nat, faults : Nat]
      /\ counts'.events = n /\ (NothingFailed' => NothingFailed)
  BY <1>1 DEF IInv, Typed, NothingFailed
<1>4. DiskOK(n)' /\ FilesHeld' /\ Loaded(disk[q]) \in SessionsAt(n)
  BY <1>1, <1>2, <1>3, LoadStep
<1>5. SaveOK(n)' /\ ImageOK(n)' /\ SelectOK'
  BY <1>1 DEF IInv, Typed, SaveOK, ImageOK, SelectOK
<1>6. CASE LoadRefuses(disk[q])
  <2>1. phase' = "refused" /\ UNCHANGED <<apps, current, serving>>
    BY <1>6 DEF Start, q
  <2>2. AppsOK(n)'
    BY <2>1 DEF IInv, Typed, AppsOK
  <2>3. Typed(n)'
    BY <1>1, <1>3, <1>4, <1>5, <2>1, <2>2 DEF IInv, Typed
  <2>4. Control'
    BY <1>1, <1>2, <2>1, Constants
       DEF Control, Running, Switching, Saver, NoSave, Nobody, Runner
  <2> QED BY <1>3, <1>4, <2>3, <2>4 DEF IInv
<1>7. CASE ~LoadRefuses(disk[q])
  <2> DEFINE a == [ws |-> Home, session |-> Loaded(disk[q])]
  <2>1. phase' = "up" /\ apps' = <<a>> /\ current' = 1 /\ serving' = 1
    BY <1>7 DEF Start, q
  <2>2. a \in Apps(n)
    BY <1>4, Constants DEF Apps
  <2> HIDE DEF a
  <2>3. AppsOK(n)' /\ DOMAIN apps' = {1}
    BY <2>1, <2>2 DEF AppsOK
  <2>4. Typed(n)'
    BY <1>1, <1>3, <1>4, <1>5, <2>1, <2>3 DEF IInv, Typed
  <2>5. Control'
    BY <1>1, <1>2, <2>1, <2>3, Constants
       DEF Control, Running, Switching, Saver, NoSave, Nobody, Runner
  <2> QED BY <1>3, <1>4, <2>4, <2>5 DEF IInv
<1> QED BY <1>6, <1>7

\* The process ends with settled files, or something has failed.
LEMMA ForgetOK ==
  ASSUME NEW n \in Nat, n = counts.events, IInv, ForgetMemory,
         phase' \in {"down", "stopped"}, UNCHANGED <<disk, image>>,
         counts' \in [events : 0..MaxEvents, starts : Nat, crashes : Nat, faults : Nat],
         counts'.events = n,
         NothingFailed' => \A p \in Paths : Settled(disk[p], image[p])
  PROVE  IInv'
<1>1. /\ apps' = <<>> /\ exec' = Nobody /\ save' = NoSave
      /\ select' = [s \in Selectors |-> Idle]
  BY DEF ForgetMemory
<1>2. SaveOK(n)' /\ SelectOK' /\ AppsOK(n)'
  BY <1>1, EmptyOK, Constants
     DEF SaveOK, SelectOK, AppsOK, NoSave, None, SavePcs, SelectPcs, Idle
<1>3. DiskOK(n)' /\ ImageOK(n)'
  BY DEF IInv, Typed, DiskOK, ImageOK
<1>4. Typed(n)'
  BY <1>1, <1>2, <1>3 DEF Typed
<1>5. Control'
  BY <1>1, Constants DEF Control, Running, Switching, Saver, NoSave, Idle, Nobody, Runner
<1>6. FilesHeld'
  <2> SUFFICES ASSUME NothingFailed', NEW p \in Paths PROVE FilesOK(p)'
    BY DEF FilesHeld, Paths, Path
  <2> QED BY <1>1 DEF FilesOK, UnderWay, NoSave
<1> QED BY <1>4, <1>5, <1>6 DEF IInv

LEMMA CrashOK ==
  ASSUME NEW n \in Nat, n = counts.events, IInv, Crash PROVE IInv'
<1>1. /\ counts' \in [events : 0..MaxEvents, starts : Nat, crashes : Nat, faults : Nat]
      /\ counts'.events = n /\ counts'.crashes # 0
  BY DEF IInv, Typed, Crash
<1> QED BY <1>1, ForgetOK DEF Crash, NothingFailed

\* A Save that has returned left settled files, or something has failed.
LEMMA SaveEnded ==
  ASSUME IInv, save.pc \in {"done", "failed"}, NothingFailed, NEW p \in Paths
  PROVE  Settled(disk[p], image[p])
BY DEF IInv, FilesHeld, FilesOK, Progress

LEMMA ExitOK ==
  ASSUME NEW n \in Nat, n = counts.events, IInv, Exit PROVE IInv'
<1>1. /\ counts' \in [events : 0..MaxEvents, starts : Nat, crashes : Nat, faults : Nat]
      /\ counts'.events = n
  BY DEF IInv, Typed, Exit
<1>2. NothingFailed' => \A p \in Paths : Settled(disk[p], image[p])
  BY SaveEnded DEF Exit, NothingFailed
<1> QED BY <1>1, <1>2, ForgetOK DEF Exit

\* A Save begins: what is on disk is settled, and the image is the app's session.
LEMMA BeginSaveOK ==
  ASSUME NEW n \in Nat, n = counts.events, IInv, NEW by \in Selectors \cup {"main"},
         current \in DOMAIN apps, BeginSave(current, by),
         UNCHANGED <<apps, disk, counts, image>>
  PROVE  /\ SaveOK(n)' /\ FilesHeld' /\ save = NoSave
         /\ save'.pc = "archive" /\ save'.app = current /\ save'.by = by
<1>1. /\ save = NoSave /\ save.pc = "none"
      /\ save' = [pc |-> "archive", app |-> current, by |-> by,
                  image |-> apps[current].session]
  BY DEF BeginSave, NoSave
<1>2. apps[current].session \in SessionsAt(n) /\ current \in Nat
  <2>1. apps \in Seq(Apps(n))
    BY DEF IInv, Typed, AppsOK
  <2>2. apps[current] \in Apps(n) /\ current \in Nat
    BY <2>1
  <2> QED BY <2>2 DEF Apps
<1>3. SaveOK(n)'
  BY <1>1, <1>2 DEF SaveOK, SavePcs
<1>4. FilesHeld'
  <2> SUFFICES ASSUME NothingFailed', NEW p \in Paths PROVE FilesOK(p)'
    BY DEF FilesHeld, Paths, Path
  <2>1. Settled(disk'[p], image'[p])
    BY <1>1, AllSettled DEF NothingFailed
  <2>2. Progress(save'.pc, disk'[p], image'[p], save'.image)
    BY <1>1, <2>1 DEF Progress
  <2> QED BY <2>1, <2>2 DEF FilesOK
<1> QED BY <1>1, <1>3, <1>4

LEMMA StopOK ==
  ASSUME NEW n \in Nat, n = counts.events, IInv, Stop PROVE IInv'
<1>1. /\ phase = "up" /\ phase' = "stopping" /\ BeginSave(current, "main")
      /\ \A s \in Selectors : select[s].pc = "idle"
      /\ UNCHANGED <<apps, current, serving, exec, select, disk, counts, image>>
  BY DEF Stop
<1>2. current \in DOMAIN apps
  BY <1>1 DEF IInv, Control, Running
<1>3. /\ SaveOK(n)' /\ FilesHeld'
      /\ save'.pc = "archive" /\ save'.app = current /\ save'.by = "main"
  BY <1>1, <1>2, BeginSaveOK
<1>4. Typed(n)'
  BY <1>1, <1>3 DEF IInv, Typed, AppsOK, DiskOK, ImageOK, SelectOK
<1>5. Running' /\ Switching' /\ Saver'
  BY <1>1, <1>2, <1>3 DEF IInv, Control, Running, Switching, Saver, Session
<1> QED BY <1>1, <1>3, <1>4, <1>5 DEF IInv, Control

------------------------------------------------------------------------------
(* Switches of the workspace                                               *)

\* A switch changes its own record, and the mutexes only while it holds them or
\* they are free.
LEMMA SelectStep ==
  ASSUME IInv, SelectOK, NEW s \in Selectors, NEW r, r.pc \in SelectPcs,
         select' = [select EXCEPT ![s] = r], UNCHANGED phase, phase = "up",
         \/ save' = NoSave
         \/ save' = save /\ (save.pc # "none" => save.by # s),
         current' \in DOMAIN apps',
         exec' = exec \/ {exec, exec'} \subseteq {Nobody, s},
         exec = Runner => UNCHANGED <<apps, serving>>,
         r.pc \in {"locked", "booted", "saving", "saved"} => exec' = s,
         r.pc \in {"booted", "saving", "saved"} => r.app \in DOMAIN apps',
         DOMAIN apps \subseteq DOMAIN apps', serving' \in DOMAIN apps'
  PROVE  Control'
<1>1. /\ select'[s] = r /\ \A t \in Selectors \ {s} : select'[t] = select[t]
  BY DEF SelectOK
<1>2. Running'
  <2>1. exec' = Runner => exec = Runner
    BY Constants DEF Nobody, Runner
  <2>2. exec = Runner => Session.run = "running"
    BY DEF IInv, Control, Running
  <2>3. exec' = Runner => Session'.run = "running"
    BY <2>1, <2>2 DEF Session
  <2> QED BY <2>2, <2>3 DEF Running
<1>3. Switching'
  <2> SUFFICES ASSUME NEW t \in Selectors
               PROVE  /\ select'[t].pc # "idle" => phase' = "up"
                      /\ select'[t].pc \in {"locked", "booted", "saving", "saved"} => exec' = t
                      /\ select'[t].pc \in {"booted", "saving", "saved"} =>
                            select'[t].app \in DOMAIN apps'
    BY DEF Switching
  <2>1. CASE t = s
    BY <1>1, <2>1
  <2>2. CASE t # s
    BY <1>1, <2>2, Constants DEF IInv, Control, Switching
  <2> QED BY <2>1, <2>2
<1>4. Saver'
  BY <1>1 DEF IInv, Control, Saver, NoSave
<1> QED BY <1>2, <1>3, <1>4 DEF Control

SelectRecords == [pc : SelectPcs, workspace : Workspaces, app : Nat]

LEMMA SelectTyped ==
  ASSUME SelectOK, NEW s \in Selectors
  PROVE  /\ Idle \in SelectRecords /\ select[s] \in SelectRecords
         /\ \A r \in SelectRecords : select' = [select EXCEPT ![s] = r] => SelectOK'
         /\ \A pc \in SelectPcs :
              /\ [select[s] EXCEPT !.pc = pc] \in SelectRecords
              /\ [select[s] EXCEPT !.pc = pc].pc = pc
              /\ [select[s] EXCEPT !.pc = pc].app = select[s].app
BY Constants DEF SelectOK, SelectRecords, SelectPcs, Idle, None

\* A switch is in its record from its question to its end.
LEMMA SelectFacts ==
  ASSUME NEW n \in Nat, n = counts.events, IInv, NEW s \in Selectors,
         select[s].pc # "idle" \/ phase = "up"
  PROVE  /\ phase = "up" /\ current \in DOMAIN apps /\ serving \in DOMAIN apps
         /\ SelectOK /\ AppsOK(n) /\ Typed(n)
         /\ select[s].pc \in {"locked", "booted", "saving", "saved"} => exec = s
         /\ select[s].pc \in {"booted", "saving", "saved"} => select[s].app \in DOMAIN apps
BY DEF IInv, Typed, Control, Running, Switching

LEMMA AskSelectOK ==
  ASSUME NEW n \in Nat, n = counts.events, IInv, NEW s \in Selectors, AskSelect(s)
  PROVE  IInv'
<1>1. PICK w \in Workspaces :
         select' = [select EXCEPT ![s] = [pc |-> "asked", workspace |-> w, app |-> None]]
  BY DEF AskSelect
<1> DEFINE r == [pc |-> "asked", workspace |-> w, app |-> None]
<1>2. /\ phase = "up" /\ select[s].pc = "idle"
      /\ UNCHANGED <<phase, apps, current, serving, exec, save, disk, counts, image>>
  BY DEF AskSelect
<1>3. r \in SelectRecords /\ r.pc = "asked"
  BY DEF SelectRecords, SelectPcs, None
<1> HIDE DEF r
<1>4. select' = [select EXCEPT ![s] = r]
  BY <1>1 DEF r
<1>5. SelectOK'
  BY <1>2, <1>3, <1>4, SelectFacts, SelectTyped
<1>6. Typed(counts.events)'
  BY <1>2, <1>5 DEF IInv, Typed, AppsOK, SaveOK, DiskOK, ImageOK
<1>7. save.pc # "none" => save.by # s
  BY <1>2, Constants DEF IInv, Control, Saver
<1>8. Control'
  <2>1. /\ SelectOK /\ current \in DOMAIN apps /\ serving' \in DOMAIN apps'
        /\ current' \in DOMAIN apps' /\ DOMAIN apps \subseteq DOMAIN apps'
    BY <1>2, SelectFacts
  <2>2. /\ r.pc \in SelectPcs
        /\ r.pc \notin {"locked", "booted", "saving", "saved"}
    BY <1>3 DEF SelectPcs
  <2> QED BY <1>2, <1>4, <1>7, <2>1, <2>2, SelectStep
<1>9. FilesHeld'
  BY <1>2, FilesKept DEF IInv, SavePath, NothingFailed
<1> QED BY <1>6, <1>8, <1>9 DEF IInv

LEMMA LockSelectOK ==
  ASSUME NEW n \in Nat, n = counts.events, IInv, NEW s \in Selectors, LockSelect(s)
  PROVE  IInv'
<1>1. /\ select[s].pc = "asked"
      /\ UNCHANGED <<phase, apps, current, serving, save, disk, counts, image>>
  BY DEF LockSelect
<1>2. PICK r \in SelectRecords :
         /\ select' = [select EXCEPT ![s] = r]
         /\ \/ r = Idle /\ exec' = exec
            \/ r.pc = "locked" /\ exec = Nobody /\ exec' = s
  <2>1. CASE exec # Nobody \/ Blocked
    BY <1>1, <2>1, SelectFacts, SelectTyped DEF LockSelect
  <2>2. CASE ~(exec # Nobody \/ Blocked)
    <3> DEFINE r == [select[s] EXCEPT !.pc = "locked"]
    <3>1. r \in SelectRecords /\ r.pc = "locked"
      BY <1>1, SelectFacts, SelectTyped DEF SelectPcs
    <3>2. select' = [select EXCEPT ![s] = r] /\ exec = Nobody /\ exec' = s
      BY <2>2 DEF LockSelect
    <3> HIDE DEF r
    <3> QED BY <3>1, <3>2
  <2> QED BY <2>1, <2>2
<1>3. SelectOK' /\ r.pc \in {"idle", "locked"} /\ (r.pc = "locked" => exec' = s)
  <2>1. SelectOK'
    BY <1>1, <1>2, SelectFacts, SelectTyped
  <2>2. Idle.pc = "idle"
    BY DEF Idle
  <2>3. r.pc = "idle" \/ (r.pc = "locked" /\ exec' = s)
    BY <1>2, <2>2
  <2> QED BY <2>1, <2>3
<1>4. Typed(counts.events)'
  BY <1>1, <1>2, <1>3 DEF IInv, Typed, AppsOK, SaveOK, DiskOK, ImageOK
<1>5. save.pc # "none" => save.by # s
  BY <1>1, Constants DEF IInv, Control, Saver
<1>6. exec' = exec \/ {exec, exec'} \subseteq {Nobody, s}
  BY <1>2
<1>7. Control'
  <2>1. /\ SelectOK /\ phase = "up" /\ serving' \in DOMAIN apps'
        /\ current' \in DOMAIN apps' /\ DOMAIN apps \subseteq DOMAIN apps'
    BY <1>1, SelectFacts
  <2>2. /\ r.pc \in SelectPcs /\ r.pc \notin {"booted", "saving", "saved"}
        /\ (r.pc \in {"locked", "booted", "saving", "saved"} => exec' = s)
    BY <1>3 DEF SelectPcs
  <2> QED BY <1>1, <1>2, <1>5, <1>6, <2>1, <2>2, SelectStep
<1>8. FilesHeld'
  BY <1>1, FilesKept DEF IInv, SavePath, NothingFailed
<1> QED BY <1>4, <1>7, <1>8 DEF IInv

LEMMA SaveSelectOK ==
  ASSUME NEW n \in Nat, n = counts.events, IInv, NEW s \in Selectors, SaveSelect(s)
  PROVE  IInv'
<1> DEFINE r == [select[s] EXCEPT !.pc = "saving"]
<1>1. /\ select[s].pc = "booted" /\ BeginSave(current, s)
      /\ select' = [select EXCEPT ![s] = r]
      /\ UNCHANGED <<phase, apps, current, serving, exec, disk, counts, image>>
  BY DEF SaveSelect
<1>2. /\ phase = "up" /\ current \in DOMAIN apps /\ exec = s
      /\ select[s].app \in DOMAIN apps /\ SelectOK
  BY <1>1, SelectFacts
<1>3. r \in SelectRecords /\ r.pc = "saving" /\ r.app = select[s].app
  BY <1>2, SelectTyped DEF SelectPcs
<1> HIDE DEF r
<1>4. SelectOK' /\ select'[s].pc = "saving"
      /\ \A t \in Selectors \ {s} : select'[t] = select[t]
  BY <1>1, <1>2, <1>3, SelectTyped DEF SelectOK
<1>5. /\ SaveOK(n)' /\ FilesHeld'
      /\ save'.pc = "archive" /\ save'.app = current /\ save'.by = s
  BY <1>1, <1>2, BeginSaveOK
<1>6. Typed(n)'
  BY <1>1, <1>4, <1>5 DEF IInv, Typed, AppsOK, DiskOK, ImageOK
<1>7. Running' /\ Saver'
  BY <1>1, <1>2, <1>4, <1>5 DEF IInv, Control, Running, Saver, Session
<1>8. Switching'
  <2> SUFFICES ASSUME NEW t \in Selectors
               PROVE  /\ select'[t].pc # "idle" => phase' = "up"
                      /\ select'[t].pc \in {"locked", "booted", "saving", "saved"} => exec' = t
                      /\ select'[t].pc \in {"booted", "saving", "saved"} =>
                            select'[t].app \in DOMAIN apps'
    BY DEF Switching
  <2>1. CASE t = s
    <3>1. select'[s] = r
      BY <1>1, <1>2 DEF SelectOK
    <3> QED BY <1>1, <1>2, <1>3, <2>1, <3>1
  <2>2. CASE t # s
    BY <1>1, <1>4, <2>2 DEF IInv, Control, Switching
  <2> QED BY <2>1, <2>2
<1> QED BY <1>1, <1>5, <1>6, <1>7, <1>8 DEF IInv, Control

\* Nobody saves while a switch loads the session of its workspace.
LEMMA NobodySaves ==
  ASSUME IInv, NEW s \in Selectors, select[s].pc = "locked"
  PROVE  save = NoSave /\ save.pc = "none"
<1>1. exec = s /\ phase = "up"
  BY DEF IInv, Control, Switching
<1>2. save.pc = "none"
  BY <1>1 DEF IInv, Control, Switching, Saver
<1> QED BY <1>2 DEF IInv, Control, Saver

LEMMA BootSelectOK ==
  ASSUME NEW n \in Nat, n = counts.events, IInv, NEW s \in Selectors, BootSelect(s)
  PROVE  IInv'
<1> DEFINE q == Path(select[s].workspace)
<1>1. /\ select[s].pc = "locked" /\ disk' = [disk EXCEPT ![q] = Migrated(@)]
      /\ UNCHANGED <<phase, current, serving, save, counts, image>>
  BY DEF BootSelect
<1>2. /\ phase = "up" /\ current \in DOMAIN apps /\ serving \in DOMAIN apps
      /\ SelectOK /\ AppsOK(n) /\ exec = s
  BY <1>1, SelectFacts
<1>3. save = NoSave /\ save.pc = "none" /\ save'.pc = "none"
  BY <1>1, NobodySaves
<1>4. select[s].workspace \in Workspaces /\ q \in Paths
  BY <1>2, Constants DEF SelectOK
<1> HIDE DEF q
<1>5. DiskOK(n)' /\ FilesHeld' /\ Loaded(disk[q]) \in SessionsAt(n)
  BY <1>1, <1>3, <1>4, LoadStep DEF NothingFailed
<1>6. /\ apps \in Seq(Apps(n)) /\ DOMAIN apps = 1..Len(apps) /\ Len(apps) \in Nat
  BY <1>2 DEF AppsOK
<1>7. PICK r \in SelectRecords :
         /\ select' = [select EXCEPT ![s] = r] /\ AppsOK(n)'
         /\ DOMAIN apps \subseteq DOMAIN apps'
         /\ \/ r.pc = "idle" /\ exec' = Nobody
            \/ r.pc = "booted" /\ exec' = s /\ r.app \in DOMAIN apps'
  <2>1. CASE LoadRefuses(disk[q])
    <3>1. select' = [select EXCEPT ![s] = Idle] /\ exec' = Nobody /\ UNCHANGED apps
      BY <2>1 DEF BootSelect, q
    <3>2. Idle \in SelectRecords /\ Idle.pc = "idle"
      BY <1>2, SelectTyped DEF Idle
    <3>3. AppsOK(n)'
      BY <1>2, <3>1 DEF AppsOK
    <3> QED BY <3>1, <3>2, <3>3
  <2>2. CASE ~LoadRefuses(disk[q])
    <3> DEFINE a == [ws |-> select[s].workspace, session |-> Loaded(disk[q])]
               l == Len(apps) + 1
               r == [pc |-> "booted", workspace |-> select[s].workspace, app |-> l]
    <3>1. /\ apps' = Append(apps, a) /\ exec' = exec
          /\ select' = [select EXCEPT ![s].pc = "booted", ![s].app = l]
      BY <2>2 DEF BootSelect, q
    <3>2. a \in Apps(n)
      BY <1>4, <1>5 DEF Apps
    <3> HIDE DEF a
    <3>3. apps' \in Seq(Apps(n)) /\ DOMAIN apps' = 1..l /\ l \in Nat
      BY <1>6, <3>1, <3>2
    <3>4. DOMAIN apps \subseteq DOMAIN apps' /\ l \in DOMAIN apps'
      BY <1>6, <3>3
    <3> HIDE DEF l
    <3>5. select' = [select EXCEPT ![s] = r]
      <4> DEFINE booted == [select[s] EXCEPT !.pc = "booted"]
                 f == [select EXCEPT ![s] = booted]
      <4>1. select[s] \in SelectRecords /\ s \in DOMAIN select
        BY <1>2, SelectTyped DEF SelectOK
      <4>2. booted = [pc |-> "booted", workspace |-> select[s].workspace, app |-> select[s].app]
        BY <4>1 DEF SelectRecords
      <4>3. select' = [f EXCEPT ![s] = [f[s] EXCEPT !.app = l]]
        BY <3>1
      <4>4. f[s] = booted /\ [booted EXCEPT !.app = l] = r
        <5>1. f[s] = booted
          BY <4>1
        <5> HIDE DEF booted
        <5>2. [booted EXCEPT !.app = l] = r
          BY <4>2
        <5> QED BY <5>1, <5>2
      <4>5. select' = [f EXCEPT ![s] = r]
        BY <4>3, <4>4
      <4> HIDE DEF booted, r
      <4> QED BY <4>1, <4>5
    <3>6. r \in SelectRecords /\ r.pc = "booted" /\ r.app = l
      BY <1>4, <3>3 DEF SelectRecords, SelectPcs
    <3> HIDE DEF r
    <3> QED BY <1>2, <3>1, <3>3, <3>4, <3>5, <3>6 DEF AppsOK
  <2> QED BY <2>1, <2>2
<1>8. SelectOK'
  BY <1>2, <1>7, SelectTyped
<1>9. SaveOK(n)' /\ ImageOK(n)'
  BY <1>1 DEF IInv, Typed, SaveOK, ImageOK
<1>10. Typed(n)'
  BY <1>1, <1>2, <1>5, <1>7, <1>8, <1>9 DEF IInv, Typed
<1>11. Control'
  <2>1. /\ current' \in DOMAIN apps' /\ serving' \in DOMAIN apps'
        /\ {exec, exec'} \subseteq {Nobody, s} /\ exec # Runner
    BY <1>1, <1>2, <1>7, Constants
  <2>2. /\ r.pc \in SelectPcs
        /\ (r.pc \in {"locked", "booted", "saving", "saved"} => exec' = s)
        /\ (r.pc \in {"booted", "saving", "saved"} => r.app \in DOMAIN apps')
    BY <1>7 DEF SelectPcs
  <2> QED BY <1>1, <1>2, <1>3, <1>7, <2>1, <2>2, SelectStep
<1> QED BY <1>1, <1>5, <1>10, <1>11 DEF IInv

LEMMA SavedSelectOK ==
  ASSUME NEW n \in Nat, n = counts.events, IInv, NEW s \in Selectors, SavedSelect(s)
  PROVE  IInv'
<1>1. /\ select[s].pc = "saving" /\ save.pc \in {"done", "failed"} /\ save' = NoSave
      /\ UNCHANGED <<phase, apps, serving, disk, counts, image>>
  BY DEF SavedSelect
<1>2. /\ phase = "up" /\ current \in DOMAIN apps /\ serving \in DOMAIN apps
      /\ SelectOK /\ exec = s /\ select[s].app \in DOMAIN apps
  BY <1>1, SelectFacts
<1>3. PICK r \in SelectRecords :
         /\ select' = [select EXCEPT ![s] = r] /\ current' \in DOMAIN apps
         /\ \/ r.pc = "idle" /\ exec' = Nobody
            \/ r.pc = "saved" /\ exec' = s /\ r.app \in DOMAIN apps
  <2>1. CASE save.pc = "done"
    <3> DEFINE r == [select[s] EXCEPT !.pc = "saved"]
    <3>1. select' = [select EXCEPT ![s] = r] /\ current' = select[s].app /\ exec' = exec
      BY <2>1 DEF SavedSelect
    <3>2. r \in SelectRecords /\ r.pc = "saved" /\ r.app = select[s].app
      BY <1>2, SelectTyped DEF SelectPcs
    <3> HIDE DEF r
    <3> QED BY <1>2, <3>1, <3>2
  <2>2. CASE save.pc = "failed"
    <3>1. select' = [select EXCEPT ![s] = Idle] /\ exec' = Nobody /\ current' = current
      BY <2>2 DEF SavedSelect
    <3>2. Idle \in SelectRecords /\ Idle.pc = "idle"
      BY <1>2, SelectTyped DEF Idle
    <3> QED BY <1>2, <3>1, <3>2
  <2> QED BY <1>1, <2>1, <2>2
<1>4. SelectOK' /\ SaveOK(n)'
  <2>1. SaveOK(n)'
    BY <1>1, EmptyOK DEF SaveOK, NoSave, None, SavePcs
  <2> QED BY <1>2, <1>3, <2>1, SelectTyped
<1>5. Typed(n)'
  BY <1>1, <1>2, <1>3, <1>4 DEF IInv, Typed, AppsOK, DiskOK, ImageOK
<1>6. Control'
  <2>1. /\ current' \in DOMAIN apps' /\ serving' \in DOMAIN apps'
        /\ DOMAIN apps \subseteq DOMAIN apps'
        /\ {exec, exec'} \subseteq {Nobody, s} /\ exec # Runner
    BY <1>1, <1>2, <1>3, Constants
  <2>2. /\ r.pc \in SelectPcs
        /\ (r.pc \in {"locked", "booted", "saving", "saved"} => exec' = s)
        /\ (r.pc \in {"booted", "saving", "saved"} => r.app \in DOMAIN apps')
    BY <1>1, <1>3 DEF SelectPcs
  <2> QED BY <1>1, <1>2, <1>3, <2>1, <2>2, SelectStep
<1>7. FilesHeld'
  <2> SUFFICES ASSUME NothingFailed', NEW p \in Paths PROVE FilesOK(p)'
    BY DEF FilesHeld, Paths, Path
  <2> QED BY <1>1, SaveEnded DEF FilesOK, UnderWay, NoSave, NothingFailed
<1> QED BY <1>1, <1>5, <1>6, <1>7 DEF IInv

LEMMA ServeSelectOK ==
  ASSUME NEW n \in Nat, n = counts.events, IInv, NEW s \in Selectors, ServeSelect(s)
  PROVE  IInv'
<1>1. /\ select[s].pc = "saved" /\ serving' = select[s].app /\ exec' = Nobody
      /\ select' = [select EXCEPT ![s] = Idle]
      /\ UNCHANGED <<phase, apps, current, save, disk, counts, image>>
  BY DEF ServeSelect
<1>2. /\ phase = "up" /\ current \in DOMAIN apps /\ select[s].app \in DOMAIN apps
      /\ SelectOK /\ exec = s
  BY <1>1, SelectFacts
<1>3. SelectOK' /\ Idle.pc = "idle"
  BY <1>1, <1>2, SelectTyped DEF Idle
<1>4. Typed(n)'
  BY <1>1, <1>2, <1>3 DEF IInv, Typed, AppsOK, SaveOK, DiskOK, ImageOK
<1>5. save.pc # "none" => save.by # s
  BY <1>1, Constants DEF IInv, Control, Saver
<1>6. Control'
  <2>1. /\ current' \in DOMAIN apps' /\ serving' \in DOMAIN apps'
        /\ DOMAIN apps \subseteq DOMAIN apps'
        /\ {exec, exec'} \subseteq {Nobody, s} /\ exec # Runner
    BY <1>1, <1>2, Constants
  <2>2. /\ Idle.pc \in SelectPcs
        /\ Idle.pc \notin {"locked", "booted", "saving", "saved"}
    BY <1>3 DEF SelectPcs
  <2> QED BY <1>1, <1>2, <1>5, <2>1, <2>2, SelectStep
<1>7. FilesHeld'
  BY <1>1, FilesKept DEF IInv, SavePath, NothingFailed
<1> QED BY <1>1, <1>4, <1>6, <1>7 DEF IInv

------------------------------------------------------------------------------
(* The theorems                                                            *)

LEMMA NextOK == IInv /\ [Next]_vars => IInv'
<1> SUFFICES ASSUME IInv, [Next]_vars PROVE IInv'
  OBVIOUS
<1>1. PICK n \in Nat : n = counts.events
  <2>1. counts.events \in Nat
    BY Constants DEF IInv, Typed
  <2> QED BY <2>1
<1>2. CASE Start
  BY <1>1, <1>2, StartOK
<1>3. CASE Crash
  BY <1>1, <1>3, CrashOK
<1>4. CASE Stop
  BY <1>1, <1>4, StopOK
<1>5. CASE Exit
  BY <1>1, <1>5, ExitOK
<1>6. CASE Saving
  BY <1>1, <1>6, WriteTemporaryOK, RenameArchiveOK, CopyArchiveOK, FinishCopyOK,
     TruncateFileOK, WriteFileOK, SaveFailsOK DEF Saving
<1>7. CASE BeginRun
  BY <1>1, <1>7, BeginRunOK
<1>8. CASE AppendEvent
  BY <1>1, <1>8, RecordOK DEF AppendEvent, RunStates
<1>9. CASE EndRun
  <2>1. PICK status \in {"completed", "awaiting_tool_approval"} : Record(status, Nobody)
    BY <1>9 DEF EndRun
  <2>2. status \in RunStates \ {"none"} /\ Nobody # Runner
    BY DEF RunStates, Nobody, Runner
  <2> QED BY <1>1, <2>1, <2>2, RecordOK
<1>10. CASE Follow \/ Poll \/ Disconnect
  <2>1. UNCHANGED <<phase, memory, disk, counts, image>>
    BY <1>10 DEF Follow, Poll, Disconnect
  <2> QED BY <1>1, <2>1, StutterOK
<1>11. CASE \E s \in Selectors : \/ AskSelect(s) \/ LockSelect(s) \/ BootSelect(s)
                                \/ SaveSelect(s) \/ SavedSelect(s) \/ ServeSelect(s)
  BY <1>1, <1>11, AskSelectOK, LockSelectOK, BootSelectOK, SaveSelectOK, SavedSelectOK,
     ServeSelectOK
<1>12. CASE UNCHANGED vars
  BY <1>1, <1>12, StutterOK DEF vars, memory
<1> QED BY <1>2, <1>3, <1>4, <1>5, <1>6, <1>7, <1>8, <1>9, <1>10, <1>11, <1>12 DEF Next

LEMMA SessionsTyped == ASSUME NEW n \in Nat PROVE SessionsAt(n) \subseteq Sessions
<1> SUFFICES ASSUME NEW x \in SessionsAt(n) PROVE x \in Sessions
  OBVIOUS
<1>1. x \in [run : RunStates, events : Seq(Events)] /\ Len(x.events) <= EventWindow
  BY DEF SessionsAt
<1>2. Len(x.events) \in 0..EventWindow /\ x.events \in [1..Len(x.events) -> Events]
  BY <1>1, Constants
<1>3. x.events \in UNION {[1..k -> Events] : k \in 0..EventWindow}
  BY <1>2
<1> QED BY <1>1, <1>3 DEF Sessions, Events, RunStates

\* For all workspaces, any number of requests that select one, any window and any
\* number of kills, failures and restarts: every session in memory and on disk is
\* well formed, a run keeps at most EventWindow events (RecordAgentRunEvent), and
\* while the process is up, main's currentApp and the server's runtime are
\* applications that it has loaded.
THEOREM TypeCorrect == Spec => []TypeOK
<1>1. IInv => TypeOK
  <2> SUFFICES ASSUME IInv PROVE TypeOK
    OBVIOUS
  <2>1. PICK n \in Nat : n = counts.events
    <3>1. counts.events \in Nat
      BY Constants DEF IInv, Typed
    <3> QED BY <3>1
  <2>2. Typed(n) /\ Control
    BY <2>1 DEF IInv
  <2>3. ASSUME NEW a \in DOMAIN apps
        PROVE  apps[a].ws \in Workspaces /\ apps[a].session \in Sessions
    <3>1. apps \in Seq(Apps(n))
      BY <2>2 DEF Typed, AppsOK
    <3>2. apps[a] \in Apps(n)
      BY <3>1
    <3> QED BY <3>2, SessionsTyped DEF Apps
  <2>4. ASSUME NEW p \in Paths, NEW f \in {"file", "archive"}
        PROVE  /\ disk[p][f].kind \in {"absent", "torn", "whole"}
               /\ disk[p][f].data \in Sessions
    <3>1. disk[p] \in FilesAt(n)
      BY <2>2 DEF Typed, DiskOK
    <3>2. disk[p][f] \in CopiesAt(n)
      BY <3>1 DEF FilesAt
    <3> QED BY <3>2, SessionsTyped DEF CopiesAt
  <2>5. phase \in {"up", "stopping"} => {current, serving} \subseteq DOMAIN apps
    BY <2>2 DEF Control, Running
  <2>6. save = NoSave \/ save.app \in DOMAIN apps
    BY <2>2 DEF Control, Saver
  <2> QED BY <2>2, <2>3, <2>4, <2>5, <2>6 DEF TypeOK, Typed
<1> QED BY InitOK, NextOK, <1>1, PTL DEF Spec

\* For all of these, a kill at any moment loses at most the Save under way: until
\* something has failed, Load accepts what is on disk between any two operations
\* of Save (SaveToFile, writeFullSessionArchive, writeSessionFile), whoever saves,
\* and returns the records of the last finished Save or of the one under way; also
\* when workspaces share a file, and when a switch loads a path before it saves.
THEOREM Recoverable == Spec => []RecoverableNow
<1>1. IInv => RecoverableNow
  <2> SUFFICES ASSUME IInv, NothingFailed, NEW p \in Paths
               PROVE  /\ ~LoadRefuses(disk[p])
                      /\ Compacted(Loaded(disk[p])) \in
                           {Compacted(image[p])}
                             \cup (IF save # NoSave /\ SavePath = p
                                   THEN {Compacted(save.image)} ELSE {})
    BY DEF RecoverableNow
  <2>1. FilesOK(p)
    BY DEF IInv, FilesHeld
  <2>2. PICK n \in Nat : n = counts.events
    <3>1. counts.events \in Nat
      BY Constants DEF IInv, Typed
    <3> QED BY <3>1
  <2>3. disk[p] \in FilesAt(n)
    BY <2>2 DEF IInv, Typed, DiskOK
  <2>4. CASE Settled(disk[p], image[p])
    BY <2>3, <2>4, LoadedSettled
  <2>5. CASE ~Settled(disk[p], image[p])
    <3>1. /\ save # NoSave /\ SavePath = p /\ save.pc \in {"rename", "file", "write"}
          /\ Progress(save.pc, disk[p], image[p], save.image)
      BY <2>1, <2>5 DEF FilesOK, UnderWay, Progress, NoSave
    <3>2. CASE save.pc = "rename"
      BY <3>1, <3>2 DEF Progress, OldFile, Holds, LoadRefuses, Loaded
    <3>3. CASE save.pc = "file"
      BY <3>1, <3>3 DEF Progress, OldFile, Holds, LoadRefuses, Loaded
    <3>4. CASE save.pc = "write"
      BY <3>1, <3>4 DEF Progress, Holds, LoadRefuses, Loaded
    <3> QED BY <3>1, <3>2, <3>3, <3>4
  <2> QED BY <2>4, <2>5
<1> QED BY InitOK, NextOK, <1>1, PTL DEF Spec

------------------------------------------------------------------------------
(* Who is saved and who is served                                          *)

Up == phase \in {"up", "stopping"}
Served == Path(apps[serving].ws)

\* No request gets the mutexes for the path that is served already. The handler
\* compares the paths before it takes them, so that two requests can break this.
SwitchesAway ==
    \A s \in Selectors : select[s].pc = "locked" => Path(select[s].workspace) # Served

Booting == {"booted", "saving", "saved"}
Locking == {"locked"} \cup Booting

\* Main's application is the server's, except between the Save of a switch and its
\* end. What is saved is what is served.
Roles ==
    /\ Up /\ (\A s \in Selectors : select[s].pc # "saved") => current = serving
    /\ save.pc # "none" => save.app = serving
    /\ save.pc \in {"file", "write"} => disk[SavePath].archive = Whole(save.image)
    /\ client.pc = "open" => phase = "up"
    /\ phase = "stopping" => save.by = "main"
    /\ \A s \in Selectors :
          /\ select[s].pc \in Locking => ~Blocked
          /\ select[s].pc \in Booting => Path(apps[select[s].app].ws) # Served
          /\ select[s].pc = "saving" => save.pc # "none" /\ save.by = s
          /\ select[s].pc = "saved" => current = select[s].app /\ save.pc = "none"

\* What is typed, for the steps below.
LEMMA ServedTyped ==
  ASSUME IInv
  PROVE  /\ counts.events \in 0..MaxEvents /\ AppsOK(counts.events)
         /\ DOMAIN apps = 1..Len(apps) /\ Len(apps) \in Nat
         /\ \A a \in DOMAIN apps : /\ apps[a].ws \in Workspaces /\ Path(apps[a].ws) \in Paths
                                   /\ apps[a].session \in SessionsAt(counts.events)
         /\ Up => /\ serving \in DOMAIN apps /\ current \in DOMAIN apps
                  /\ Served \in Paths /\ Session \in SessionsAt(counts.events)
         /\ save.pc # "none" => Up /\ save.app \in DOMAIN apps /\ SavePath \in Paths
         /\ \A s \in Selectors : select[s].pc \in SelectPcs /\ select[s].workspace \in Workspaces
<1>1. counts.events \in 0..MaxEvents /\ AppsOK(counts.events) /\ SelectOK
  BY DEF IInv, Typed
<1>2. DOMAIN apps = 1..Len(apps) /\ Len(apps) \in Nat
  BY <1>1 DEF AppsOK
<1>3. ASSUME NEW a \in DOMAIN apps
      PROVE  /\ apps[a].ws \in Workspaces /\ Path(apps[a].ws) \in Paths
             /\ apps[a].session \in SessionsAt(counts.events)
  <2>1. apps[a] \in Apps(counts.events)
    BY <1>1, <1>2, <1>3 DEF AppsOK
  <2> QED BY <2>1, Constants DEF Apps
<1>4. Up => serving \in DOMAIN apps /\ current \in DOMAIN apps
  BY DEF IInv, Control, Running, Up
<1>5. save.pc # "none" => Up /\ save.app \in DOMAIN apps
  BY DEF IInv, Control, Saver, Switching, Up
<1> QED BY <1>1, <1>2, <1>3, <1>4, <1>5 DEF Served, Session, SavePath, SelectOK

\* One switch at a time is past its check.
LEMMA OneLocks ==
  ASSUME IInv, NEW s \in Selectors, select[s].pc \in Locking
  PROVE  /\ exec = s /\ phase = "up"
         /\ \A t \in Selectors : t # s => select[t].pc \in {"idle", "asked"}
<1>1. \A t \in Selectors : select[t].pc \in SelectPcs
  BY ServedTyped
<1> QED BY <1>1 DEF IInv, Control, Switching, Locking, Booting, SelectPcs

\* A step that changes neither the applications nor who saves, serves or switches.
LEMMA RolesKept ==
  ASSUME Roles, IInv, UNCHANGED <<phase, apps, current, serving, select>>,
         save'.by = save.by, save'.app = save.app, save'.image = save.image,
         save'.pc = "none" <=> save.pc = "none",
         save'.pc \in {"file", "write"} => disk'[SavePath].archive = Whole(save.image),
         client'.pc = "open" => phase = "up"
  PROVE  Roles'
<1>1. SavePath' = SavePath
  BY DEF SavePath
<1>2. UNCHANGED <<Up, Served, Session, Blocked>>
  BY DEF Up, Served, Session, Blocked
<1> QED BY <1>1, <1>2 DEF Roles

LEMMA SavingRoles ==
  ASSUME IInv, Roles, Saving PROVE Roles'
<1>1. save \in [pc : SavePcs, app : Nat, by : Selectors \cup {Nobody, "main"},
                image : SessionsAt(counts.events)]
  BY DEF IInv, Typed, SaveOK
<1>2. /\ save.pc # "none" /\ UNCHANGED <<phase, apps, current, serving, select, client>>
      /\ \E pc \in SavePcs \ {"none"} : save' = [save EXCEPT !.pc = pc]
  BY DEF Saving, WriteTemporary, RenameArchive, CopyArchive, FinishCopy, TruncateFile,
         WriteFile, SaveFails, SavePcs
<1>3. /\ save'.pc # "none" /\ save'.by = save.by /\ save'.app = save.app
      /\ save'.image = save.image
  BY <1>1, <1>2
<1>4. SavePath \in Paths /\ disk \in [Paths -> FilesAt(counts.events)]
  BY <1>2, ServedTyped DEF IInv, Typed, DiskOK
<1>5. save'.pc \in {"file", "write"} => disk'[SavePath].archive = Whole(save.image)
  <2>1. CASE RenameArchive \/ FinishCopy
    BY <1>4, <2>1 DEF RenameArchive, FinishCopy, FilesAt
  <2>2. CASE TruncateFile
    BY <1>4, <2>2 DEF TruncateFile, FilesAt, Roles
  <2>3. CASE WriteTemporary \/ CopyArchive \/ WriteFile \/ SaveFails
    BY <1>1, <2>3 DEF WriteTemporary, CopyArchive, WriteFile, SaveFails
  <2> QED BY <2>1, <2>2, <2>3 DEF Saving
<1>6. client'.pc = "open" => phase = "up"
  BY <1>2 DEF Roles
<1> QED BY <1>2, <1>3, <1>5, <1>6, RolesKept

\* A run begins or goes on only in the application that is served.
\* A run's step leaves every application its workspace.
LEMMA SameWorkspace ==
  ASSUME IInv, NEW x, apps' = [apps EXCEPT ![serving].session = x]
  PROVE  DOMAIN apps' = DOMAIN apps /\ \A a \in DOMAIN apps : apps'[a].ws = apps[a].ws
<1>1. \A a \in DOMAIN apps : apps[a] \in Apps(counts.events)
  <2>1. apps \in Seq(Apps(counts.events))
    BY ServedTyped DEF AppsOK
  <2> QED BY <2>1
<1> QED BY <1>1 DEF Apps

LEMMA RunRoles ==
  ASSUME IInv, Roles, NEW x, apps' = [apps EXCEPT ![serving].session = x],
         UNCHANGED <<phase, current, serving, select, save, disk, client>>, Up,
         exec \notin Selectors
  PROVE  Roles'
<1>1. serving \in DOMAIN apps /\ (save.pc # "none" => save.app \in DOMAIN apps)
  BY ServedTyped
<1>2. DOMAIN apps' = DOMAIN apps /\ \A a \in DOMAIN apps : apps'[a].ws = apps[a].ws
  BY SameWorkspace
<1>3. UNCHANGED <<Served, Up>> /\ (save.pc # "none" => SavePath' = SavePath)
  BY <1>1, <1>2 DEF Served, Up, SavePath
<1>4. \A s \in Selectors : select[s].pc \notin Locking
  BY OneLocks
<1> QED BY <1>3, <1>4 DEF Roles, Locking, Booting

LEMMA ForgetRoles ==
  ASSUME ForgetMemory, phase' \in {"down", "stopped"} PROVE Roles'
<1>1. client'.pc # "open" \/ phase' = "up"
  <2>1. client' = [client EXCEPT !.pc = "closed"]
    BY DEF ForgetMemory
  <2> QED BY <2>1
<1> QED BY <1>1 DEF ForgetMemory, Roles, NoSave, Idle, Up, Locking, Booting

LEMMA InitRoles == Init => Roles
BY DEF Init, Roles, NoSave, Idle, Up, Locking, Booting

\* What a step of one switch leaves as it is.
LEMMA OthersKept ==
  ASSUME IInv, NEW s \in Selectors, NEW r, select' = [select EXCEPT ![s] = r]
  PROVE  select'[s] = r /\ \A t \in Selectors \ {s} : select'[t] = select[t]
BY DEF IInv, Typed, SelectOK

LEMMA IdlePc == Idle.pc = "idle"
BY DEF Idle

LEMMA StartRoles ==
  ASSUME IInv, Roles, Start PROVE Roles'
<1>1. phase \in {"down", "stopped"} /\ UNCHANGED <<select, save, client>>
  BY DEF Start
<1>2. save.pc = "none" /\ \A s \in Selectors : select[s].pc = "idle"
  BY <1>1 DEF IInv, Control, Running, Switching
<1>3. phase' \in {"up", "refused"} /\ (phase' = "up" => current' = serving')
  BY DEF Start
<1>4. client.pc # "open"
  BY <1>1 DEF Roles
<1> QED BY <1>1, <1>2, <1>3, <1>4 DEF Roles, Up, Locking, Booting

LEMMA StopRoles ==
  ASSUME IInv, Roles, Stop PROVE Roles'
<1>1. /\ phase = "up" /\ client.pc = "closed" /\ phase' = "stopping"
      /\ \A s \in Selectors : select[s].pc = "idle"
      /\ save' = [pc |-> "archive", app |-> current, by |-> "main",
                  image |-> apps[current].session]
      /\ UNCHANGED <<apps, current, serving, select, disk, client>>
  BY DEF Stop, BeginSave
<1> QED BY <1>1 DEF Roles, Up, Locking, Booting

LEMMA AskRoles ==
  ASSUME IInv, Roles, NEW s \in Selectors, AskSelect(s) PROVE Roles'
<1>1. PICK r : select' = [select EXCEPT ![s] = r] /\ r.pc = "asked"
  <2>1. PICK w \in Workspaces :
           select' = [select EXCEPT ![s] = [pc |-> "asked", workspace |-> w, app |-> None]]
    BY DEF AskSelect
  <2> DEFINE r == [pc |-> "asked", workspace |-> w, app |-> None]
  <2>2. select' = [select EXCEPT ![s] = r] /\ r.pc = "asked"
    BY <2>1
  <2> HIDE DEF r
  <2> QED BY <2>2
<1>2. /\ select[s].pc = "idle" /\ select'[s].pc = "asked"
      /\ \A t \in Selectors \ {s} : select'[t] = select[t]
      /\ UNCHANGED <<phase, apps, current, serving, save, disk, client>>
  BY <1>1, OthersKept DEF AskSelect
<1>3. UNCHANGED <<Up, Served, Blocked>> /\ SavePath' = SavePath
  BY <1>2 DEF Up, Served, Blocked, Session, SavePath
<1> QED BY <1>2, <1>3 DEF Roles, Locking, Booting

LEMMA LockRoles ==
  ASSUME IInv, Roles, NEW s \in Selectors, LockSelect(s) PROVE Roles'
<1>1. /\ select[s].pc = "asked"
      /\ \A t \in Selectors \ {s} : select'[t] = select[t]
      /\ select'[s].pc = "idle" \/ (select'[s].pc = "locked" /\ ~Blocked)
      /\ UNCHANGED <<phase, apps, current, serving, save, disk, client>>
  <2>1. select[s] \in SelectRecords /\ Idle.pc = "idle"
        /\ [select[s] EXCEPT !.pc = "locked"].pc = "locked"
    BY SelectTyped DEF IInv, Typed, Idle, SelectPcs
  <2>2. CASE exec # Nobody \/ Blocked
    <3>1. select' = [select EXCEPT ![s] = Idle]
      BY <2>2 DEF LockSelect
    <3> QED BY <2>1, <3>1, OthersKept DEF LockSelect
  <2>3. CASE ~(exec # Nobody \/ Blocked)
    <3> DEFINE r == [select[s] EXCEPT !.pc = "locked"]
    <3>1. select' = [select EXCEPT ![s] = r]
      BY <2>3 DEF LockSelect
    <3>2. r.pc = "locked"
      BY <2>1
    <3> HIDE DEF r
    <3> QED BY <2>3, <3>1, <3>2, OthersKept DEF LockSelect
  <2> QED BY <2>2, <2>3
<1>2. UNCHANGED <<Up, Served, Blocked>> /\ SavePath' = SavePath
  BY <1>1 DEF Up, Served, Blocked, Session, SavePath
<1> QED BY <1>1, <1>2 DEF Roles, Locking, Booting

LEMMA BootRoles ==
  ASSUME IInv, Roles, SwitchesAway, NEW s \in Selectors, BootSelect(s) PROVE Roles'
<1> DEFINE p == Path(select[s].workspace)
           n == Len(apps) + 1
<1>1. /\ select[s].pc = "locked" /\ p # Served
      /\ UNCHANGED <<phase, current, serving, save, client>>
  BY DEF BootSelect, SwitchesAway
<1>2. /\ exec = s /\ phase = "up" /\ serving \in DOMAIN apps /\ save.pc = "none"
      /\ \A t \in Selectors : t # s => select[t].pc \in {"idle", "asked"}
      /\ DOMAIN apps = 1..Len(apps) /\ Len(apps) \in Nat /\ ~Blocked
  BY <1>1, OneLocks, ServedTyped, NobodySaves DEF Up, Locking, Roles
<1>3. CASE LoadRefuses(disk[p])
  <2>1. select' = [select EXCEPT ![s] = Idle] /\ apps' = apps
    BY <1>3 DEF BootSelect
  <2>2. UNCHANGED <<Up, Served, Blocked>>
    BY <1>1, <2>1 DEF Up, Served, Blocked, Session
  <2>3. select'[s].pc = "idle" /\ \A t \in Selectors \ {s} : select'[t] = select[t]
    BY <2>1, IdlePc, OthersKept
  <2> QED BY <1>1, <1>2, <2>2, <2>3 DEF Roles, Locking, Booting
<1>4. CASE ~LoadRefuses(disk[p])
  <2> DEFINE a == [ws |-> select[s].workspace, session |-> Loaded(disk[p])]
  <2>1. /\ apps' = Append(apps, a)
        /\ select' = [select EXCEPT ![s].pc = "booted", ![s].app = n]
    BY <1>4 DEF BootSelect
  <2>2. /\ \A b \in DOMAIN apps : apps'[b] = apps[b]
        /\ apps'[n].ws = select[s].workspace
    <3>1. apps \in Seq(Apps(counts.events))
      BY ServedTyped DEF AppsOK
    <3>2. apps'[n] = a /\ \A b \in DOMAIN apps : apps'[b] = apps[b]
      <4> HIDE DEF a
      <4> QED BY <1>2, <2>1, <3>1
    <3> QED BY <3>2
  <2>3. /\ select'[s].pc = "booted" /\ select'[s].app = n
        /\ \A t \in Selectors \ {s} : select'[t] = select[t]
    <3> DEFINE booted == [select[s] EXCEPT !.pc = "booted"]
               f == [select EXCEPT ![s] = booted]
               r == [booted EXCEPT !.app = n]
    <3>1. s \in DOMAIN select /\ select[s] \in SelectRecords
      BY SelectTyped DEF IInv, Typed, SelectOK
    <3>2. booted = [pc |-> "booted", workspace |-> select[s].workspace, app |-> select[s].app]
      BY <3>1 DEF SelectRecords
    <3> HIDE DEF n, booted
    <3>3. r.pc = "booted" /\ r.app = n
      BY <3>2
    <3>4. select' = [f EXCEPT ![s] = [f[s] EXCEPT !.app = n]] /\ f[s] = booted
      BY <2>1, <3>1 DEF booted
    <3>5. select' = [select EXCEPT ![s] = r]
      BY <3>4
    <3> HIDE DEF r
    <3> QED BY <3>3, <3>5, OthersKept
  <2>4. UNCHANGED <<Up, Served, Blocked>>
    BY <1>1, <1>2, <2>2 DEF Up, Served, Blocked, Session
  <2>5. Path(apps'[select'[s].app].ws) = p
    BY <2>2, <2>3 DEF Path
  <2> HIDE DEF p, n, a
  <2>6. (\A t \in Selectors : select'[t].pc # "saved") /\ current = serving
    BY <1>1, <1>2, <2>3 DEF Roles, Up
  <2> QED BY <1>1, <1>2, <2>3, <2>4, <2>5, <2>6 DEF Roles, Locking, Booting
<1> QED BY <1>3, <1>4

LEMMA SaveSelectRoles ==
  ASSUME IInv, Roles, NEW s \in Selectors, SaveSelect(s) PROVE Roles'
<1> DEFINE r == [select[s] EXCEPT !.pc = "saving"]
<1>1. /\ select[s].pc = "booted" /\ select' = [select EXCEPT ![s] = r]
      /\ save' = [pc |-> "archive", app |-> current, by |-> s, image |-> apps[current].session]
      /\ UNCHANGED <<phase, apps, current, serving, disk, client>>
  BY DEF SaveSelect, BeginSave
<1>2. /\ phase = "up" /\ \A t \in Selectors : t # s => select[t].pc \in {"idle", "asked"}
  BY <1>1, OneLocks DEF Locking, Booting
<1>3. r.pc = "saving" /\ r.app = select[s].app
  BY SelectTyped DEF IInv, Typed, SelectPcs
<1> HIDE DEF r
<1>4. select'[s] = r /\ \A t \in Selectors \ {s} : select'[t] = select[t]
  BY <1>1, OthersKept
<1>5. UNCHANGED <<Up, Served, Blocked>> /\ current = serving
  <2>1. \A t \in Selectors : select[t].pc # "saved"
    BY <1>1, <1>2
  <2> QED BY <1>1, <1>2, <2>1 DEF Up, Served, Blocked, Session, Roles
<1> QED BY <1>1, <1>2, <1>3, <1>4, <1>5 DEF Roles, Locking, Booting

LEMMA SavedRoles ==
  ASSUME IInv, Roles, NEW s \in Selectors, SavedSelect(s) PROVE Roles'
<1>1. /\ select[s].pc = "saving" /\ save' = NoSave /\ save.pc \in {"done", "failed"}
      /\ UNCHANGED <<phase, apps, serving, disk, client>>
  BY DEF SavedSelect
<1>2. /\ phase = "up" /\ \A t \in Selectors : t # s => select[t].pc \in {"idle", "asked"}
      /\ UNCHANGED <<Up, Served, Blocked>>
  BY <1>1, OneLocks DEF Locking, Booting, Up, Served, Blocked, Session
<1>3. \A t \in Selectors \ {s} : select'[t] = select[t]
  BY OthersKept DEF SavedSelect
<1>4. \/ select'[s].pc = "idle" /\ current' = current
      \/ /\ select'[s].pc = "saved" /\ current' = select[s].app
         /\ select'[s].app = select[s].app
  <2>1. CASE save.pc = "done"
    <3> DEFINE r == [select[s] EXCEPT !.pc = "saved"]
    <3>1. select' = [select EXCEPT ![s] = r] /\ current' = select[s].app
      BY <2>1 DEF SavedSelect
    <3>2. r.pc = "saved" /\ r.app = select[s].app
      BY SelectTyped DEF IInv, Typed, SelectPcs
    <3> HIDE DEF r
    <3> QED BY <3>1, <3>2, OthersKept
  <2>2. CASE save.pc = "failed"
    <3>1. select' = [select EXCEPT ![s] = Idle] /\ current' = current
      BY <2>2 DEF SavedSelect
    <3> QED BY <3>1, IdlePc, OthersKept
  <2> QED BY <1>1, <2>1, <2>2
<1>5. current = serving
  BY <1>1, <1>2 DEF Roles, Up
<1> QED BY <1>1, <1>2, <1>3, <1>4, <1>5 DEF Roles, NoSave, Locking, Booting

LEMMA ServeRoles ==
  ASSUME IInv, Roles, NEW s \in Selectors, ServeSelect(s) PROVE Roles'
<1>1. /\ select[s].pc = "saved" /\ serving' = select[s].app
      /\ select' = [select EXCEPT ![s] = Idle]
      /\ UNCHANGED <<phase, apps, current, save, disk, client>>
  BY DEF ServeSelect
<1>2. /\ \A t \in Selectors : t # s => select[t].pc \in {"idle", "asked"}
      /\ current = select[s].app /\ save.pc = "none"
  BY <1>1, OneLocks DEF Locking, Booting, Roles
<1>3. select'[s].pc = "idle" /\ \A t \in Selectors \ {s} : select'[t] = select[t]
  BY <1>1, IdlePc, OthersKept
<1> QED BY <1>1, <1>2, <1>3 DEF Roles, Locking, Booting, Up

LEMMA NextRoles ==
  ASSUME IInv, Roles, SwitchesAway, [Next]_vars PROVE Roles'
<1>1. CASE Start
  BY <1>1, StartRoles
<1>2. CASE Crash \/ Exit
  BY <1>2, ForgetRoles DEF Crash, Exit
<1>3. CASE Stop
  BY <1>3, StopRoles
<1>4. CASE Saving
  BY <1>4, SavingRoles
<1>5. CASE BeginRun
  <2>1. apps' = [apps EXCEPT ![serving].session = [Session EXCEPT !.run = "running"]]
    BY <1>5 DEF BeginRun, Session
  <2>2. exec \notin Selectors /\ Up
    BY <1>5, Constants DEF BeginRun, Up
  <2> QED BY <1>5, <2>1, <2>2, RunRoles DEF BeginRun
<1>6. CASE AppendEvent \/ EndRun
  <2>1. PICK status, holder : Record(status, holder)
    BY <1>6 DEF AppendEvent, EndRun
  <2>2. apps' = [apps EXCEPT ![serving].session =
                   [Recorded(Session, counts.events + 1) EXCEPT !.run = status]]
    BY <2>1 DEF Record, Session
  <2>3. Up
    BY <2>1, Constants DEF Record, IInv, Typed, Control, Running, Up, Runner, Nobody
  <2> QED BY <2>1, <2>2, <2>3, RunRoles, Constants DEF Record
<1>7. CASE Follow \/ Poll \/ Disconnect
  <2>1. UNCHANGED <<phase, memory, disk>> /\ phase = "up"
    BY <1>7 DEF Follow, Poll, Disconnect, Roles
  <2> QED BY <2>1, RolesKept DEF memory, Roles
<1>8. CASE \E s \in Selectors : \/ AskSelect(s) \/ LockSelect(s) \/ BootSelect(s)
                               \/ SaveSelect(s) \/ SavedSelect(s) \/ ServeSelect(s)
  BY <1>8, AskRoles, LockRoles, BootRoles, SaveSelectRoles, SavedRoles, ServeRoles
<1>9. CASE UNCHANGED vars
  BY <1>9, RolesKept DEF vars, memory, Roles
<1> QED BY <1>1, <1>2, <1>3, <1>4, <1>5, <1>6, <1>7, <1>8, <1>9 DEF Next

------------------------------------------------------------------------------
(* What a session's events say                                             *)

Ids(x) == [i \in DOMAIN x.events |-> x.events[i].id]

LEMMA SessionFacts ==
  ASSUME NEW n \in Nat, NEW x \in SessionsAt(n)
  PROVE  /\ x.run \in RunStates /\ x.events \in Seq(Events)
         /\ DOMAIN x.events = 1..Len(x.events) /\ Len(x.events) \in Nat
         /\ Len(x.events) <= EventWindow
         /\ \A i \in DOMAIN x.events : /\ x.events[i] \in Events
                                       /\ x.events[i].seq \in 1..MaxEvents
                                       /\ x.events[i].id \in 0..MaxEvents
                                       /\ x.events[i].id <= n
         /\ \A i, j \in DOMAIN x.events : i < j => /\ x.events[i].seq < x.events[j].seq
                                                /\ x.events[i].id < x.events[j].id
         /\ x.run = "none" => x.events = <<>>
<1>1. x.run \in RunStates /\ x.events \in Seq(Events) /\ Len(x.events) <= EventWindow
      /\ Numbered(x) /\ \A i \in DOMAIN x.events : x.events[i].id <= n
  BY DEF SessionsAt
<1>2. \A i \in DOMAIN x.events : x.events[i] \in Events
  BY <1>1
<1>3. \A e \in Events : e.seq \in 1..MaxEvents /\ e.id \in 0..MaxEvents
  BY DEF Events
<1> QED BY <1>1, <1>2, <1>3 DEF Numbered

\* Sessions with the same compact form have the same events but for their form.
LEMMA CompactSame ==
  ASSUME NEW n \in Nat, NEW x \in SessionsAt(n), NEW y \in SessionsAt(n),
         Compacted(x) = Compacted(y)
  PROVE  /\ x.run = y.run /\ DOMAIN x.events = DOMAIN y.events /\ Len(x.events) = Len(y.events)
         /\ \A i \in DOMAIN x.events : /\ x.events[i].seq = y.events[i].seq
                                       /\ x.events[i].id = y.events[i].id
<1>1. ASSUME NEW z \in SessionsAt(n)
      PROVE  /\ Compacted(z).run = z.run /\ DOMAIN Compacted(z).events = DOMAIN z.events
             /\ \A i \in DOMAIN z.events : /\ Compacted(z).events[i].seq = z.events[i].seq
                                           /\ Compacted(z).events[i].id = z.events[i].id
  <2> DEFINE some == [i \in DOMAIN z.events |-> [z.events[i] EXCEPT !.form = "cut"]]
  <2>1. Compacted(z) = [z EXCEPT !.events = some]
    BY DEF Compacted
  <2>2. z \in [run : RunStates, events : Seq(Events)]
    BY DEF SessionsAt
  <2>3. DOMAIN some = DOMAIN z.events
        /\ \A i \in DOMAIN z.events : some[i].seq = z.events[i].seq /\ some[i].id = z.events[i].id
    <3>1. \A i \in DOMAIN z.events : z.events[i] \in Events
      BY SessionFacts
    <3>2. \A e \in Events : [e EXCEPT !.form = "cut"].seq = e.seq
                            /\ [e EXCEPT !.form = "cut"].id = e.id
      BY DEF Events
    <3> QED BY <3>1, <3>2
  <2> HIDE DEF some
  <2>4. Compacted(z).events = some /\ Compacted(z).run = z.run
    BY <2>1, <2>2
  <2> QED BY <2>3, <2>4
<1>2. x.run = y.run /\ DOMAIN x.events = DOMAIN y.events
  BY <1>1
<1>3. Len(x.events) = Len(y.events)
  BY <1>2, SessionFacts
<1> QED BY <1>1, <1>2, <1>3

\* The next number is the one after the last event's.
LEMMA NextSeqLast ==
  ASSUME NEW n \in Nat, NEW x \in SessionsAt(n)
  PROVE  /\ NextSeq(x.events) \in Nat \ {0}
         /\ \A i \in DOMAIN x.events : x.events[i].seq < NextSeq(x.events)
         /\ x.events = <<>> => NextSeq(x.events) = 1
         /\ Len(x.events) # 0 => NextSeq(x.events) = x.events[Len(x.events)].seq + 1
<1> DEFINE ev == x.events
           seqs == {0} \cup {ev[i].seq : i \in DOMAIN ev}
<1>1. /\ ev \in Seq(Events) /\ Len(ev) \in Nat /\ DOMAIN ev = 1..Len(ev)
      /\ \A i \in DOMAIN ev : ev[i].seq \in Nat /\ ev[i].seq >= 1
      /\ \A i, j \in DOMAIN ev : i < j => ev[i].seq < ev[j].seq
  BY SessionFacts, Constants
<1>2. seqs \in SUBSET Int
  BY <1>1
<1>3. NextSeq(ev) = Max(seqs) + 1
  BY DEF NextSeq
<1>4. CASE Len(ev) = 0
  <2>1. seqs = {0} /\ DOMAIN ev = {}
    BY <1>1, <1>4
  <2>2. Max(seqs) = 0
    <3>1. 0 \in {0} /\ {0} \in SUBSET Int /\ \A y \in {0} : 0 >= y
      OBVIOUS
    <3>2. Max({0}) = 0
      BY <3>1, GreatestIsMax
    <3> QED BY <2>1, <3>2
  <2> QED BY <1>3, <1>4, <2>1, <2>2
<1>5. CASE Len(ev) # 0
  <2> DEFINE last == ev[Len(ev)].seq
  <2>1. Len(ev) \in DOMAIN ev
    BY <1>1, <1>5
  <2>2. \A i \in DOMAIN ev : ev[i].seq <= last
    <3> SUFFICES ASSUME NEW i \in DOMAIN ev PROVE ev[i].seq <= last
      OBVIOUS
    <3>1. i = Len(ev) \/ i < Len(ev)
      BY <1>1
    <3> QED BY <1>1, <2>1, <3>1
  <2>3. last \in seqs /\ last \in Nat
    BY <1>1, <2>1
  <2>4. \A y \in seqs : last >= y
    BY <1>1, <2>2, <2>3
  <2> HIDE DEF last, seqs
  <2>5. Max(seqs) = last
    BY <1>2, <2>3, <2>4, GreatestIsMax
  <2>6. NextSeq(ev) = last + 1 /\ ev # <<>>
    BY <1>3, <1>5, <2>5
  <2>7. \A i \in DOMAIN ev : ev[i].seq < NextSeq(ev)
    BY <1>1, <2>2, <2>3, <2>6
  <2> QED BY <2>3, <2>6, <2>7 DEF last
<1> QED BY <1>4, <1>5

LEMMA EvictedTwice ==
  ASSUME NEW n \in Nat, NEW k \in Nat, k = n - Evicted(n)
  PROVE  Evicted(k + 1) + Evicted(n) = Evicted(n + 1)
BY Constants DEF Evicted

LEMMA SameList ==
  ASSUME NEW S, NEW x \in Seq(S), NEW y \in Seq(S), Len(x) = Len(y),
         \A i \in 1..Len(x) : x[i] = y[i]
  PROVE  x = y
OBVIOUS

\* Cutting a list off before the next element or only after it is the same.
LEMMA BoundedAppend ==
  ASSUME NEW S, NEW l \in Seq(S), NEW e \in S
  PROVE  Bounded(Append(Bounded(l), e)) = Bounded(Append(l, e))
<1>1. PICK k : k = Bounded(l)
  OBVIOUS
<1>2. PICK d : d = Evicted(Len(l))
  OBVIOUS
<1>3. /\ Len(l) \in Nat /\ k \in Seq(S) /\ Len(k) = Len(l) - d /\ d \in 0..Len(l)
      /\ \A i \in 1..Len(k) : i + d \in 1..Len(l) /\ k[i] = l[i + d]
  BY <1>1, <1>2, BoundedOK
<1>4. PICK a : a = Append(k, e)
  OBVIOUS
<1>5. PICK b : b = Append(l, e)
  OBVIOUS
<1>6. /\ Len(k) \in Nat /\ a \in Seq(S) /\ Len(a) = Len(k) + 1
      /\ a[Len(a)] = e /\ \A i \in 1..Len(k) : a[i] = k[i]
  BY <1>3, <1>4
<1>7. /\ b \in Seq(S) /\ Len(b) = Len(l) + 1
      /\ b[Len(b)] = e /\ \A i \in 1..Len(l) : b[i] = l[i]
  BY <1>3, <1>5
<1>8. PICK x : x = Bounded(a)
  OBVIOUS
<1>9. PICK y : y = Bounded(b)
  OBVIOUS
<1>10. PICK da : da = Evicted(Len(a))
  OBVIOUS
<1>11. PICK db : db = Evicted(Len(b))
  OBVIOUS
<1>12. /\ x \in Seq(S) /\ Len(x) = Len(a) - da /\ da \in 0..Len(a)
       /\ \A i \in 1..Len(x) : i + da \in 1..Len(a) /\ x[i] = a[i + da]
  BY <1>6, <1>8, <1>10, BoundedOK
<1>13. /\ y \in Seq(S) /\ Len(y) = Len(b) - db /\ db \in 0..Len(b)
       /\ \A i \in 1..Len(y) : i + db \in 1..Len(b) /\ y[i] = b[i + db]
  BY <1>7, <1>9, <1>11, BoundedOK
<1>14. da + d = db
  BY <1>2, <1>3, <1>6, <1>7, <1>10, <1>11, EvictedTwice
<1>15. Len(x) = Len(y) /\ Len(b) = Len(a) + d
  <2>1. Len(l) \in Nat /\ Len(k) = Len(l) - d /\ d \in 0..Len(l)
    BY <1>3
  <2>2. Len(a) = Len(k) + 1 /\ Len(b) = Len(l) + 1
    BY <1>6, <1>7
  <2>3. Len(x) = Len(a) - da /\ da \in 0..Len(a) /\ Len(y) = Len(b) - db /\ db \in 0..Len(b)
    BY <1>12, <1>13
  <2> QED BY <2>1, <2>2, <2>3, <1>14
<1>16. ASSUME NEW i \in 1..Len(x) PROVE x[i] = y[i]
  <2>1. PICK j \in 1..Len(a) : j = i + da
    BY <1>12, <1>16
  <2>2. x[i] = a[j] /\ y[i] = b[i + db]
    BY <1>12, <1>13, <1>15, <1>16, <2>1
  <2>3. i + db = j + d
    BY <1>3, <1>12, <1>14, <1>16, <2>1
  <2>4. CASE j = Len(a)
    BY <1>6, <1>7, <1>15, <2>2, <2>3, <2>4
  <2>5. CASE j # Len(a)
    <3>1. j \in 1..Len(k)
      BY <1>6, <2>1, <2>5
    <3>2. a[j] = k[j] /\ k[j] = l[j + d] /\ j + d \in 1..Len(l)
      BY <1>3, <1>6, <3>1
    <3>3. b[j + d] = l[j + d]
      BY <1>7, <3>2
    <3> QED BY <2>2, <2>3, <3>2, <3>3
  <2> QED BY <2>4, <2>5
<1>17. x = y
  <2>1. x \in Seq(S) /\ y \in Seq(S) /\ Len(x) = Len(y) /\ \A i \in 1..Len(x) : x[i] = y[i]
    BY <1>12, <1>13, <1>15, <1>16
  <2> QED BY <2>1, SameList, Zenon
<1> QED BY <1>1, <1>4, <1>5, <1>8, <1>9, <1>17

LEMMA WindowBounded ==
  ASSUME NEW S, NEW l \in Seq(S)
  PROVE  SubSeq(l, Max({1, Len(l) - EventWindow + 1}), Len(l)) = Bounded(l)
<1> DEFINE m == Len(l) - EventWindow + 1
<1>1. Len(l) \in Nat /\ EventWindow \in Nat /\ m \in Int
  BY Constants
<1>2. CASE Len(l) <= EventWindow
  <2>1. Max({1, m}) = 1
    <3>1. {1, m} \in SUBSET Int /\ 1 \in {1, m} /\ \A y \in {1, m} : 1 >= y
      BY <1>1, <1>2
    <3> HIDE DEF m
    <3> QED BY <3>1, GreatestIsMax
  <2>2. SubSeq(l, 1, Len(l)) = l
    OBVIOUS
  <2> QED BY <1>2, <2>1, <2>2 DEF Bounded
<1>3. CASE ~(Len(l) <= EventWindow)
  <2>1. Max({1, m}) = m
    <3>1. {1, m} \in SUBSET Int /\ m \in {1, m} /\ \A y \in {1, m} : m >= y
      BY <1>1, <1>3
    <3> HIDE DEF m
    <3> QED BY <3>1, GreatestIsMax
  <2> QED BY <1>3, <2>1 DEF Bounded
<1> QED BY <1>2, <1>3

LEMMA IdsTyped ==
  ASSUME NEW n \in Nat, NEW x \in SessionsAt(n)
  PROVE  /\ Ids(x) \in Seq(Nat) /\ Len(Ids(x)) = Len(x.events)
         /\ \A i \in DOMAIN x.events : Ids(x)[i] = x.events[i].id
<1>1. /\ DOMAIN x.events = 1..Len(x.events) /\ Len(x.events) \in Nat
      /\ \A i \in DOMAIN x.events : x.events[i].id \in Nat
  BY SessionFacts, Constants
<1> QED BY <1>1 DEF Ids

\* The session after the event n + 1 was recorded with a status.
After(x, n, status) == [Recorded(x, n + 1) EXCEPT !.run = status]

\* Recording adds one event with the next number and evicts the oldest.
LEMMA RecordedFacts ==
  ASSUME NEW n \in Nat, n < MaxEvents, NEW x \in SessionsAt(n), x.run # "completed",
         NEW status \in RunStates \ {"none"},
         NEW y, y = After(x, n, status)
  PROVE  /\ y \in SessionsAt(n + 1) /\ y.run = status
         /\ Ids(y) = Bounded(Append(Ids(x), n + 1))
         /\ NextSeq(y.events) = NextSeq(x.events) + 1
         /\ \A i \in DOMAIN y.events :
               \/ y.events[i].seq = NextSeq(x.events) /\ y.events[i].id = n + 1
               \/ \E j \in DOMAIN x.events : y.events[i] = x.events[j]
<1>1. y \in SessionsAt(n + 1)
  BY RecordedOK DEF After
<1>2. PICK e : e = [seq |-> NextSeq(x.events), id |-> n + 1, form |-> "full"]
  OBVIOUS
<1>3. e \in Events /\ e.seq = NextSeq(x.events) /\ e.id = n + 1
  BY <1>2, NextSeqOK, Constants DEF Events
<1>4. PICK all : all = Append(x.events, e)
  OBVIOUS
<1>5. PICK L : L = Len(x.events) + 1
  OBVIOUS
<1>6. /\ x.events \in Seq(Events) /\ DOMAIN x.events = 1..Len(x.events) /\ Len(x.events) \in Nat
  BY SessionFacts
<1>7. /\ all \in Seq(Events) /\ Len(all) = L /\ L \in Nat /\ L > 0
      /\ all[L] = e /\ \A i \in DOMAIN x.events : all[i] = x.events[i]
  BY <1>3, <1>4, <1>5, <1>6
<1>8. y.run = status /\ y.events = Bounded(all)
  <2> DEFINE b == Bounded(all)
  <2>1. Recorded(x, n + 1) = [x EXCEPT !.events = b]
    BY <1>2, <1>4 DEF Recorded
  <2>2. x \in [run : RunStates, events : Seq(Events)]
    BY DEF SessionsAt
  <2> HIDE DEF b
  <2>3. y.run = status /\ y.events = b
    BY <2>1, <2>2 DEF After
  <2> QED BY <2>3 DEF b
<1>9. PICK off : off = Evicted(L)
  OBVIOUS
<1>10. /\ Len(y.events) = L - off /\ off \in 0..L /\ y.events \in Seq(Events)
       /\ \A i \in 1..Len(y.events) : i + off \in 1..L /\ y.events[i] = all[i + off]
  BY <1>7, <1>8, <1>9, BoundedOK
<1>11. off < L
  BY <1>7, <1>9, Constants DEF Evicted
<1>12. DOMAIN y.events = 1..Len(y.events) /\ Len(y.events) \in Nat
  BY <1>1, SessionFacts
<1>13. ASSUME NEW i \in DOMAIN y.events
       PROVE  \/ y.events[i] = e
              \/ \E j \in DOMAIN x.events : y.events[i] = x.events[j]
  <2>1. i + off \in 1..L /\ y.events[i] = all[i + off]
    BY <1>10, <1>12, <1>13
  <2>2. CASE i + off = L
    BY <1>7, <2>1, <2>2
  <2>3. CASE i + off # L
    <3>1. i + off \in DOMAIN x.events
      BY <1>5, <1>6, <2>1, <2>3
    <3> QED BY <1>7, <2>1, <3>1
  <2> QED BY <2>2, <2>3
<1>14. NextSeq(y.events) = NextSeq(x.events) + 1
  <2>1. Len(y.events) # 0 /\ Len(y.events) \in 1..Len(y.events) /\ Len(y.events) + off = L
    BY <1>7, <1>10, <1>11, <1>12
  <2>2. y.events[Len(y.events)] = e
    BY <1>7, <1>10, <2>1
  <2>3. NextSeq(y.events) = y.events[Len(y.events)].seq + 1
    <3>1. n + 1 \in Nat
      OBVIOUS
    <3> QED BY <1>1, <2>1, <3>1, NextSeqLast
  <2> QED BY <1>3, <2>2, <2>3
<1>15. Ids(y) = Bounded(Append(Ids(x), n + 1))
  <2>1. PICK m : m = Append(Ids(x), n + 1)
    OBVIOUS
  <2>2. /\ m \in Seq(Nat) /\ Len(m) = L /\ m[L] = n + 1
        /\ \A i \in DOMAIN x.events : m[i] = x.events[i].id
    BY <1>5, <1>6, <2>1, IdsTyped
  <2>3. \A i \in 1..L : m[i] = all[i].id
    <3> SUFFICES ASSUME NEW i \in 1..L PROVE m[i] = all[i].id
      OBVIOUS
    <3>1. CASE i = L
      BY <1>3, <1>7, <2>2, <3>1
    <3>2. CASE i # L
      <4>1. i \in DOMAIN x.events
        BY <1>5, <1>6, <3>2
      <4> QED BY <1>7, <2>2, <4>1
    <3> QED BY <3>1, <3>2
  <2>4. /\ Bounded(m) \in Seq(Nat) /\ Len(Bounded(m)) = L - off
        /\ \A i \in 1..Len(Bounded(m)) : Bounded(m)[i] = m[i + off]
    BY <1>9, <2>2, BoundedOK
  <2>5. Ids(y) \in Seq(Nat) /\ Len(Ids(y)) = L - off
        /\ \A i \in 1..Len(y.events) : Ids(y)[i] = y.events[i].id
    <3>1. n + 1 \in Nat
      OBVIOUS
    <3> QED BY <1>1, <1>10, <1>12, <3>1, IdsTyped
  <2>6. ASSUME NEW i \in 1..Len(Ids(y)) PROVE Ids(y)[i] = Bounded(m)[i]
    <3>1. i \in 1..Len(y.events) /\ i \in 1..Len(Bounded(m))
      BY <1>10, <2>4, <2>5
    <3>2. i + off \in 1..L /\ y.events[i] = all[i + off]
      BY <1>10, <3>1
    <3> QED BY <2>3, <2>4, <2>5, <3>1, <3>2
  <2>7. Ids(y) \in Seq(Nat) /\ Bounded(m) \in Seq(Nat) /\ Len(Ids(y)) = Len(Bounded(m))
        /\ \A i \in 1..Len(Ids(y)) : Ids(y)[i] = Bounded(m)[i]
    BY <2>4, <2>5, <2>6
  <2>8. Ids(y) = Bounded(m)
    BY <2>7, SameList, Zenon
  <2> QED BY <2>1, <2>8
<1> QED BY <1>1, <1>3, <1>8, <1>13, <1>14, <1>15

------------------------------------------------------------------------------
(* The client and the ghost record of the events                           *)

ClientTyped ==
    /\ client \in [pc : {"open", "closed"}, since : Nat, got : Seq(Nat)]
    /\ log \in [Paths -> Seq(Nat)]

\* What one turn of the stream's loop adds, of the events x it finds.
Sends(x, new) ==
    /\ new \in Seq(Nat)
    /\ client'.got = client.got \o new
    /\ \A k \in 1..Len(new) : \E i \in DOMAIN x.events :
          new[k] = x.events[i].id /\ x.events[i].seq > client.since
    /\ \A j, k \in 1..Len(new) : j < k => new[j] < new[k]
    /\ \A i \in DOMAIN x.events :
          x.events[i].seq > client.since => \E k \in 1..Len(new) : new[k] = x.events[i].id
    /\ client'.since \in Nat /\ client.since <= client'.since
    /\ \A i \in DOMAIN x.events : x.events[i].seq <= client'.since
    /\ \/ client'.since = client.since
       \/ \E i \in DOMAIN x.events : client'.since = x.events[i].seq
    /\ client'.pc \in {"open", "closed"}

LEMMA PollSends ==
  ASSUME IInv, Roles, ClientTyped, Poll, Served = Path(Home)
  PROVE  \E new : Sends(Session, new)
<1>1. PICK x : x = Session
  OBVIOUS
<1>2. PICK n \in Nat : x \in SessionsAt(n)
  <2>1. Up /\ counts.events \in Nat
    BY Constants DEF Poll, Roles, Up, IInv, Typed
  <2> QED BY <1>1, <2>1, ServedTyped
<1>3. /\ x.events \in Seq(Events) /\ DOMAIN x.events = 1..Len(x.events) /\ Len(x.events) \in Nat
      /\ \A i \in DOMAIN x.events : x.events[i].seq \in Nat /\ x.events[i].id \in Nat
      /\ \A i, j \in DOMAIN x.events : i < j => /\ x.events[i].seq < x.events[j].seq
                                             /\ x.events[i].id < x.events[j].id
  BY <1>2, SessionFacts, Constants
<1>4. PICK since \in Nat : since = client.since
  BY DEF ClientTyped
<1>5. PICK keep : keep = {i \in DOMAIN x.events : x.events[i].seq > since}
  OBVIOUS
<1>6. PICK sent : sent = Filter(x.events, keep)
  OBVIOUS
<1>7. Unsent(client.since) = sent
  BY <1>1, <1>4, <1>5, <1>6 DEF Unsent
<1>8. /\ sent \in Seq(Events)
      /\ \E at \in [1..Len(sent) -> (1..Len(x.events)) \cap keep] :
            /\ \A k \in 1..Len(sent) : sent[k] = x.events[at[k]]
            /\ \A j, k \in 1..Len(sent) : j < k => at[j] < at[k]
            /\ \A i \in (1..Len(x.events)) \cap keep : \E k \in 1..Len(sent) : at[k] = i
  BY <1>3, <1>6, FilterPlaces
<1>9. PICK at \in [1..Len(sent) -> (1..Len(x.events)) \cap keep] :
         /\ \A k \in 1..Len(sent) : sent[k] = x.events[at[k]]
         /\ \A j, k \in 1..Len(sent) : j < k => at[j] < at[k]
         /\ \A i \in (1..Len(x.events)) \cap keep : \E k \in 1..Len(sent) : at[k] = i
  BY <1>8
<1>10. /\ DOMAIN sent = 1..Len(sent) /\ Len(sent) \in Nat
       /\ \A k \in 1..Len(sent) : /\ at[k] \in DOMAIN x.events /\ x.events[at[k]].seq > since
                                  /\ sent[k] = x.events[at[k]] /\ at[k] \in Int
       /\ \A i \in DOMAIN x.events : x.events[i].seq > since => \E k \in 1..Len(sent) : at[k] = i
  <2>1. DOMAIN sent = 1..Len(sent) /\ Len(sent) \in Nat
    BY <1>8
  <2>2. ASSUME NEW k \in 1..Len(sent)
        PROVE  /\ at[k] \in DOMAIN x.events /\ x.events[at[k]].seq > since
               /\ sent[k] = x.events[at[k]] /\ at[k] \in Int
    <3>1. at[k] \in 1..Len(x.events) /\ at[k] \in keep
      BY <1>9, <2>2
    <3> QED BY <1>5, <1>9, <3>1
  <2>3. ASSUME NEW i \in DOMAIN x.events, x.events[i].seq > since
        PROVE  \E k \in 1..Len(sent) : at[k] = i
    <3>1. i \in (1..Len(x.events)) \cap keep
      BY <1>3, <1>5, <2>3
    <3> QED BY <1>9, <3>1
  <2> QED BY <2>1, <2>2, <2>3
<1>11. /\ client'.since = Max({since} \cup {sent[i].seq : i \in DOMAIN sent})
       /\ client'.got = client.got \o [i \in DOMAIN sent |-> sent[i].id]
       /\ client'.pc \in {"open", "closed"}
  <2>1. Path(apps[serving].ws) = Path(Home)
    BY DEF Served
  <2>2. PICK u : u = Unsent(client.since)
    OBVIOUS
  <2>3. client' = [pc |-> IF Session.run = "running" THEN "open" ELSE "closed",
                   since |-> Max({client.since} \cup {u[i].seq : i \in DOMAIN u}),
                   got |-> client.got \o [i \in DOMAIN u |-> u[i].id]]
    BY <2>1, <2>2 DEF Poll
  <2>4. client' = [pc |-> IF Session.run = "running" THEN "open" ELSE "closed",
                   since |-> Max({since} \cup {sent[i].seq : i \in DOMAIN sent}),
                   got |-> client.got \o [i \in DOMAIN sent |-> sent[i].id]]
    BY <1>4, <1>7, <2>2, <2>3
  <2>5. PICK m : m = Max({since} \cup {sent[i].seq : i \in DOMAIN sent})
    OBVIOUS
  <2>6. PICK g : g = client.got \o [i \in DOMAIN sent |-> sent[i].id]
    OBVIOUS
  <2>7. PICK p \in {"open", "closed"} : client' = [pc |-> p, since |-> m, got |-> g]
    BY <2>4, <2>5, <2>6
  <2>8. client'.pc = p /\ client'.since = m /\ client'.got = g
    BY <2>7
  <2> QED BY <2>5, <2>6, <2>7, <2>8
<1>12. PICK new : new = [i \in DOMAIN sent |-> sent[i].id]
  OBVIOUS
<1>13. /\ new \in Seq(Nat) /\ Len(new) = Len(sent)
       /\ \A k \in 1..Len(sent) : new[k] = x.events[at[k]].id
  <2>1. \A k \in 1..Len(sent) : sent[k].id \in Nat /\ sent[k].id = x.events[at[k]].id
    BY <1>3, <1>10
  <2>2. new \in [1..Len(sent) -> Nat] /\ \A k \in 1..Len(sent) : new[k] = sent[k].id
    BY <1>10, <1>12, <2>1
  <2>3. new \in Seq(Nat) /\ Len(new) = Len(sent)
    BY <1>10, <2>2
  <2> QED BY <2>1, <2>2, <2>3
<1>14. /\ client'.since \in Nat /\ since <= client'.since
       /\ \A k \in 1..Len(sent) : x.events[at[k]].seq <= client'.since
       /\ \/ client'.since = since
          \/ \E i \in DOMAIN x.events : client'.since = x.events[i].seq
  <2>1. PICK seqs : seqs = {since} \cup {sent[i].seq : i \in DOMAIN sent}
    OBVIOUS
  <2>2. /\ seqs \in SUBSET Int
        /\ \A y \in seqs : y = since \/ \E k \in 1..Len(sent) : y = x.events[at[k]].seq
        /\ since \in seqs /\ \A k \in 1..Len(sent) : x.events[at[k]].seq \in seqs
    <3>1. \A k \in 1..Len(sent) : sent[k].seq \in Int /\ sent[k].seq = x.events[at[k]].seq
      BY <1>3, <1>10
    <3>2. DOMAIN sent = 1..Len(sent)
      BY <1>10
    <3> QED BY <2>1, <3>1, <3>2
  <2>3. CASE Len(sent) = 0
    <3>1. since \in seqs /\ \A y \in seqs : since >= y
      BY <2>2, <2>3
    <3>2. Max(seqs) = since
      BY <2>2, <3>1, GreatestIsMax
    <3> QED BY <1>10, <1>11, <2>1, <2>3, <3>2
  <2>4. CASE Len(sent) # 0
    <3>1. PICK last \in 1..Len(sent) : last = Len(sent)
      <4>1. Len(sent) \in Nat
        BY <1>10
      <4> QED BY <2>4, <4>1
    <3>2. PICK m \in DOMAIN x.events : m = at[last]
      BY <1>10, <3>1
    <3>3. PICK top \in Nat : top = x.events[m].seq
      BY <1>3, <3>2
    <3>4. ASSUME NEW k \in 1..Len(sent) PROVE x.events[at[k]].seq <= top
      <4>1. k = last \/ k < last
        <5>1. Len(sent) \in Nat
          BY <1>10
        <5> QED BY <3>1, <5>1
      <4>2. CASE k = last
        BY <3>2, <3>3, <4>2
      <4>3. CASE k < last
        <5>1. at[k] < m /\ at[k] \in DOMAIN x.events
          BY <1>9, <1>10, <3>1, <3>2, <4>3
        <5>2. x.events[at[k]].seq < x.events[m].seq /\ x.events[at[k]].seq \in Nat
          BY <1>3, <3>2, <5>1
        <5> QED BY <3>3, <5>2
      <4> QED BY <4>1, <4>2, <4>3
    <3>5. top > since /\ top \in seqs
      BY <1>10, <2>2, <3>1, <3>2, <3>3
    <3>6. ASSUME NEW y \in seqs PROVE top >= y
      <4>1. CASE y = since
        BY <3>3, <3>5, <4>1
      <4>2. CASE \E k \in 1..Len(sent) : y = x.events[at[k]].seq
        <5>1. PICK k \in 1..Len(sent) : y = x.events[at[k]].seq
          BY <4>2
        <5>2. y <= top /\ y \in Int
          BY <2>2, <3>4, <5>1
        <5> QED BY <3>3, <5>2
      <4> QED BY <2>2, <4>1, <4>2
    <3>7. Max(seqs) = top
      BY <2>2, <3>5, <3>6, GreatestIsMax
    <3>8. client'.since = top
      BY <1>11, <2>1, <3>7
    <3> QED BY <3>2, <3>3, <3>4, <3>5, <3>8
  <2> QED BY <2>3, <2>4
<1>15. ASSUME NEW i \in DOMAIN x.events PROVE x.events[i].seq <= client'.since
  <2>1. CASE x.events[i].seq > since
    <3>1. PICK k \in 1..Len(sent) : at[k] = i
      BY <1>10, <2>1
    <3> QED BY <1>14, <3>1
  <2>2. CASE ~(x.events[i].seq > since)
    BY <1>3, <1>14, <2>2
  <2> QED BY <2>1, <2>2
<1>16. ASSUME NEW j \in 1..Len(new), NEW k \in 1..Len(new), j < k PROVE new[j] < new[k]
  <2>1. at[j] < at[k] /\ at[j] \in DOMAIN x.events /\ at[k] \in DOMAIN x.events
    BY <1>9, <1>10, <1>13, <1>16
  <2>2. x.events[at[j]].id < x.events[at[k]].id
    BY <1>3, <2>1
  <2> QED BY <1>13, <2>2
<1>17. ASSUME NEW k \in 1..Len(new)
       PROVE  \E i \in DOMAIN x.events : new[k] = x.events[i].id /\ x.events[i].seq > since
  <2>1. at[k] \in DOMAIN x.events /\ new[k] = x.events[at[k]].id /\ x.events[at[k]].seq > since
    BY <1>10, <1>13
  <2> QED BY <2>1
<1>18. ASSUME NEW i \in DOMAIN x.events, x.events[i].seq > since
       PROVE  \E k \in 1..Len(new) : new[k] = x.events[i].id
  <2>1. PICK k \in 1..Len(sent) : at[k] = i
    BY <1>10, <1>18
  <2> QED BY <1>13, <2>1
<1>19. client'.got = client.got \o new /\ client'.pc \in {"open", "closed"}
  BY <1>11, <1>12
<1>20. Sends(x, new)
  BY <1>4, <1>13, <1>14, <1>15, <1>16, <1>17, <1>18, <1>19 DEF Sends
<1> QED BY <1>1, <1>20

------------------------------------------------------------------------------
(* What is loaded and saved is what there is                               *)

\* A switch saves the session that is served, and serves what the files of its
\* workspace hold, as long as nothing has failed.
Copies ==
    /\ save.pc # "none" /\ save.by # "main" => save.image = Session
    /\ save.pc = "done" => image[SavePath] = save.image
    /\ \A s \in Selectors :
          /\ select[s].pc = "saved" => image[Served] = Session
          /\ select[s].pc \in Booting =>
                Compacted(apps[select[s].app].session)
                  = Compacted(image[Path(apps[select[s].app].ws)])

LEMMA FailuresStay ==
  ASSUME IInv, [Next]_vars, NothingFailed' PROVE NothingFailed /\ ~Crash /\ ~SaveFails
<1>1. counts \in [events : 0..MaxEvents, starts : Nat, crashes : Nat, faults : Nat]
  BY DEF IInv, Typed
<1>2. ~Crash /\ ~SaveFails /\ ~CopyArchive
  BY <1>1 DEF Crash, SaveFails, CopyArchive, NothingFailed
<1>3. counts'.crashes = counts.crashes /\ counts'.faults = counts.faults
  <2>1. CASE UNCHANGED counts
    BY <2>1
  <2>2. CASE Start
    BY <1>1, <2>2 DEF Start
  <2>3. CASE \E st, h : Record(st, h)
    BY <1>1, <2>3 DEF Record
  <2>4. UNCHANGED counts \/ Start \/ \E st, h : Record(st, h)
    BY <1>2 DEF Next, Stop, Exit, Saving, WriteTemporary, RenameArchive, FinishCopy,
         TruncateFile, WriteFile, BeginRun, AppendEvent, EndRun, Follow, Poll, Disconnect,
         AskSelect, LockSelect, BootSelect, SaveSelect, SavedSelect, ServeSelect, vars
  <2> QED BY <2>1, <2>2, <2>3, <2>4
<1> QED BY <1>2, <1>3 DEF NothingFailed

\* No switch is past its check: what is said of switches holds.
LEMMA NoneLocks ==
  ASSUME \A s \in Selectors : select[s].pc \in {"idle", "asked"},
         save.pc # "none" => save.by = "main",
         save.pc = "done" => image[SavePath] = save.image
  PROVE  Copies
BY DEF Copies, Locking, Booting

LEMMA InitCopies == Init => Copies
BY DEF Init, Copies, NoSave, Idle, Booting

LEMMA StartCopies ==
  ASSUME IInv, Start PROVE Copies'
<1>1. phase \in {"down", "stopped"} /\ UNCHANGED <<select, save>>
  BY DEF Start
<1>2. save.pc = "none" /\ \A s \in Selectors : select[s].pc = "idle"
  BY <1>1 DEF IInv, Control, Running, Switching
<1> QED BY <1>1, <1>2 DEF Copies, Booting

LEMMA ForgetCopies ==
  ASSUME ForgetMemory PROVE Copies'
BY DEF ForgetMemory, Copies, NoSave, Idle, Booting

LEMMA StopCopies ==
  ASSUME IInv, Stop PROVE Copies'
<1>1. /\ \A s \in Selectors : select[s].pc = "idle"
      /\ save' = [pc |-> "archive", app |-> current, by |-> "main",
                  image |-> apps[current].session]
      /\ UNCHANGED select
  BY DEF Stop, BeginSave
<1> QED BY <1>1 DEF Copies, Booting

\* A step of a Save writes the image of the path that is served, at its end.
LEMMA SavingEffect ==
  ASSUME IInv, Roles, Saving
  PROVE  /\ save.pc # "none" /\ save'.pc # "none" /\ SavePath = Served
         /\ save'.by = save.by /\ save'.app = save.app /\ save'.image = save.image
         /\ SavePath' = SavePath /\ Up /\ UNCHANGED <<Up, Served, Session>>
         /\ UNCHANGED <<phase, apps, current, serving, exec, select, client, log>>
         /\ \A p \in Paths \ {Served} : image'[p] = image[p]
         /\ save'.pc = "done" => image'[Served] = save.image
<1>1. save \in [pc : SavePcs, app : Nat, by : Selectors \cup {Nobody, "main"},
                image : SessionsAt(counts.events)]
  BY DEF IInv, Typed, SaveOK
<1>2. /\ save.pc # "none"
      /\ UNCHANGED <<phase, apps, current, serving, exec, select, client, log>>
      /\ \E pc \in SavePcs \ {"none"} : save' = [save EXCEPT !.pc = pc]
  BY DEF Saving, WriteTemporary, RenameArchive, CopyArchive, FinishCopy, TruncateFile,
         WriteFile, SaveFails, SavePcs
<1>3. /\ save'.pc # "none" /\ save'.by = save.by /\ save'.app = save.app
      /\ save'.image = save.image
  BY <1>1, <1>2
<1>4. SavePath = Served /\ SavePath' = SavePath /\ SavePath \in Paths /\ Up
      /\ UNCHANGED <<Up, Served, Session>>
  BY <1>2, <1>3, ServedTyped DEF SavePath, Served, Session, Up, Roles
<1>5. /\ \A p \in Paths \ {Served} : image'[p] = image[p]
      /\ save'.pc = "done" => image'[Served] = save.image
  <2>1. CASE WriteFile
    BY <1>4, <2>1 DEF WriteFile, IInv, Typed, ImageOK
  <2>2. CASE ~WriteFile
    <3>1. UNCHANGED image /\ \E pc \in SavePcs \ {"done"} : save' = [save EXCEPT !.pc = pc]
      BY <2>2 DEF Saving, WriteTemporary, RenameArchive, CopyArchive, FinishCopy, TruncateFile,
           SaveFails, SavePcs
    <3> QED BY <1>1, <3>1
  <2> QED BY <2>1, <2>2
<1> QED BY <1>2, <1>3, <1>4, <1>5

LEMMA SavingCopies ==
  ASSUME IInv, Roles, Copies, Saving PROVE Copies'
<1>1. /\ save.pc # "none" /\ save'.pc # "none" /\ SavePath = Served
      /\ save'.by = save.by /\ save'.app = save.app /\ save'.image = save.image
      /\ SavePath' = SavePath /\ Up /\ UNCHANGED <<Up, Served, Session>>
      /\ UNCHANGED <<phase, apps, current, serving, exec, select, client, log>>
      /\ \A p \in Paths \ {Served} : image'[p] = image[p]
      /\ save'.pc = "done" => image'[Served] = save.image
  BY SavingEffect
<1>2. ASSUME NEW s \in Selectors, select[s].pc \in Booting
      PROVE  /\ Path(apps[select[s].app].ws) \in Paths \ {Served}
             /\ select[s].pc # "saved"
  <2>1. select[s].app \in DOMAIN apps
    BY <1>2 DEF IInv, Control, Switching, Booting
  <2> QED BY <1>1, <1>2, <2>1, ServedTyped DEF Roles
<1>3. ASSUME NEW s \in Selectors, select'[s].pc \in Booting
      PROVE  Compacted(apps'[select'[s].app].session)
               = Compacted(image'[Path(apps'[select'[s].app].ws)])
  BY <1>1, <1>2, <1>3 DEF Copies
<1> QED BY <1>1, <1>2, <1>3 DEF Copies, Booting, Path

\* A step of a run: no switch is past its check, only main may be saving.
LEMMA RunCopies ==
  ASSUME IInv, Copies, NEW x, apps' = [apps EXCEPT ![serving].session = x],
         UNCHANGED <<select, save, image>>, exec \notin Selectors
  PROVE  Copies'
<1>1. \A s \in Selectors : select[s].pc \in {"idle", "asked"}
  <2>1. \A s \in Selectors : select[s].pc \in SelectPcs
    BY ServedTyped
  <2> QED BY <2>1, OneLocks DEF Locking, Booting, SelectPcs
<1>2. save.pc # "none" => save.by = "main" /\ save.app \in DOMAIN apps
  BY <1>1 DEF IInv, Control, Saver
<1>3. save.pc # "none" => SavePath' = SavePath
  <2>1. \A a \in DOMAIN apps : apps'[a].ws = apps[a].ws
    BY SameWorkspace
  <2> QED BY <1>2, <2>1 DEF SavePath
<1> QED BY <1>1, <1>2, <1>3 DEF Copies, Booting

\* A switch that boots: the new application has what Load found.
LEMMA BootLoads ==
  ASSUME IInv, Roles, NEW s \in Selectors, BootSelect(s),
         NEW n, n = Len(apps) + 1, NEW p, p = Path(select[s].workspace), ~LoadRefuses(disk[p])
  PROVE  /\ select[s].pc = "locked" /\ exec = s /\ Up /\ p \in Paths /\ save.pc = "none"
         /\ UNCHANGED <<phase, current, serving, exec, save, client, counts, log, image>>
         /\ UNCHANGED <<Up, Served, Session>>
         /\ \A t \in Selectors : t # s => select[t].pc \in {"idle", "asked"}
         /\ DOMAIN apps' = DOMAIN apps \cup {n} /\ n \notin DOMAIN apps
         /\ \A b \in DOMAIN apps : apps'[b] = apps[b]
         /\ apps'[n].ws = select[s].workspace
         /\ apps'[n].session = Loaded(disk[p])
         /\ select'[s].pc = "booted" /\ select'[s].app = n
         /\ select'[s].workspace = select[s].workspace
         /\ \A t \in Selectors \ {s} : select'[t] = select[t]
<1>1. /\ select[s].pc = "locked"
      /\ UNCHANGED <<phase, current, serving, save, client, counts, log, image>>
  BY DEF BootSelect
<1>2. /\ exec = s /\ phase = "up" /\ serving \in DOMAIN apps /\ save.pc = "none"
      /\ \A t \in Selectors : t # s => select[t].pc \in {"idle", "asked"}
      /\ DOMAIN apps = 1..Len(apps) /\ Len(apps) \in Nat /\ p \in Paths
  BY <1>1, OneLocks, ServedTyped, NobodySaves, Constants DEF Up, Locking
<1> DEFINE a == [ws |-> select[s].workspace, session |-> Loaded(disk[p])]
<1>3. /\ apps' = Append(apps, a) /\ UNCHANGED exec
      /\ select' = [select EXCEPT ![s].pc = "booted", ![s].app = n]
  BY DEF BootSelect
<1>4. a.ws = select[s].workspace /\ a.session = Loaded(disk[p])
  OBVIOUS
<1> HIDE DEF a
<1>5. /\ apps'[n] = a /\ \A b \in DOMAIN apps : apps'[b] = apps[b]
      /\ DOMAIN apps' = DOMAIN apps \cup {n} /\ n \notin DOMAIN apps
  <2>1. apps \in Seq(Apps(counts.events))
    BY ServedTyped DEF AppsOK
  <2>2. apps'[n] = a /\ (\A b \in DOMAIN apps : apps'[b] = apps[b]) /\ DOMAIN apps' = 1..n
    BY <1>2, <1>3, <2>1
  <2> QED BY <1>2, <2>2
<1>6. /\ select'[s].pc = "booted" /\ select'[s].app = n
      /\ select'[s].workspace = select[s].workspace
      /\ \A t \in Selectors \ {s} : select'[t] = select[t]
  <2> DEFINE booted == [select[s] EXCEPT !.pc = "booted"]
             f == [select EXCEPT ![s] = booted]
             r == [booted EXCEPT !.app = n]
  <2>1. s \in DOMAIN select /\ select[s] \in SelectRecords
    BY SelectTyped DEF IInv, Typed, SelectOK
  <2>2. booted = [pc |-> "booted", workspace |-> select[s].workspace, app |-> select[s].app]
    BY <2>1 DEF SelectRecords
  <2> HIDE DEF booted
  <2>3. r.pc = "booted" /\ r.app = n /\ r.workspace = select[s].workspace
    BY <2>2
  <2>4. select' = [f EXCEPT ![s] = [f[s] EXCEPT !.app = n]] /\ f[s] = booted
    BY <1>3, <2>1 DEF booted
  <2>5. select' = [select EXCEPT ![s] = r]
    BY <2>4
  <2> HIDE DEF r
  <2> QED BY <2>3, <2>5, OthersKept
<1>7. UNCHANGED <<Up, Served, Session>>
  BY <1>1, <1>2, <1>5 DEF Up, Served, Session
<1> QED BY <1>1, <1>2, <1>3, <1>4, <1>5, <1>6, <1>7 DEF Up

\* A switch that boots, when nothing has failed: the new application has what was
\* saved of its path.
LEMMA BootEffect ==
  ASSUME IInv, Roles, NothingFailed, NEW s \in Selectors, BootSelect(s),
         NEW n, n = Len(apps) + 1, NEW p, p = Path(select[s].workspace)
  PROVE  /\ select[s].pc = "locked" /\ exec = s /\ Up /\ p \in Paths /\ save.pc = "none"
         /\ UNCHANGED <<phase, current, serving, exec, save, client, counts, log, image>>
         /\ UNCHANGED <<Up, Served, Session>>
         /\ \A t \in Selectors : t # s => select[t].pc \in {"idle", "asked"}
         /\ DOMAIN apps' = DOMAIN apps \cup {n} /\ n \notin DOMAIN apps
         /\ \A b \in DOMAIN apps : apps'[b] = apps[b]
         /\ apps'[n].ws = select[s].workspace
         /\ Compacted(apps'[n].session) = Compacted(image[p])
         /\ select'[s].pc = "booted" /\ select'[s].app = n
         /\ select'[s].workspace = select[s].workspace
         /\ \A t \in Selectors \ {s} : select'[t] = select[t]
<1>1. select[s].pc = "locked"
  BY DEF BootSelect
<1>2. save.pc = "none" /\ p \in Paths
  BY <1>1, ServedTyped, NobodySaves, Constants
<1>3. PICK k \in Nat : k = counts.events
  <2>1. counts.events \in Nat
    BY Constants DEF IInv, Typed
  <2> QED BY <2>1
<1>4. disk[p] \in FilesAt(k) /\ Settled(disk[p], image[p])
  <2>1. Settled(disk[p], image[p])
    BY <1>2, AllSettled
  <2>2. disk[p] \in FilesAt(k)
    BY <1>2, <1>3 DEF IInv, Typed, DiskOK
  <2> QED BY <2>1, <2>2
<1>5. ~LoadRefuses(disk[p]) /\ Compacted(Loaded(disk[p])) = Compacted(image[p])
  BY <1>4, LoadedSettled
<1>6. apps'[n].session = Loaded(disk[p])
  BY <1>5, BootLoads
<1>7. /\ select[s].pc = "locked" /\ exec = s /\ Up /\ p \in Paths /\ save.pc = "none"
      /\ UNCHANGED <<phase, current, serving, exec, save, client, counts, log, image>>
      /\ UNCHANGED <<Up, Served, Session>>
      /\ \A t \in Selectors : t # s => select[t].pc \in {"idle", "asked"}
      /\ DOMAIN apps' = DOMAIN apps \cup {n} /\ n \notin DOMAIN apps
      /\ \A b \in DOMAIN apps : apps'[b] = apps[b]
      /\ apps'[n].ws = select[s].workspace
      /\ select'[s].pc = "booted" /\ select'[s].app = n
      /\ select'[s].workspace = select[s].workspace
      /\ \A t \in Selectors \ {s} : select'[t] = select[t]
  BY <1>5, BootLoads
<1> QED BY <1>5, <1>6, <1>7

LEMMA BootCopies ==
  ASSUME IInv, Roles, NothingFailed, NEW s \in Selectors, BootSelect(s) PROVE Copies'
<1>1. PICK n : n = Len(apps) + 1
  OBVIOUS
<1>2. PICK p : p = Path(select[s].workspace)
  OBVIOUS
<1>3. /\ save.pc = "none" /\ UNCHANGED <<save, image>>
      /\ \A t \in Selectors : t # s => select[t].pc \in {"idle", "asked"}
      /\ apps'[n].ws = select[s].workspace
      /\ Compacted(apps'[n].session) = Compacted(image[p])
      /\ select'[s].pc = "booted" /\ select'[s].app = n
      /\ \A t \in Selectors \ {s} : select'[t] = select[t]
  BY <1>1, <1>2, BootEffect
<1>4. Path(apps'[select'[s].app].ws) = p
  BY <1>2, <1>3 DEF Path
<1>5. Compacted(apps'[select'[s].app].session) = Compacted(image'[Path(apps'[select'[s].app].ws)])
  BY <1>3, <1>4
<1> QED BY <1>3, <1>5 DEF Copies, Booting

LEMMA SaveSelectCopies ==
  ASSUME IInv, Roles, Copies, NEW s \in Selectors, SaveSelect(s) PROVE Copies'
<1> DEFINE r == [select[s] EXCEPT !.pc = "saving"]
<1>1. /\ select[s].pc = "booted" /\ select' = [select EXCEPT ![s] = r]
      /\ save' = [pc |-> "archive", app |-> current, by |-> s, image |-> apps[current].session]
      /\ UNCHANGED <<phase, apps, current, serving, image>>
  BY DEF SaveSelect, BeginSave
<1>2. /\ phase = "up" /\ \A t \in Selectors : t # s => select[t].pc \in {"idle", "asked"}
  BY <1>1, OneLocks DEF Locking, Booting
<1>3. r.pc = "saving" /\ r.app = select[s].app
  BY SelectTyped DEF IInv, Typed, SelectPcs
<1> HIDE DEF r
<1>4. select'[s] = r /\ \A t \in Selectors \ {s} : select'[t] = select[t]
  BY <1>1, OthersKept
<1>5. current = serving
  <2>1. \A t \in Selectors : select[t].pc # "saved"
    BY <1>1, <1>2
  <2> QED BY <1>1, <1>2, <2>1 DEF Up, Roles
<1>6. /\ save'.pc = "archive" /\ save'.image = Session /\ UNCHANGED Session
  BY <1>1, <1>5 DEF Session
<1> QED BY <1>1, <1>2, <1>3, <1>4, <1>6 DEF Copies, Booting, Path

\* A switch whose Save has ended, when nothing has failed.
LEMMA SavedEffect ==
  ASSUME IInv, Roles, Copies, NothingFailed, NEW s \in Selectors, SavedSelect(s)
  PROVE  /\ select[s].pc = "saving" /\ save.pc = "done" /\ save' = NoSave
         /\ phase = "up" /\ exec = s /\ image[Served] = Session
         /\ UNCHANGED <<phase, apps, serving, exec, disk, client, counts, log, image>>
         /\ UNCHANGED <<Up, Served, Session>>
         /\ \A t \in Selectors : t # s => select[t].pc \in {"idle", "asked"}
         /\ select'[s].pc = "saved" /\ select'[s].app = select[s].app
         /\ select'[s].workspace = select[s].workspace
         /\ \A t \in Selectors \ {s} : select'[t] = select[t]
<1>1. /\ select[s].pc = "saving" /\ save.by = s /\ save.pc \in {"done", "failed"}
      /\ save' = NoSave /\ UNCHANGED <<phase, apps, serving, disk, client, counts, log, image>>
  BY DEF SavedSelect
<1>2. /\ phase = "up" /\ exec = s
      /\ \A t \in Selectors : t # s => select[t].pc \in {"idle", "asked"}
      /\ UNCHANGED <<Up, Served, Session>>
  BY <1>1, OneLocks DEF Locking, Booting, Up, Served, Session
<1>3. save.pc = "done" /\ SavePath \in Paths
  <2>1. SavePath \in Paths
    BY <1>1, ServedTyped
  <2>2. FilesOK(SavePath)
    BY <2>1 DEF IInv, FilesHeld
  <2> QED BY <1>1, <2>1, <2>2 DEF FilesOK, UnderWay, Progress
<1>4. image[Served] = Session
  BY <1>1, <1>3, Constants DEF Copies, Roles, SavePath, Served
<1> DEFINE r == [select[s] EXCEPT !.pc = "saved"]
<1>5. select' = [select EXCEPT ![s] = r] /\ UNCHANGED exec
  BY <1>3 DEF SavedSelect
<1>6. r.pc = "saved" /\ r.app = select[s].app /\ r.workspace = select[s].workspace
  BY SelectTyped DEF IInv, Typed, SelectPcs
<1> HIDE DEF r
<1>7. /\ select'[s].pc = "saved" /\ select'[s].app = select[s].app
      /\ select'[s].workspace = select[s].workspace
      /\ \A t \in Selectors \ {s} : select'[t] = select[t]
  BY <1>5, <1>6, OthersKept
<1> QED BY <1>1, <1>2, <1>3, <1>4, <1>5, <1>7

LEMMA SavedCopies ==
  ASSUME IInv, Roles, Copies, NothingFailed, NEW s \in Selectors, SavedSelect(s) PROVE Copies'
<1>1. /\ select[s].pc = "saving" /\ save' = NoSave /\ image[Served] = Session
      /\ UNCHANGED <<apps, image>> /\ UNCHANGED <<Served, Session>>
      /\ \A t \in Selectors : t # s => select[t].pc \in {"idle", "asked"}
      /\ select'[s].pc = "saved" /\ select'[s].app = select[s].app
      /\ \A t \in Selectors \ {s} : select'[t] = select[t]
  BY SavedEffect
<1>2. NoSave.pc = "none"
  BY DEF NoSave
<1> QED BY <1>1, <1>2 DEF Copies, Booting, Path

LEMMA SwitchCopies ==
  ASSUME IInv, Roles, Copies, NothingFailed, NEW s \in Selectors,
         AskSelect(s) \/ LockSelect(s) \/ ServeSelect(s)
  PROVE  Copies'
<1>1. PICK r : /\ select' = [select EXCEPT ![s] = r] /\ r.pc \notin Booting
               /\ UNCHANGED <<phase, apps, save, image>>
  <2>1. CASE AskSelect(s)
    <3>1. PICK w \in Workspaces :
             select' = [select EXCEPT ![s] = [pc |-> "asked", workspace |-> w, app |-> None]]
      BY <2>1 DEF AskSelect
    <3> DEFINE r == [pc |-> "asked", workspace |-> w, app |-> None]
    <3>2. r.pc = "asked"
      OBVIOUS
    <3> HIDE DEF r
    <3> QED BY <2>1, <3>1, <3>2 DEF AskSelect, Booting, r
  <2>2. CASE LockSelect(s)
    <3> DEFINE r == [select[s] EXCEPT !.pc = "locked"]
    <3>1. \/ select' = [select EXCEPT ![s] = Idle]
          \/ select' = [select EXCEPT ![s] = r]
      BY <2>2 DEF LockSelect
    <3>2. r.pc = "locked" /\ Idle.pc = "idle"
      BY SelectTyped, IdlePc DEF IInv, Typed, SelectPcs
    <3> HIDE DEF r
    <3> QED BY <2>2, <3>1, <3>2 DEF LockSelect, Booting
  <2>3. CASE ServeSelect(s)
    BY <2>3, IdlePc DEF ServeSelect, Booting
  <2> QED BY <2>1, <2>2, <2>3
<1>2. r.pc \notin Booting /\ select'[s] = r /\ \A t \in Selectors \ {s} : select'[t] = select[t]
  BY <1>1, OthersKept
<1>3. CASE ServeSelect(s)
  <2>1. select[s].pc = "saved"
    BY <1>3 DEF ServeSelect
  <2>2. /\ \A t \in Selectors : t # s => select[t].pc \in {"idle", "asked"}
        /\ save.pc = "none"
    BY <2>1, OneLocks DEF Locking, Booting, Roles
  <2> QED BY <1>1, <1>2, <2>2 DEF Copies, Booting
<1>4. CASE ~ServeSelect(s)
  <2>1. UNCHANGED serving
    BY <1>4 DEF AskSelect, LockSelect
  <2>2. UNCHANGED <<Served, Session>> /\ SavePath' = SavePath
    BY <1>1, <2>1 DEF Served, Session, SavePath
  <2> QED BY <1>1, <1>2, <2>2 DEF Copies, Booting, Path
<1> QED BY <1>3, <1>4

\* A step that leaves the sessions, the files and the switches alone.
LEMMA CopiesKept ==
  ASSUME Copies, UNCHANGED <<apps, serving, select, save, image>> PROVE Copies'
BY DEF Copies, Served, Session, SavePath, Path, Booting

LEMMA NextCopies ==
  ASSUME IInv, Roles, NothingFailed => Copies, [Next]_vars, NothingFailed' PROVE Copies'
<1>0. NothingFailed /\ ~Crash /\ Copies
  BY FailuresStay
<1>1. CASE Start
  BY <1>1, StartCopies
<1>2. CASE Exit
  BY <1>2, ForgetCopies DEF Exit
<1>3. CASE Stop
  BY <1>3, StopCopies
<1>4. CASE Saving
  BY <1>0, <1>4, SavingCopies
<1>5. CASE BeginRun
  <2>1. apps' = [apps EXCEPT ![serving].session = [Session EXCEPT !.run = "running"]]
        /\ UNCHANGED <<select, save, image>>
    BY <1>5 DEF BeginRun, Session
  <2>2. exec \notin Selectors
    BY <1>5, Constants DEF BeginRun
  <2> QED BY <1>0, <2>1, <2>2, RunCopies
<1>6. CASE AppendEvent \/ EndRun
  <2>1. PICK status, holder : Record(status, holder)
    BY <1>6 DEF AppendEvent, EndRun
  <2>2. apps' = [apps EXCEPT ![serving].session =
                   [Recorded(Session, counts.events + 1) EXCEPT !.run = status]]
        /\ UNCHANGED <<select, save, image>> /\ exec = Runner
    BY <2>1 DEF Record, Session
  <2> QED BY <1>0, <2>2, RunCopies, Constants
<1>7. CASE Follow \/ Poll \/ Disconnect
  BY <1>0, <1>7, CopiesKept DEF Follow, Poll, Disconnect, memory
<1>8. CASE \E s \in Selectors : \/ AskSelect(s) \/ LockSelect(s) \/ BootSelect(s)
                               \/ SaveSelect(s) \/ SavedSelect(s) \/ ServeSelect(s)
  BY <1>0, <1>8, SwitchCopies, BootCopies, SaveSelectCopies, SavedCopies
<1>9. CASE UNCHANGED vars
  BY <1>0, <1>9, CopiesKept DEF vars
<1> QED BY <1>0, <1>1, <1>2, <1>3, <1>4, <1>5, <1>6, <1>7, <1>8, <1>9 DEF Next

------------------------------------------------------------------------------
(* The session of a path, and the events it has kept                       *)

\* The session that holds what a path's run is: the one that is served, or the one
\* that was saved last.
Live(p) == IF Up /\ p = Served THEN Session ELSE image[p]

LiveTyped ==
    \A p \in Paths : Live(p) \in SessionsAt(MaxEvents) /\ image[p] \in SessionsAt(MaxEvents)

LEMMA LiveOK == IInv => LiveTyped
<1> SUFFICES ASSUME IInv, NEW p \in Paths
             PROVE  Live(p) \in SessionsAt(MaxEvents) /\ image[p] \in SessionsAt(MaxEvents)
  BY DEF LiveTyped, Paths, Path
<1>1. SessionsAt(counts.events) \subseteq SessionsAt(MaxEvents)
  <2>1. counts.events \in Nat /\ MaxEvents \in Nat /\ counts.events <= MaxEvents
    BY Constants DEF IInv, Typed
  <2> QED BY <2>1, Monotone
<1>2. image[p] \in SessionsAt(counts.events)
  BY DEF IInv, Typed, ImageOK
<1>3. Live(p) \in SessionsAt(counts.events)
  BY <1>2, ServedTyped DEF Live
<1> QED BY <1>1, <1>2, <1>3

LEMMA StartLive ==
  ASSUME IInv, NothingFailed, Start, NEW p \in Paths
  PROVE  Compacted(Live(p)') = Compacted(Live(p))
<1>1. phase \in {"down", "stopped"} /\ UNCHANGED image
  BY DEF Start
<1>2. save.pc = "none" /\ Live(p) = image[p]
  BY <1>1 DEF IInv, Control, Running, Live, Up
<1>3. PICK q \in Paths : q = Path(Home)
  BY Constants
<1>4. ~LoadRefuses(disk[q]) /\ Compacted(Loaded(disk[q])) = Compacted(image[q])
  <2>1. PICK k \in Nat : k = counts.events
    <3>1. counts.events \in Nat
      BY Constants DEF IInv, Typed
    <3> QED BY <3>1
  <2>2. Settled(disk[q], image[q]) /\ disk[q] \in FilesAt(k)
    BY <1>2, <2>1, AllSettled DEF IInv, Typed, DiskOK
  <2> QED BY <2>2, LoadedSettled
<1>5. /\ phase' = "up" /\ serving' = 1
      /\ apps' = <<[ws |-> Home, session |-> Loaded(disk[q])]>>
  BY <1>3, <1>4 DEF Start
<1>6. apps'[1].ws = Home /\ apps'[1].session = Loaded(disk[q])
  BY <1>5
<1>7. Up' /\ Served' = q /\ Session' = Loaded(disk[q])
  BY <1>3, <1>5, <1>6 DEF Up, Served, Session, Path
<1> QED BY <1>1, <1>2, <1>4, <1>7 DEF Live

LEMMA SavingLive ==
  ASSUME IInv, Roles, Saving, NEW p \in Paths PROVE Live(p)' = Live(p)
<1>1. /\ UNCHANGED <<Up, Served, Session>> /\ Up
      /\ p # Served => image'[p] = image[p]
  BY SavingEffect
<1> QED BY <1>1 DEF Live

\* The server stores the new application: the old session is in its files, the new
\* one came from its own.
LEMMA ServeEffect ==
  ASSUME IInv, Roles, Copies, NEW s \in Selectors, ServeSelect(s)
  PROVE  /\ phase = "up" /\ exec = s /\ exec' = Nobody /\ save.pc = "none" /\ Up /\ Up'
         /\ select[s].pc = "saved" /\ ~Blocked /\ serving' = select[s].app
         /\ UNCHANGED <<phase, apps, current, save, disk, client, counts, log, image>>
         /\ select[s].app \in DOMAIN apps /\ serving \in DOMAIN apps
         /\ select'[s].pc = "idle" /\ \A t \in Selectors \ {s} : select'[t] = select[t]
         /\ \A t \in Selectors : t # s => select[t].pc \in {"idle", "asked"}
         /\ Served' # Served /\ image[Served] = Session
         /\ Compacted(Session') = Compacted(image[Served'])
         /\ Session' = apps[select[s].app].session
<1>1. /\ select[s].pc = "saved" /\ serving' = select[s].app /\ exec' = Nobody
      /\ select' = [select EXCEPT ![s] = Idle]
      /\ UNCHANGED <<phase, apps, current, save, disk, client, counts, log, image>>
  BY DEF ServeSelect
<1>2. /\ exec = s /\ phase = "up" /\ save.pc = "none" /\ ~Blocked
      /\ \A t \in Selectors : t # s => select[t].pc \in {"idle", "asked"}
      /\ select[s].app \in DOMAIN apps /\ serving \in DOMAIN apps
  BY <1>1, OneLocks, ServedTyped DEF Locking, Booting, Roles, IInv, Control, Switching, Up
<1>3. Path(apps[select[s].app].ws) # Served /\ image[Served] = Session
      /\ Compacted(apps[select[s].app].session) = Compacted(image[Path(apps[select[s].app].ws)])
  BY <1>1 DEF Roles, Copies, Booting
<1>4. Served' = Path(apps[select[s].app].ws) /\ Session' = apps[select[s].app].session
  BY <1>1 DEF Served, Session, Path
<1>5. select'[s].pc = "idle" /\ \A t \in Selectors \ {s} : select'[t] = select[t]
  BY <1>1, IdlePc, OthersKept
<1> QED BY <1>1, <1>2, <1>3, <1>4, <1>5 DEF Up

LEMMA ServeLive ==
  ASSUME IInv, Roles, Copies, NEW s \in Selectors, ServeSelect(s), NEW p \in Paths
  PROVE  Compacted(Live(p)') = Compacted(Live(p))
<1>1. /\ Up /\ Up' /\ UNCHANGED image /\ Served' # Served /\ image[Served] = Session
      /\ Compacted(Session') = Compacted(image[Served'])
  BY ServeEffect
<1> QED BY <1>1 DEF Live

\* Only the steps of a run change a session; a Save that ends with the process
\* leaves the one it wrote.
LEMMA LiveStep ==
  ASSUME IInv, Roles, NothingFailed => Copies, [Next]_vars, NothingFailed',
         ~(BeginRun \/ AppendEvent \/ EndRun \/ Exit), NEW p \in Paths
  PROVE  Compacted(Live(p)') = Compacted(Live(p)) /\ UNCHANGED log
<1>0. NothingFailed /\ Copies /\ ~Crash
  BY FailuresStay
<1>1. UNCHANGED log
  BY <1>0 DEF Next, Start, Stop, Saving, WriteTemporary, RenameArchive, CopyArchive, FinishCopy,
     TruncateFile, WriteFile, SaveFails, Follow, Poll, Disconnect,
     AskSelect, LockSelect, BootSelect, SaveSelect, SavedSelect, ServeSelect, vars
<1>2. CASE Start
  BY <1>0, <1>1, <1>2, StartLive
<1>3. CASE Saving
  <2>1. Live(p)' = Live(p)
    BY <1>3, SavingLive
  <2> QED BY <1>1, <2>1
<1>4. CASE \E s \in Selectors : ServeSelect(s)
  BY <1>0, <1>1, <1>4, ServeLive
<1>5. CASE \E s \in Selectors : BootSelect(s) \/ SavedSelect(s)
  <2>1. UNCHANGED <<Up, Served, Session, image>>
    <3>1. PICK s \in Selectors : BootSelect(s) \/ SavedSelect(s)
      BY <1>5
    <3>2. CASE BootSelect(s)
      <4>1. UNCHANGED <<Up, Served, Session>> /\ UNCHANGED image
        BY <1>0, <3>2, BootEffect
      <4> QED BY <4>1
    <3>3. CASE SavedSelect(s)
      <4>1. UNCHANGED <<Up, Served, Session>> /\ UNCHANGED image
        BY <1>0, <3>3, SavedEffect
      <4> QED BY <4>1
    <3> QED BY <3>1, <3>2, <3>3
  <2>2. Live(p)' = Live(p)
    BY <2>1 DEF Live
  <2> QED BY <1>1, <2>2
<1>6. CASE ~(\/ Start \/ Saving
             \/ \E s \in Selectors : ServeSelect(s) \/ BootSelect(s) \/ SavedSelect(s))
  <2>1. UNCHANGED <<apps, serving, image>> /\ Up' = Up
    BY <1>0, <1>6 DEF Next, Stop, Follow, Poll, Disconnect, memory,
       AskSelect, LockSelect, SaveSelect, vars, Up
  <2>2. Live(p)' = Live(p)
    BY <2>1 DEF Live, Served, Session, Path
  <2> QED BY <1>1, <2>2
<1> QED BY <1>2, <1>3, <1>4, <1>5, <1>6

LEMMA SameIds ==
  ASSUME NEW x \in SessionsAt(MaxEvents), NEW y \in SessionsAt(MaxEvents),
         Compacted(x) = Compacted(y)
  PROVE  x.run = y.run /\ Ids(x) = Ids(y)
<1>1. MaxEvents \in Nat
  BY Constants
<1>2. /\ x.run = y.run /\ DOMAIN x.events = DOMAIN y.events
      /\ \A i \in DOMAIN x.events : x.events[i].id = y.events[i].id
  BY <1>1, CompactSame
<1> QED BY <1>2 DEF Ids

LEMMA InitClient == Init => ClientTyped
<1> SUFFICES ASSUME Init PROVE ClientTyped
  OBVIOUS
<1>1. ASSUME NEW p \in Paths
      PROVE  [i \in DOMAIN image[p].events |-> image[p].events[i].id] \in Seq(Nat)
  <2>1. IInv
    BY InitOK
  <2>2. image[p] \in SessionsAt(MaxEvents)
    BY <2>1, LiveOK DEF LiveTyped
  <2> QED BY <2>2, IdsTyped, Constants DEF Ids
<1> QED BY <1>1 DEF Init, ClientTyped

LEMMA RecordClient ==
  ASSUME IInv, ClientTyped, NEW st, NEW h, Record(st, h) PROVE ClientTyped'
<1>1. PICK n \in Nat : n = counts.events
  <2>1. counts.events \in Nat
    BY Constants DEF IInv, Typed
  <2> QED BY <2>1
<1>2. PICK q : q = Served
  OBVIOUS
<1>3. client' = client /\ log' = [log EXCEPT ![q] = Append(@, n + 1)]
  BY <1>1, <1>2 DEF Record, Served
<1>4. \A l \in Seq(Nat) : Append(l, n + 1) \in Seq(Nat)
  OBVIOUS
<1> QED BY <1>3, <1>4 DEF ClientTyped, Paths, Path

LEMMA NextClient ==
  ASSUME IInv, Roles, ClientTyped, [Next]_vars PROVE ClientTyped'
<1>1. CASE Poll
  <2>1. log' = log
    BY <1>1 DEF Poll
  <2>2. CASE Served = Path(Home)
    <3>1. PICK new : Sends(Session, new)
      BY <1>1, <2>2, PollSends
    <3>2. client' = [pc |-> client'.pc, since |-> client'.since, got |-> client'.got]
      BY <1>1, <2>2 DEF Poll, Served
    <3>3. /\ client'.since \in Nat /\ client'.pc \in {"open", "closed"}
          /\ client'.got = client.got \o new /\ new \in Seq(Nat) /\ client.got \in Seq(Nat)
      BY <3>1 DEF Sends, ClientTyped
    <3>4. client'.got \in Seq(Nat)
      BY <3>3
    <3> QED BY <2>1, <3>2, <3>3, <3>4 DEF ClientTyped, Paths, Path
  <2>3. CASE Served # Path(Home)
    BY <1>1, <2>1, <2>3 DEF Poll, Served, ClientTyped, Paths, Path
  <2> QED BY <2>2, <2>3
<1>2. CASE Crash \/ Exit \/ Follow \/ Disconnect
  BY <1>2 DEF Crash, Exit, ForgetMemory, Follow, Disconnect, ClientTyped, Paths, Path
<1>3. CASE AppendEvent \/ EndRun
  BY <1>3, RecordClient DEF AppendEvent, EndRun
<1>4. CASE ~(Poll \/ Crash \/ Exit \/ Follow \/ Disconnect \/ AppendEvent \/ EndRun)
  <2>1. UNCHANGED <<client, log>>
    BY <1>4 DEF Next, Start, Stop, Saving, WriteTemporary, RenameArchive, CopyArchive,
       FinishCopy, TruncateFile, WriteFile, SaveFails, BeginRun,
       AskSelect, LockSelect, BootSelect, SaveSelect, SavedSelect, ServeSelect, vars
  <2> QED BY <2>1 DEF ClientTyped, Paths, Path
<1> QED BY <1>1, <1>2, <1>3, <1>4

\* Unless its run was running, a session has the last events of its path.
Kept(x, l) == x.run # "running" => Ids(x) = Bounded(l)

KeptNow ==
    /\ \A p \in Paths : Kept(Live(p), log[p])
    /\ exec = Runner => Ids(Session) = Bounded(log[Served])
    /\ phase = "stopping" => /\ Kept(save.image, log[Served])
                             /\ exec = Runner => save.image.run = "running"

LEMMA InitKept == Init => KeptNow
<1> SUFFICES ASSUME Init PROVE KeptNow
  OBVIOUS
<1>1. IInv /\ ClientTyped /\ phase = "down" /\ exec = Nobody /\ Nobody # Runner
  BY InitOK, InitClient DEF Init, Nobody, Runner
<1>2. ASSUME NEW p \in Paths PROVE Kept(Live(p), log[p])
  <2>1. Live(p) = image[p] /\ log[p] = Ids(image[p])
    BY <1>1 DEF Init, Live, Up, Ids
  <2>2. image[p] \in SessionsAt(MaxEvents)
    BY <1>1, LiveOK DEF LiveTyped
  <2>3. Len(Ids(image[p])) <= EventWindow
    BY <2>2, SessionFacts, IdsTyped, Constants
  <2> QED BY <2>1, <2>3 DEF Kept, Bounded
<1> QED BY <1>1, <1>2 DEF KeptNow

\* A step that changes no session.
\* Main saves what is served, and that stays so while it stops.
LEMMA StopSaves ==
  ASSUME IInv, Roles, Stop
  PROVE  /\ phase = "up" /\ Up /\ Served \in Paths /\ save'.image = Session
         /\ \A s \in Selectors : select[s].pc = "idle"
         /\ UNCHANGED <<apps, current, serving, exec, select>> /\ UNCHANGED <<Session, Served>>
         /\ exec = Runner => Session.run = "running"
<1>1. /\ phase = "up" /\ \A s \in Selectors : select[s].pc = "idle"
      /\ save'.image = apps[current].session
      /\ UNCHANGED <<apps, current, serving, exec, select>>
  BY DEF Stop, BeginSave
<1>2. current = serving
  BY <1>1 DEF Roles, Up
<1> QED BY <1>1, <1>2, ServedTyped DEF Session, Served, Up, IInv, Control, Running

LEMMA StoppingKept ==
  ASSUME IInv, Roles, [Next]_vars, ~(BeginRun \/ AppendEvent \/ EndRun \/ Exit \/ Crash \/ Stop),
         phase' = "stopping"
  PROVE  /\ phase = "stopping" /\ exec' = exec /\ save'.image = save.image
         /\ UNCHANGED <<apps, serving>>
<1>1. CASE Saving
  <2>1. save'.image = save.image /\ UNCHANGED <<phase, apps, current, serving, exec, select>>
    BY <1>1, SavingEffect
  <2> QED BY <2>1
<1>2. CASE Start \/ \E s \in Selectors : \/ AskSelect(s) \/ LockSelect(s) \/ BootSelect(s)
                           \/ SaveSelect(s) \/ SavedSelect(s) \/ ServeSelect(s)
  <2>1. \A s \in Selectors : select[s].pc # "idle" => phase = "up"
    BY DEF IInv, Control, Switching
  <2>2. phase' # "stopping"
    BY <1>2, <2>1 DEF Start, AskSelect, LockSelect, BootSelect, SaveSelect, SavedSelect,
       ServeSelect
  <2> QED BY <2>2
<1>3. CASE Follow \/ Poll \/ Disconnect \/ UNCHANGED vars
  BY <1>3 DEF Follow, Poll, Disconnect, vars, memory
<1> QED BY <1>1, <1>2, <1>3 DEF Next

LEMMA SameKept ==
  ASSUME IInv, IInv', Roles, NothingFailed => Copies, KeptNow, [Next]_vars, NothingFailed',
         ~(BeginRun \/ AppendEvent \/ EndRun \/ Exit)
  PROVE  KeptNow'
<1>0. NothingFailed /\ ~Crash
  BY FailuresStay
<1>1. ASSUME NEW p \in Paths PROVE Kept(Live(p), log[p])' /\ UNCHANGED log
  <2>1. Compacted(Live(p)') = Compacted(Live(p)) /\ UNCHANGED log
    BY LiveStep
  <2>2. LiveTyped /\ LiveTyped'
    <3>1. (IInv => LiveTyped)'
      BY LiveOK, PTL
    <3> QED BY <3>1, LiveOK
  <2>3. Live(p) \in SessionsAt(MaxEvents) /\ Live(p)' \in SessionsAt(MaxEvents)
    BY <2>2 DEF LiveTyped, Paths, Path
  <2>4. Live(p)'.run = Live(p).run /\ Ids(Live(p)') = Ids(Live(p))
    BY <2>1, <2>3, SameIds
  <2> QED BY <2>1, <2>4 DEF KeptNow, Kept, Ids, Bounded
<1>2. UNCHANGED log
  BY <1>1, Constants
<1>3. CASE Stop
  <2>1. /\ phase = "up" /\ Up /\ Served \in Paths /\ save'.image = Session
        /\ UNCHANGED <<apps, current, serving, exec, select>> /\ UNCHANGED <<Session, Served>>
        /\ exec = Runner => Session.run = "running"
    BY <1>3, StopSaves
  <2>2. Kept(Session, log[Served])
    BY <2>1 DEF KeptNow, Live
  <2> QED BY <1>1, <1>2, <2>1, <2>2 DEF KeptNow, Paths, Path, Kept, Ids, Bounded
<1>4. CASE ~Stop
  <2>1. phase' = "stopping" => /\ phase = "stopping" /\ exec' = exec /\ save'.image = save.image
                               /\ UNCHANGED <<apps, serving>>
    BY <1>0, <1>4, StoppingKept
  <2>2. exec' = Runner => exec = Runner /\ UNCHANGED <<apps, serving>>
    <3>1. CASE Saving
      BY <3>1, SavingEffect
    <3>2. CASE Start
      BY <3>2, Constants DEF Start, IInv, Control, Running, Nobody, Runner
    <3>3. CASE \E s \in Selectors : \/ BootSelect(s) \/ SaveSelect(s) \/ SavedSelect(s)
                                   \/ ServeSelect(s)
      <4>1. PICK s \in Selectors : \/ BootSelect(s) \/ SaveSelect(s)
                                  \/ SavedSelect(s) \/ ServeSelect(s)
        BY <3>3
      <4>2. select[s].pc \in Locking
        BY <4>1 DEF BootSelect, SaveSelect, SavedSelect, ServeSelect, Locking, Booting
      <4>3. exec = s
        BY <4>2, OneLocks
      <4>4. exec' \in {s, Nobody}
        BY <4>1, <4>3 DEF BootSelect, SaveSelect, SavedSelect, ServeSelect
      <4> QED BY <4>4, Constants DEF Nobody, Runner
    <3>4. CASE \E s \in Selectors : AskSelect(s) \/ LockSelect(s)
      BY <3>4, Constants DEF AskSelect, LockSelect
    <3>5. CASE Follow \/ Poll \/ Disconnect \/ UNCHANGED vars
      BY <3>5 DEF Follow, Poll, Disconnect, vars, memory
    <3> QED BY <1>0, <1>4, <3>1, <3>2, <3>3, <3>4, <3>5 DEF Next
  <2> QED BY <1>1, <1>2, <2>1, <2>2 DEF KeptNow, Served, Session, Paths, Path, Kept, Ids, Bounded
<1> QED BY <1>3, <1>4

\* A run that begins, or goes on after its approval.
LEMMA BeginRunEffect ==
  ASSUME IInv, BeginRun
  PROVE  /\ phase = "up" /\ exec' = Runner /\ save.pc = "none" /\ Up
         /\ Session.run \in {"none", "awaiting_tool_approval"}
         /\ UNCHANGED <<phase, current, serving, select, save, disk, client, counts, log, image>>
         /\ UNCHANGED <<Up, Served>>
         /\ Session'.run = "running" /\ Session'.events = Session.events
         /\ DOMAIN apps' = DOMAIN apps
         /\ \A a \in DOMAIN apps \ {serving} : apps'[a] = apps[a]
         /\ \A a \in DOMAIN apps : apps'[a].ws = apps[a].ws
<1>1. /\ phase = "up" /\ exec = Nobody /\ exec' = Runner
      /\ Session.run \in {"none", "awaiting_tool_approval"}
      /\ UNCHANGED <<phase, current, serving, select, save, disk, client, counts, log, image>>
      /\ apps' = [apps EXCEPT ![serving].session = [Session EXCEPT !.run = "running"]]
  BY DEF BeginRun, Session
<1>2. save.pc = "none" /\ serving \in DOMAIN apps
  BY <1>1, FreeMutex, Constants DEF NoSave, IInv, Control, Running
<1>3. PICK x : x = [Session EXCEPT !.run = "running"]
  OBVIOUS
<1>4. x.run = "running" /\ x.events = Session.events
  <2>1. Session \in SessionsAt(counts.events)
    BY <1>1, ServedTyped DEF Up
  <2> QED BY <1>3, <2>1 DEF SessionsAt
<1>5. /\ apps' = [apps EXCEPT ![serving].session = x]
      /\ \A a \in DOMAIN apps : apps[a] \in Apps(counts.events)
  <2>1. apps \in Seq(Apps(counts.events))
    BY ServedTyped DEF AppsOK
  <2> QED BY <1>1, <1>3, <2>1
<1>6. /\ DOMAIN apps' = DOMAIN apps /\ apps'[serving].session = x
      /\ \A a \in DOMAIN apps \ {serving} : apps'[a] = apps[a]
      /\ \A a \in DOMAIN apps : apps'[a].ws = apps[a].ws
  BY <1>2, <1>5 DEF Apps
<1>7. UNCHANGED <<Up, Served>> /\ Session' = x
  BY <1>1, <1>2, <1>6 DEF Up, Served, Session
<1> QED BY <1>1, <1>2, <1>4, <1>6, <1>7 DEF Up

\* A run that records an event, and perhaps ends or pauses with it.
LEMMA RecordEffect ==
  ASSUME IInv, ClientTyped, NEW st \in RunStates \ {"none"}, NEW h, Record(st, h),
         NEW n, n = counts.events
  PROVE  /\ n \in Nat /\ exec = Runner /\ exec' = h /\ Up /\ Session.run = "running"
         /\ UNCHANGED <<phase, current, serving, select, save, disk, client, image>>
         /\ UNCHANGED <<Up, Served>> /\ counts'.events = n + 1
         /\ DOMAIN apps' = DOMAIN apps
         /\ \A a \in DOMAIN apps \ {serving} : apps'[a] = apps[a]
         /\ \A a \in DOMAIN apps : apps'[a].ws = apps[a].ws
         /\ Session \in SessionsAt(n) /\ Session' \in SessionsAt(n + 1) /\ Session'.run = st
         /\ Ids(Session') = Bounded(Append(Ids(Session), n + 1))
         /\ NextSeq(Session'.events) = NextSeq(Session.events) + 1
         /\ \A i \in DOMAIN Session'.events :
               \/ /\ Session'.events[i].seq = NextSeq(Session.events)
                  /\ Session'.events[i].id = n + 1
               \/ \E j \in DOMAIN Session.events : Session'.events[i] = Session.events[j]
         /\ log'[Served] = Append(log[Served], n + 1)
         /\ \A p \in Paths \ {Served} : log'[p] = log[p]
<1>1. PICK y : y = [Recorded(Session, n + 1) EXCEPT !.run = st]
  OBVIOUS
<1>2. /\ exec = Runner /\ exec' = h /\ n < MaxEvents /\ n \in Nat /\ counts'.events = n + 1
      /\ UNCHANGED <<phase, current, serving, select, save, disk, client, image>>
      /\ apps' = [apps EXCEPT ![serving].session = y]
      /\ log' = [log EXCEPT ![Served] = Append(@, n + 1)]
  BY <1>1, Constants DEF Record, Session, Served, IInv, Typed
<1>3. Up /\ Session.run = "running"
  BY <1>2, Constants DEF IInv, Typed, Control, Running, Up, Runner, Nobody
<1>4. Session \in SessionsAt(n) /\ serving \in DOMAIN apps /\ Served \in Paths
  BY <1>2, <1>3, ServedTyped
<1>5. \A a \in DOMAIN apps : apps[a] \in Apps(n)
  <2>1. apps \in Seq(Apps(n))
    BY <1>2, ServedTyped DEF AppsOK
  <2> QED BY <2>1
<1>6. /\ DOMAIN apps' = DOMAIN apps /\ apps'[serving].session = y
      /\ \A a \in DOMAIN apps \ {serving} : apps'[a] = apps[a]
      /\ \A a \in DOMAIN apps : apps'[a].ws = apps[a].ws
  BY <1>2, <1>4, <1>5 DEF Apps
<1>7. UNCHANGED <<Up, Served>> /\ Session' = y
  BY <1>2, <1>4, <1>6 DEF Up, Served, Session
<1>8. /\ log'[Served] = Append(log[Served], n + 1)
      /\ \A p \in Paths \ {Served} : log'[p] = log[p]
  BY <1>2, <1>4 DEF ClientTyped
<1>9. PICK x \in SessionsAt(n) : x = Session
  BY <1>4
<1>10. /\ y \in SessionsAt(n + 1) /\ y.run = st
       /\ Ids(y) = Bounded(Append(Ids(x), n + 1))
       /\ NextSeq(y.events) = NextSeq(x.events) + 1
       /\ \A i \in DOMAIN y.events :
             \/ y.events[i].seq = NextSeq(x.events) /\ y.events[i].id = n + 1
             \/ \E j \in DOMAIN x.events : y.events[i] = x.events[j]
  <2>1. y = After(x, n, st) /\ x.run # "completed"
    BY <1>1, <1>3, <1>9 DEF After
  <2> QED BY <1>2, <2>1, RecordedFacts
<1>11. Ids(Session') = Ids(y) /\ Ids(Session) = Ids(x)
  BY <1>7, <1>9
<1> QED BY <1>2, <1>3, <1>4, <1>6, <1>7, <1>8, <1>9, <1>10, <1>11

LEMMA BeginRunKept ==
  ASSUME IInv, KeptNow, BeginRun PROVE KeptNow'
<1>1. /\ phase = "up" /\ exec' = Runner /\ Up
      /\ Session.run \in {"none", "awaiting_tool_approval"}
      /\ UNCHANGED <<phase, log, image>> /\ UNCHANGED <<Up, Served>>
      /\ Session'.run = "running" /\ Session'.events = Session.events
  BY BeginRunEffect
<1>2. Ids(Session') = Ids(Session) /\ Served \in Paths
  BY <1>1, ServedTyped DEF Ids
<1>3. Ids(Session) = Bounded(log[Served])
  BY <1>1, <1>2 DEF KeptNow, Kept, Live
<1>4. ASSUME NEW p \in Paths PROVE Kept(Live(p), log[p])'
  <2>1. CASE p = Served
    BY <1>1, <2>1 DEF Kept, Live
  <2>2. CASE p # Served
    BY <1>1, <2>2 DEF KeptNow, Kept, Live, Ids, Bounded
  <2> QED BY <2>1, <2>2
<1>5. (Ids(Session) = Bounded(log[Served]))'
  BY <1>1, <1>2, <1>3 DEF Ids, Bounded
<1> QED BY <1>1, <1>4, <1>5 DEF KeptNow, Paths, Path

LEMMA RecordKept ==
  ASSUME IInv, ClientTyped, KeptNow, NEW st \in RunStates \ {"none"}, NEW h, Record(st, h)
  PROVE  KeptNow'
<1>1. PICK n : n = counts.events
  OBVIOUS
<1>2. /\ n \in Nat /\ exec = Runner /\ Up
      /\ UNCHANGED <<phase, save, image>> /\ UNCHANGED <<Up, Served>>
      /\ Ids(Session') = Bounded(Append(Ids(Session), n + 1))
      /\ log'[Served] = Append(log[Served], n + 1)
      /\ \A p \in Paths \ {Served} : log'[p] = log[p]
  BY <1>1, RecordEffect
<1>3. PICK l \in Seq(Nat) : l = log[Served]
  BY <1>2, ServedTyped DEF ClientTyped
<1>4. Ids(Session') = Bounded(log'[Served])
  <2>1. Ids(Session) = Bounded(l)
    BY <1>2, <1>3 DEF KeptNow
  <2>2. Bounded(Append(Bounded(l), n + 1)) = Bounded(Append(l, n + 1))
    BY <1>2, BoundedAppend
  <2> QED BY <1>2, <1>3, <2>1, <2>2
<1>5. ASSUME NEW p \in Paths PROVE Kept(Live(p), log[p])'
  <2>1. CASE p = Served
    BY <1>2, <1>4, <2>1 DEF Kept, Live, Ids, Bounded
  <2>2. CASE p # Served
    BY <1>2, <2>2 DEF KeptNow, Kept, Live, Ids, Bounded
  <2> QED BY <2>1, <2>2
<1>6. (Ids(Session) = Bounded(log[Served]))'
  BY <1>2, <1>4 DEF Ids, Bounded
<1>7. phase' = "stopping" => save'.image.run = "running"
  BY <1>2 DEF KeptNow
<1> QED BY <1>5, <1>6, <1>7 DEF KeptNow, Paths, Path, Kept

\* The process ends after its last Save, which has not failed.
LEMMA ExitEffect ==
  ASSUME IInv, Roles, Copies, NothingFailed, Exit
  PROVE  /\ phase = "stopping" /\ Up /\ ~Up' /\ phase' = "stopped" /\ exec' = Nobody
         /\ image[Served] = save.image /\ apps' = <<>> /\ Served \in Paths
         /\ UNCHANGED <<log, image>>
         /\ client' = [client EXCEPT !.pc = "closed"]
<1>1. /\ phase = "stopping" /\ phase' = "stopped" /\ save.pc \in {"done", "failed"}
      /\ exec' = Nobody /\ apps' = <<>> /\ UNCHANGED <<log, image>>
      /\ client' = [client EXCEPT !.pc = "closed"]
  BY DEF Exit, ForgetMemory
<1>2. SavePath \in Paths /\ save.app = serving /\ SavePath = Served
  BY <1>1, ServedTyped DEF Roles, SavePath, Served
<1>3. FilesOK(SavePath)
  BY <1>2 DEF IInv, FilesHeld
<1>4. save.pc = "done"
  BY <1>1, <1>2, <1>3 DEF FilesOK, UnderWay, Progress
<1> QED BY <1>1, <1>2, <1>4 DEF Copies, Up

LEMMA ExitKept ==
  ASSUME IInv, Roles, Copies, NothingFailed, KeptNow, Exit PROVE KeptNow'
<1>1. /\ phase = "stopping" /\ Up /\ ~Up' /\ phase' = "stopped" /\ exec' = Nobody
      /\ image[Served] = save.image /\ UNCHANGED <<log, image>>
  BY ExitEffect
<1>2. ASSUME NEW p \in Paths PROVE Kept(Live(p), log[p])'
  BY <1>1 DEF KeptNow, Kept, Live, Ids, Bounded
<1> QED BY <1>1, <1>2, Constants DEF KeptNow, Paths, Path, Nobody, Runner

LEMMA NextKept ==
  ASSUME IInv, IInv', Roles, ClientTyped, NothingFailed => Copies /\ KeptNow, [Next]_vars,
         NothingFailed'
  PROVE  KeptNow'
<1>0. NothingFailed /\ Copies /\ KeptNow
  BY FailuresStay
<1>1. CASE BeginRun
  BY <1>0, <1>1, BeginRunKept
<1>2. CASE AppendEvent
  BY <1>0, <1>2, RecordKept DEF AppendEvent, RunStates
<1>3. CASE EndRun
  BY <1>0, <1>3, RecordKept DEF EndRun, RunStates
<1>4. CASE Exit
  BY <1>0, <1>4, ExitKept
<1> QED BY <1>0, <1>1, <1>2, <1>3, <1>4, SameKept

\* With nobody switching to the path that is served, the events are kept.
SwitchInv ==
    /\ IInv /\ Roles /\ ClientTyped
    /\ NothingFailed => Copies /\ KeptNow

LEMMA SwitchInit == Init => SwitchInv
BY InitOK, InitRoles, InitClient, InitCopies, InitKept DEF SwitchInv

LEMMA SwitchStep == SwitchInv /\ SwitchesAway /\ [Next]_vars => SwitchInv'
<1> SUFFICES ASSUME SwitchInv, SwitchesAway, [Next]_vars PROVE SwitchInv'
  OBVIOUS
<1>1. IInv /\ Roles /\ ClientTyped /\ (NothingFailed => Copies /\ KeptNow)
  BY DEF SwitchInv
<1>2. IInv' /\ Roles' /\ ClientTyped'
  BY <1>1, NextOK, NextRoles, NextClient
<1>3. NothingFailed' => Copies' /\ KeptNow'
  BY <1>1, <1>2, NextCopies, NextKept
<1> QED BY <1>2, <1>3 DEF SwitchInv

\* After a clean stop Load returns, of every path, the last events its run recorded,
\* unless the run was still running when it was saved: any number of workspaces,
\* switches, starts and events, any window. The rebinder saves the application it
\* replaces and main the one that is left (main.go). The hypothesis is what the handler
\* intends when it compares the paths (workspace.go:225); it does so before it takes
\* the mutexes, and two requests for one path can break it and the property.
THEOREM EventsKept == Spec /\ []SwitchesAway => []KeptAtStop
<1>1. SwitchInv => KeptAtStop
  <2> SUFFICES ASSUME SwitchInv, phase = "stopped", NothingFailed, NEW p \in Paths,
                      Loaded(disk[p]).run # "running"
               PROVE  [i \in DOMAIN Loaded(disk[p]).events |-> Loaded(disk[p]).events[i].id]
                        = SubSeq(log[p], Max({1, Len(log[p]) - EventWindow + 1}), Len(log[p]))
    BY DEF KeptAtStop
  <2>1. IInv /\ KeptNow /\ ClientTyped
    BY DEF SwitchInv
  <2>2. PICK k \in Nat : k = counts.events
    <3>1. counts.events \in Nat
      BY <2>1, Constants DEF IInv, Typed
    <3> QED BY <3>1
  <2>3. save.pc = "none" /\ ~Up
    BY <2>1 DEF IInv, Control, Running, Up
  <2>4. disk[p] \in FilesAt(k) /\ Settled(disk[p], image[p])
    BY <2>1, <2>2, <2>3, AllSettled DEF IInv, Typed, DiskOK
  <2>5. Compacted(Loaded(disk[p])) = Compacted(image[p])
    BY <2>4, LoadedSettled
  <2>6. Loaded(disk[p]) \in SessionsAt(MaxEvents) /\ image[p] \in SessionsAt(MaxEvents)
    <3>1. k <= MaxEvents /\ MaxEvents \in Nat
      BY <2>1, <2>2, Constants DEF IInv, Typed
    <3>2. Loaded(disk[p]) \in SessionsAt(MaxEvents)
      BY <2>4, <3>1, LoadedOK, Monotone
    <3> QED BY <2>1, <3>2, LiveOK DEF LiveTyped
  <2>7. Ids(Loaded(disk[p])) = Ids(image[p]) /\ image[p].run # "running"
    BY <2>5, <2>6, SameIds
  <2>8. Ids(image[p]) = Bounded(log[p])
    BY <2>1, <2>3, <2>7 DEF KeptNow, Kept, Live
  <2>9. SubSeq(log[p], Max({1, Len(log[p]) - EventWindow + 1}), Len(log[p])) = Bounded(log[p])
    <3>1. log[p] \in Seq(Nat)
      BY <2>1 DEF ClientTyped
    <3> QED BY <3>1, WindowBounded
  <2> QED BY <2>7, <2>8, <2>9 DEF Ids
<1> QED BY SwitchInit, SwitchStep, <1>1, PTL DEF Spec

------------------------------------------------------------------------------
(* What the client has not been sent comes after what it was               *)

InSwitch(a) == \E s \in Selectors : select[s].pc \in Booting /\ select[s].app = a
InUse(a) == a = serving \/ InSwitch(a)

\* The sessions that a Load of these files may find.
Versions(files) ==
    IF files.file.kind = "absent" THEN {} ELSE {files.file.data, files.archive.data}

\* The events of y that are after the client's cursor are later than all it was sent.
Ahead(y) ==
    \A i \in DOMAIN y.events :
        y.events[i].seq > client.since =>
            \A k \in DOMAIN client.got : client.got[k] < y.events[i].id

\* Session x goes on behind the events of y.
Below(y, x) == \A i \in DOMAIN y.events : y.events[i].seq < NextSeq(x.events)

\* What is sent is sent in order; whatever can be served to the client goes on
\* behind it, after kills and failures too.
InOrder ==
    /\ \A i, j \in DOMAIN client.got : i < j => client.got[i] < client.got[j]
    /\ \A i \in DOMAIN client.got : client.got[i] <= counts.events
    /\ \A y \in Versions(disk[Path(Home)]) : Ahead(y)
    /\ save.pc # "none" /\ SavePath = Path(Home) => Ahead(save.image)
    /\ \A a \in DOMAIN apps : InUse(a) /\ Path(apps[a].ws) = Path(Home) => Ahead(apps[a].session)
    /\ \A a \in DOMAIN apps : InUse(a) =>
          \A y \in Versions(disk[Path(apps[a].ws)]) : Below(y, apps[a].session)
    /\ save.pc # "none" => Below(save.image, Session)

LEMMA EmptyAhead == Ahead(EmptySession) /\ \A x : Below(EmptySession, x)
BY DEF Ahead, Below, EmptySession

LEMMA CompactedAhead ==
  ASSUME NEW n \in Nat, NEW x \in SessionsAt(n), NEW y \in SessionsAt(n),
         Compacted(x) = Compacted(y)
  PROVE  /\ Ahead(x) => Ahead(y)
         /\ \A z : Below(x, z) => Below(y, z)
<1>1. /\ DOMAIN x.events = DOMAIN y.events
      /\ \A i \in DOMAIN x.events : /\ x.events[i].seq = y.events[i].seq
                                    /\ x.events[i].id = y.events[i].id
  BY CompactSame
<1> QED BY <1>1 DEF Ahead, Below

LEMMA SelfBelow ==
  ASSUME NEW n \in Nat, NEW x \in SessionsAt(n) PROVE Below(x, x) /\ Below(Compacted(x), x)
<1>1. Below(x, x)
  BY NextSeqLast DEF Below
<1>2. Compacted(x) \in SessionsAt(n) /\ Compacted(Compacted(x)) = Compacted(x)
  BY CompactedOK
<1> QED BY <1>1, <1>2, CompactedAhead

\* What a Load finds, and what it leaves.
LEMMA LoadAhead ==
  ASSUME NEW n \in Nat, NEW files \in FilesAt(n), ~LoadRefuses(files)
  PROVE  /\ Loaded(files) = EmptySession \/ Loaded(files) \in Versions(files)
         /\ \A y \in Versions(Migrated(files)) : Below(y, Loaded(files))
         /\ \A y \in Versions(Migrated(files)) :
               y = EmptySession \/ Compacted(y) = Compacted(Loaded(files))
         /\ \A y \in Versions(files) \cup Versions(Migrated(files)) : y \in SessionsAt(n)
<1> DEFINE d == Loaded(files)
<1>1. d \in SessionsAt(n) /\ Migrated(files) \in FilesAt(n)
  BY LoadedOK
<1>2. d = EmptySession \/ d \in Versions(files)
  BY DEF Loaded, Versions
<1>3. ASSUME NEW f \in FilesAt(n), NEW y \in Versions(f) PROVE y \in SessionsAt(n)
  BY <1>3 DEF Versions, FilesAt, CopiesAt
<1>4. ASSUME NEW y \in Versions(Migrated(files))
      PROVE  y = EmptySession \/ y = d \/ y = Compacted(d)
  <2>1. files.file.kind # "absent"
    BY <1>4 DEF Migrated, Versions
  <2>2. Migrated(files) = [archive |-> Whole(d),
                           file |-> IF files.file.kind = "whole" THEN Whole(Compacted(d))
                                    ELSE files.file]
    BY <2>1 DEF Migrated
  <2>3. files.file.kind # "whole" => files.file.data = EmptySession
    BY DEF FilesAt, CopiesAt
  <2> QED BY <1>4, <2>2, <2>3 DEF Versions, Whole
<1>5. Compacted(Compacted(d)) = Compacted(d)
  BY <1>1, CompactedOK
<1> HIDE DEF d
<1>6. ASSUME NEW y \in Versions(Migrated(files))
      PROVE  Below(y, d) /\ (y = EmptySession \/ Compacted(y) = Compacted(d))
  BY <1>1, <1>4, <1>5, <1>6, EmptyAhead, SelfBelow
<1> QED BY <1>1, <1>2, <1>3, <1>6 DEF d

LEMMA InitOrder == Init => InOrder
<1> SUFFICES ASSUME Init PROVE InOrder
  OBVIOUS
<1>1. /\ client.got = <<>> /\ apps = <<>> /\ save.pc = "none"
  BY DEF Init, NoSave
<1> QED BY <1>1 DEF InOrder, Ahead

\* A step that sends nothing.
LEMMA OrderStep ==
  ASSUME IInv, ClientTyped, InOrder, client'.since = client.since, client'.got = client.got,
         counts'.events = counts.events \/ counts'.events = counts.events + 1,
         \A y \in Versions(disk'[Path(Home)]) : Ahead(y),
         save'.pc # "none" => /\ SavePath' = Path(Home) => Ahead(save'.image)
                              /\ Below(save'.image, Session'),
         \A a \in DOMAIN apps' : InUse(a)' =>
            /\ Path(apps'[a].ws) = Path(Home) => Ahead(apps'[a].session)
            /\ \A y \in Versions(disk'[Path(apps'[a].ws)]) : Below(y, apps'[a].session)
  PROVE  InOrder'
<1>1. \A i \in DOMAIN client'.got : client'.got[i] <= counts'.events
  <2>1. counts.events \in Nat /\ client.got \in Seq(Nat)
    BY Constants DEF IInv, Typed, ClientTyped
  <2>2. \A i \in DOMAIN client.got : client.got[i] \in Nat /\ client.got[i] <= counts.events
    BY <2>1 DEF InOrder
  <2> QED BY <2>1, <2>2
<1>2. \A i, j \in DOMAIN client'.got : i < j => client'.got[i] < client'.got[j]
  BY DEF InOrder
<1> QED BY <1>1, <1>2 DEF InOrder, Ahead, Below, Versions, Path, NextSeq

\* Neither sessions nor files change; what is saved, served or switched to was.
LEMMA OrderKept ==
  ASSUME IInv, ClientTyped, InOrder, client'.since = client.since, client'.got = client.got,
         UNCHANGED <<apps, disk>>, counts'.events = counts.events,
         save'.pc # "none" => save' = save /\ UNCHANGED serving,
         \A a \in DOMAIN apps : InUse(a)' => InUse(a)
  PROVE  InOrder'
<1>1. save'.pc # "none" => /\ SavePath' = Path(Home) => Ahead(save'.image)
                           /\ Below(save'.image, Session')
  BY DEF InOrder, SavePath, Session
<1>2. \A a \in DOMAIN apps' : InUse(a)' =>
         /\ Path(apps'[a].ws) = Path(Home) => Ahead(apps'[a].session)
         /\ \A y \in Versions(disk'[Path(apps'[a].ws)]) : Below(y, apps'[a].session)
  BY DEF InOrder
<1>3. \A y \in Versions(disk'[Path(Home)]) : Ahead(y)
  BY DEF InOrder
<1> HIDE DEF InOrder
<1> QED BY <1>1, <1>2, <1>3, OrderStep

LEMMA ForgetOrder ==
  ASSUME IInv, ClientTyped, InOrder, ForgetMemory, UNCHANGED disk, counts'.events = counts.events
  PROVE  InOrder'
<1>1. /\ apps' = <<>> /\ save'.pc = "none"
      /\ client'.since = client.since /\ client'.got = client.got
  BY DEF ForgetMemory, NoSave, ClientTyped
<1>2. \A y \in Versions(disk'[Path(Home)]) : Ahead(y)
  BY DEF InOrder
<1> QED BY <1>1, <1>2, OrderStep

LEMMA StartOrder ==
  ASSUME IInv, ClientTyped, InOrder, Start PROVE InOrder'
<1>1. PICK q \in Paths : q = Path(Home)
  BY Constants
<1>2. PICK k \in Nat : k = counts.events
  <2>1. counts.events \in Nat
    BY Constants DEF IInv, Typed
  <2> QED BY <2>1
<1>3. /\ phase \in {"down", "stopped"} /\ UNCHANGED <<select, save, client>>
      /\ counts'.events = counts.events /\ disk' = [disk EXCEPT ![q] = Migrated(@)]
  BY <1>1 DEF Start, IInv, Typed
<1>4. save.pc = "none" /\ \A s \in Selectors : select[s].pc = "idle"
  BY <1>3 DEF IInv, Control, Running, Switching
<1>5. disk[q] \in FilesAt(k) /\ disk'[q] = Migrated(disk[q])
  BY <1>2, <1>3 DEF IInv, Typed, DiskOK
<1>6. \A a : ~InSwitch(a)'
  BY <1>3, <1>4 DEF InSwitch, Booting
<1>7. CASE LoadRefuses(disk[q])
  <2>1. disk'[q] = disk[q] /\ UNCHANGED <<apps, serving>>
    BY <1>1, <1>5, <1>7 DEF Migrated, Start
  <2>2. disk' = disk
    BY <1>3, <2>1 DEF IInv, Typed, DiskOK
  <2>3. \A a \in DOMAIN apps : InUse(a)' => InUse(a)
    BY <1>6, <2>1 DEF InUse
  <2> QED BY <1>3, <1>4, <2>1, <2>2, <2>3, OrderKept
<1>8. CASE ~LoadRefuses(disk[q])
  <2>1. PICK d : d = Loaded(disk[q])
    OBVIOUS
  <2>2. /\ d \in SessionsAt(k) /\ (d = EmptySession \/ d \in Versions(disk[q]))
        /\ \A y \in Versions(disk'[q]) : Below(y, d)
        /\ \A y \in Versions(disk'[q]) : y = EmptySession \/ Compacted(y) = Compacted(d)
        /\ \A y \in Versions(disk'[q]) : y \in SessionsAt(k)
    BY <1>5, <1>8, <2>1, LoadAhead, LoadedOK
  <2>3. Ahead(d)
    BY <1>1, <2>2, EmptyAhead DEF InOrder
  <2>4. \A y \in Versions(disk'[q]) : Ahead(y)
    BY <2>2, <2>3, EmptyAhead, CompactedAhead
  <2>5. apps' = <<[ws |-> Home, session |-> d]>> /\ serving' = 1
    BY <1>1, <1>8, <2>1 DEF Start
  <2>6. \A a \in DOMAIN apps' : a = 1 /\ apps'[a].ws = Home /\ apps'[a].session = d
    BY <2>5
  <2>7. \A a \in DOMAIN apps' : InUse(a)' =>
           /\ Path(apps'[a].ws) = Path(Home) => Ahead(apps'[a].session)
           /\ \A y \in Versions(disk'[Path(apps'[a].ws)]) : Below(y, apps'[a].session)
    BY <1>1, <2>2, <2>3, <2>6
  <2> QED BY <1>1, <1>3, <1>4, <2>4, <2>7, OrderStep
<1> QED BY <1>7, <1>8

\* A Save begins: it takes the session that is served.
LEMMA BeginSaveOrder ==
  ASSUME IInv, ClientTyped, InOrder, Roles, Up, NEW by, BeginSave(current, by),
         \A s \in Selectors : select[s].pc # "saved",
         UNCHANGED <<apps, serving, disk, client, counts>>,
         \A a \in DOMAIN apps : InUse(a)' => InUse(a)
  PROVE  InOrder'
<1>1. save' = [pc |-> "archive", app |-> current, by |-> by, image |-> apps[current].session]
      /\ current = serving
  BY DEF BeginSave, Roles
<1>2. /\ save'.app = serving /\ save'.image = Session /\ UNCHANGED Session
      /\ SavePath' = Path(apps[serving].ws)
  BY <1>1 DEF Session, SavePath, Path
<1>3. serving \in DOMAIN apps /\ InUse(serving) /\ Session \in SessionsAt(counts.events)
      /\ counts.events \in Nat
  BY ServedTyped, Constants DEF InUse
<1>4. Below(Session, Session)
  BY <1>3, SelfBelow
<1>5. Path(apps[serving].ws) = Path(Home) => Ahead(Session)
  BY <1>3 DEF InOrder, Session
<1>6. save'.pc # "none" => /\ SavePath' = Path(Home) => Ahead(save'.image)
                           /\ Below(save'.image, Session')
  BY <1>2, <1>4, <1>5
<1>7. \A a \in DOMAIN apps' : InUse(a)' =>
         /\ Path(apps'[a].ws) = Path(Home) => Ahead(apps'[a].session)
         /\ \A y \in Versions(disk'[Path(apps'[a].ws)]) : Below(y, apps'[a].session)
  BY DEF InOrder
<1>8. \A y \in Versions(disk'[Path(Home)]) : Ahead(y)
  BY DEF InOrder
<1> QED BY <1>6, <1>7, <1>8, OrderStep

\* The steps of a Save put nothing on the disk that was not there or is being saved.
LEMMA SavingVersions ==
  ASSUME IInv, Roles, Saving
  PROVE  /\ \A p \in Paths \ {Served} : disk'[p] = disk[p]
         /\ \A y \in Versions(disk'[Served]) :
               \/ y \in Versions(disk[Served])
               \/ y \in {EmptySession, save.image, Compacted(save.image)}
<1>1. PICK q \in Paths : q = SavePath /\ q = Served
  <2>1. save.pc # "none"
    BY DEF Saving, WriteTemporary, RenameArchive, CopyArchive, FinishCopy, TruncateFile,
       WriteFile, SaveFails
  <2> QED BY <2>1, ServedTyped DEF Roles, SavePath, Served
<1>2. PICK f : f = disk[q] /\ f \in FilesAt(counts.events)
  BY <1>1 DEF IInv, Typed, DiskOK
<1>3. f = [archive |-> f.archive, file |-> f.file] /\ DOMAIN disk = Paths
  BY <1>2 DEF FilesAt, IInv, Typed, DiskOK
<1>4. PICK x : x = save.image
  OBVIOUS
<1>5. \/ disk' = disk
      \/ \E c \in {Absent, Torn, Whole(x)} : disk' = [disk EXCEPT ![q].archive = c]
      \/ /\ save.pc \in {"file", "write"}
         /\ \E c \in {Torn, Whole(Compacted(x))} : disk' = [disk EXCEPT ![q].file = c]
  BY <1>1, <1>4 DEF Saving, WriteTemporary, RenameArchive, CopyArchive, FinishCopy, TruncateFile,
     WriteFile, SaveFails
<1>6. \A c \in {Absent, Torn, Whole(x), Whole(Compacted(x))} :
         c.data \in {EmptySession, x, Compacted(x)}
  BY DEF Absent, Torn, Whole
<1>7. CASE disk' = disk
  BY <1>1, <1>7
<1>8. CASE \E c \in {Absent, Torn, Whole(x)} : disk' = [disk EXCEPT ![q].archive = c]
  <2>1. PICK c \in {Absent, Torn, Whole(x)} : disk' = [disk EXCEPT ![q].archive = c]
    BY <1>8
  <2>2. /\ \A p \in Paths \ {q} : disk'[p] = disk[p]
        /\ disk'[q].archive = c /\ disk'[q].file = f.file
    BY <1>2, <1>3, <2>1
  <2> QED BY <1>1, <1>2, <1>4, <1>6, <2>2 DEF Versions
<1>9. CASE /\ save.pc \in {"file", "write"}
           /\ \E c \in {Torn, Whole(Compacted(x))} : disk' = [disk EXCEPT ![q].file = c]
  <2>1. PICK c \in {Torn, Whole(Compacted(x))} : disk' = [disk EXCEPT ![q].file = c]
    BY <1>9
  <2>2. /\ \A p \in Paths \ {q} : disk'[p] = disk[p]
        /\ disk'[q].file = c /\ disk'[q].archive = f.archive
    BY <1>2, <1>3, <2>1
  <2>3. f.archive.data = x
    BY <1>1, <1>2, <1>4, <1>9 DEF Roles, Whole
  <2> QED BY <1>1, <1>2, <1>4, <1>6, <2>2, <2>3 DEF Versions
<1> QED BY <1>5, <1>7, <1>8, <1>9

LEMMA SavingOrder ==
  ASSUME IInv, Roles, ClientTyped, InOrder, Saving PROVE InOrder'
<1>1. /\ save.pc # "none" /\ SavePath = Served
      /\ save'.app = save.app /\ save'.image = save.image
      /\ SavePath' = SavePath /\ Up /\ UNCHANGED <<Up, Served, Session>>
      /\ UNCHANGED <<phase, apps, current, serving, exec, select, client, log>>
  BY SavingEffect
<1>2. PICK x : x = save.image
  OBVIOUS
<1>3. PICK k \in Nat : k = counts.events /\ counts'.events = counts.events
  BY Constants DEF IInv, Typed, Saving, WriteTemporary, RenameArchive, CopyArchive, FinishCopy,
     TruncateFile, WriteFile, SaveFails
<1>4. x \in SessionsAt(k) /\ Compacted(x) \in SessionsAt(k)
      /\ Compacted(Compacted(x)) = Compacted(x)
  BY <1>2, <1>3, CompactedOK DEF IInv, Typed, SaveOK
<1>5. Below(x, Session) /\ Below(Compacted(x), Session)
  BY <1>1, <1>2, <1>4, CompactedAhead DEF InOrder
<1>6. Served = Path(Home) => Ahead(x) /\ Ahead(Compacted(x))
  BY <1>1, <1>2, <1>4, CompactedAhead DEF InOrder
<1>7. /\ \A p \in Paths \ {Served} : disk'[p] = disk[p]
      /\ \A y \in Versions(disk'[Served]) :
            y \in Versions(disk[Served]) \/ y \in {EmptySession, x, Compacted(x)}
  BY <1>2, SavingVersions
<1>8. \A y \in Versions(disk'[Path(Home)]) : Ahead(y)
  BY <1>6, <1>7, EmptyAhead, Constants DEF InOrder
<1>9. ASSUME NEW a \in DOMAIN apps', InUse(a)'
      PROVE  /\ Path(apps'[a].ws) = Path(Home) => Ahead(apps'[a].session)
             /\ \A y \in Versions(disk'[Path(apps'[a].ws)]) : Below(y, apps'[a].session)
  <2>1. a \in DOMAIN apps /\ InUse(a) /\ apps'[a] = apps[a] /\ Path(apps[a].ws) \in Paths
    BY <1>1, <1>9, ServedTyped DEF InUse, InSwitch
  <2>2. Path(apps[a].ws) = Served => a = serving
    BY <2>1 DEF InUse, InSwitch, Roles
  <2>3. Path(apps[a].ws) = Path(Home) => Ahead(apps[a].session)
    BY <2>1 DEF InOrder
  <2>4. CASE Path(apps[a].ws) = Served
    <3>1. apps[a].session = Session /\ InUse(serving) /\ a = serving
      BY <2>2, <2>4 DEF Session, InUse
    <3>2. \A y \in Versions(disk[Served]) : Below(y, Session)
      BY <2>1, <2>4, <3>1 DEF InOrder
    <3>3. \A y \in Versions(disk'[Served]) : Below(y, Session)
      BY <1>5, <1>7, <3>2, EmptyAhead
    <3> QED BY <2>1, <2>3, <2>4, <3>1, <3>3 DEF Path
  <2>5. CASE Path(apps[a].ws) # Served
    <3>1. disk'[Path(apps[a].ws)] = disk[Path(apps[a].ws)]
      BY <1>7, <2>1, <2>5
    <3>2. \A y \in Versions(disk[Path(apps[a].ws)]) : Below(y, apps[a].session)
      BY <2>1 DEF InOrder
    <3> QED BY <2>1, <2>3, <3>1, <3>2
  <2> QED BY <2>4, <2>5
<1>10. save'.pc # "none" => /\ SavePath' = Path(Home) => Ahead(save'.image)
                            /\ Below(save'.image, Session')
  BY <1>1, <1>2, <1>5, <1>6
<1> QED BY <1>1, <1>3, <1>8, <1>9, <1>10, OrderStep

LEMMA BelowMore ==
  ASSUME NEW m \in Nat, NEW y \in SessionsAt(m), NEW x, NEW z,
         NextSeq(x.events) \in Nat, NextSeq(z.events) \in Nat,
         NextSeq(x.events) <= NextSeq(z.events), Below(y, x)
  PROVE  Below(y, z)
<1>1. \A i \in DOMAIN y.events : y.events[i].seq \in Nat
  BY SessionFacts, Constants
<1> QED BY <1>1 DEF Below

LEMMA VersionsTyped ==
  ASSUME IInv, NEW p \in Paths, NEW y \in Versions(disk[p]) PROVE y \in SessionsAt(counts.events)
<1>1. disk[p] \in FilesAt(counts.events)
  BY DEF IInv, Typed, DiskOK
<1> QED BY <1>1 DEF Versions, FilesAt, CopiesAt

\* A run changes the session that is served, and its next number does not fall.
LEMMA RunOrder ==
  ASSUME IInv, Roles, ClientTyped, InOrder, Up,
         UNCHANGED <<serving, select, save, disk, client>>, UNCHANGED Served,
         counts'.events = counts.events \/ counts'.events = counts.events + 1,
         DOMAIN apps' = DOMAIN apps, \A a \in DOMAIN apps \ {serving} : apps'[a] = apps[a],
         \A a \in DOMAIN apps : apps'[a].ws = apps[a].ws,
         NEW x, x = Session, NEW z, z = Session',
         NextSeq(x.events) \in Nat, NextSeq(z.events) \in Nat,
         NextSeq(x.events) <= NextSeq(z.events),
         Served = Path(Home) => Ahead(z)
  PROVE  InOrder'
<1>1. PICK k \in Nat : k = counts.events
  <2>1. counts.events \in Nat
    BY Constants DEF IInv, Typed
  <2> QED BY <2>1
<1>2. \A y \in Versions(disk'[Path(Home)]) : Ahead(y)
  BY DEF InOrder
<1>3. ASSUME save'.pc # "none"
      PROVE  (SavePath' = Path(Home) => Ahead(save'.image)) /\ Below(save'.image, z)
  <2>1. save.image \in SessionsAt(k) /\ Below(save.image, x)
    BY <1>1, <1>3 DEF IInv, Typed, SaveOK, InOrder
  <2>2. Below(save.image, z)
    BY <1>1, <2>1, BelowMore
  <2>3. SavePath' = SavePath
    BY <1>3, ServedTyped DEF SavePath
  <2> QED BY <1>3, <2>2, <2>3 DEF InOrder
<1>4. ASSUME NEW a \in DOMAIN apps', InUse(a)'
      PROVE  /\ Path(apps'[a].ws) = Path(Home) => Ahead(apps'[a].session)
             /\ \A y \in Versions(disk'[Path(apps'[a].ws)]) : Below(y, apps'[a].session)
  <2>1. a \in DOMAIN apps /\ InUse(a) /\ apps'[a].ws = apps[a].ws /\ Path(apps[a].ws) \in Paths
    BY <1>4, ServedTyped DEF InUse, InSwitch
  <2>2. CASE a = serving
    <3>1. apps'[a].session = z /\ apps[a].session = x /\ Path(apps[a].ws) = Served
      BY <2>2 DEF Session, Served
    <3>2. \A y \in Versions(disk[Path(apps[a].ws)]) : Below(y, x)
      BY <2>1, <3>1 DEF InOrder
    <3>3. \A y \in Versions(disk[Path(apps[a].ws)]) : Below(y, z)
      BY <1>1, <2>1, <3>2, VersionsTyped, BelowMore
    <3> QED BY <2>1, <3>1, <3>3
  <2>3. CASE a # serving
    <3>1. apps'[a] = apps[a]
      BY <2>1, <2>3
    <3> QED BY <2>1, <3>1 DEF InOrder
  <2> QED BY <2>2, <2>3
<1> QED BY <1>2, <1>3, <1>4, OrderStep

LEMMA BeginRunOrder ==
  ASSUME IInv, Roles, ClientTyped, InOrder, BeginRun PROVE InOrder'
<1>1. /\ Up /\ UNCHANGED <<serving, select, save, disk, client, counts>> /\ UNCHANGED Served
      /\ Session'.events = Session.events /\ DOMAIN apps' = DOMAIN apps
      /\ \A a \in DOMAIN apps \ {serving} : apps'[a] = apps[a]
      /\ \A a \in DOMAIN apps : apps'[a].ws = apps[a].ws
  BY BeginRunEffect
<1>2. PICK x : x = Session
  OBVIOUS
<1>3. PICK z : z = Session'
  OBVIOUS
<1>4. x \in SessionsAt(counts.events) /\ counts.events \in Nat /\ serving \in DOMAIN apps
  BY <1>1, <1>2, ServedTyped, Constants
<1>5. z.events = x.events /\ NextSeq(x.events) \in Nat
  BY <1>1, <1>2, <1>3, <1>4, NextSeqLast
<1>6. NextSeq(z.events) = NextSeq(x.events) /\ NextSeq(x.events) <= NextSeq(z.events)
  BY <1>5
<1>7. Served = Path(Home) => Ahead(z)
  <2>1. Served = Path(Home) => Ahead(x)
    BY <1>2, <1>4 DEF InOrder, InUse, Served, Session
  <2> QED BY <1>5, <2>1 DEF Ahead
<1> QED BY <1>1, <1>2, <1>3, <1>5, <1>6, <1>7, RunOrder

LEMMA RecordOrder ==
  ASSUME IInv, Roles, ClientTyped, InOrder, NEW st \in RunStates \ {"none"}, NEW h, Record(st, h)
  PROVE  InOrder'
<1>1. PICK n : n = counts.events
  OBVIOUS
<1>2. PICK x : x = Session
  OBVIOUS
<1>3. PICK z : z = Session'
  OBVIOUS
<1>4. /\ n \in Nat /\ Up /\ UNCHANGED <<serving, select, save, disk, client>> /\ UNCHANGED Served
      /\ counts'.events = n + 1 /\ DOMAIN apps' = DOMAIN apps
      /\ \A a \in DOMAIN apps \ {serving} : apps'[a] = apps[a]
      /\ \A a \in DOMAIN apps : apps'[a].ws = apps[a].ws
      /\ x \in SessionsAt(n)
      /\ NextSeq(z.events) = NextSeq(x.events) + 1
      /\ \A i \in DOMAIN z.events :
            \/ z.events[i].seq = NextSeq(x.events) /\ z.events[i].id = n + 1
            \/ \E j \in DOMAIN x.events : z.events[i] = x.events[j]
  BY <1>1, <1>2, <1>3, RecordEffect
<1>5. NextSeq(x.events) \in Nat
  BY <1>4, NextSeqLast
<1>6. NextSeq(z.events) \in Nat /\ NextSeq(x.events) <= NextSeq(z.events)
  BY <1>4, <1>5
<1>7. ASSUME Served = Path(Home) PROVE Ahead(z)
  <2>1. Ahead(x)
    BY <1>2, <1>4, <1>7, ServedTyped DEF InOrder, InUse, Served, Session
  <2>2. \A k \in DOMAIN client.got : client.got[k] < n + 1
    <3>1. client.got \in Seq(Nat) /\ \A k \in DOMAIN client.got : client.got[k] <= n
      BY <1>1 DEF InOrder, ClientTyped
    <3>2. \A k \in DOMAIN client.got : client.got[k] \in Nat
      BY <3>1
    <3> QED BY <1>4, <3>1, <3>2
  <2> QED BY <1>4, <2>1, <2>2 DEF Ahead
<1> QED BY <1>1, <1>2, <1>3, <1>4, <1>5, <1>6, <1>7, RunOrder

\* What is behind the session that is polled stays behind what was sent of it.
LEMMA SentAhead ==
  ASSUME ClientTyped, NEW m \in Nat, NEW x \in SessionsAt(m), NEW y \in SessionsAt(m),
         NEW new, Sends(x, new), Below(y, x), Ahead(y)
  PROVE  Ahead(y)'
<1>1. PICK since \in Nat : since = client.since
  BY DEF ClientTyped
<1>2. PICK c \in Nat : c = client'.since
  BY DEF Sends
<1>3. PICK got \in Seq(Nat) : got = client.got
  BY DEF ClientTyped
<1>4. /\ DOMAIN x.events = 1..Len(x.events) /\ Len(x.events) \in Nat
      /\ \A i \in DOMAIN x.events : x.events[i].seq \in Nat
      /\ \A i \in DOMAIN y.events : y.events[i].seq \in Nat
  BY SessionFacts, Constants
<1>5. CASE \E i \in DOMAIN x.events : x.events[i].seq > since
  <2>1. Len(x.events) \in DOMAIN x.events /\ Len(x.events) # 0
    BY <1>4, <1>5
  <2>2. NextSeq(x.events) = x.events[Len(x.events)].seq + 1 /\ x.events[Len(x.events)].seq <= c
    BY <1>2, <2>1, NextSeqLast DEF Sends
  <2>3. \A i \in DOMAIN y.events : ~(y.events[i].seq > c)
    BY <1>2, <1>4, <2>1, <2>2 DEF Below
  <2> QED BY <1>2, <2>3 DEF Ahead
<1>6. CASE \A i \in DOMAIN x.events : ~(x.events[i].seq > since)
  <2>1. c = since
    BY <1>1, <1>2, <1>4, <1>6 DEF Sends
  <2>2. new = <<>>
    <3>1. new \in Seq(Nat) /\ \A k \in 1..Len(new) : FALSE
      BY <1>1, <1>6 DEF Sends
    <3> QED BY <3>1
  <2>3. client'.got = got
    BY <1>3, <2>2 DEF Sends
  <2> QED BY <1>1, <1>2, <1>3, <2>1, <2>3 DEF Ahead
<1> QED BY <1>5, <1>6

\* A turn of the loop sends later events in their order.
LEMMA SentInOrder ==
  ASSUME ClientTyped, InOrder, NEW m \in Nat, m = counts.events, NEW x \in SessionsAt(m),
         NEW new, Sends(x, new), Ahead(x)
  PROVE  /\ \A i, j \in DOMAIN client'.got : i < j => client'.got[i] < client'.got[j]
         /\ \A i \in DOMAIN client'.got : client'.got[i] <= m
<1>1. PICK got \in Seq(Nat) : got = client.got
  BY DEF ClientTyped
<1>2. /\ client'.got = got \o new /\ new \in Seq(Nat)
      /\ \A k \in 1..Len(new) : \E i \in DOMAIN x.events :
            new[k] = x.events[i].id /\ x.events[i].seq > client.since
      /\ \A j, k \in 1..Len(new) : j < k => new[j] < new[k]
  BY <1>1 DEF Sends
<1>3. /\ \A i, j \in 1..Len(got) : i < j => got[i] < got[j]
      /\ \A i \in 1..Len(got) : got[i] <= m
  BY <1>1 DEF InOrder
<1>4. \A k \in 1..Len(new) : new[k] <= m /\ \A i \in 1..Len(got) : got[i] < new[k]
  <2> SUFFICES ASSUME NEW k \in 1..Len(new)
               PROVE  new[k] <= m /\ \A i \in 1..Len(got) : got[i] < new[k]
    OBVIOUS
  <2>1. PICK i \in DOMAIN x.events : new[k] = x.events[i].id /\ x.events[i].seq > client.since
    BY <1>2
  <2>2. x.events[i].id <= m /\ \A j \in DOMAIN client.got : client.got[j] < x.events[i].id
    BY <2>1, SessionFacts DEF Ahead
  <2> QED BY <1>1, <2>1, <2>2
<1>5. PICK all \in Seq(Nat) : all = client'.got /\ all = got \o new
  <2>1. \A u, v \in Seq(Nat) : u \o v \in Seq(Nat)
    OBVIOUS
  <2> QED BY <1>2, <2>1
<1>6. /\ Len(all) = Len(got) + Len(new) /\ Len(got) \in Nat /\ Len(new) \in Nat
      /\ \A i \in 1..Len(got) : all[i] = got[i]
      /\ \A i \in 1..Len(all) : i > Len(got) => /\ i - Len(got) \in 1..Len(new)
                                                /\ all[i] = new[i - Len(got)]
  BY <1>2, <1>5
<1>7. ASSUME NEW i \in 1..Len(all) PROVE all[i] <= m
  <2>1. CASE i > Len(got)
    BY <1>4, <1>6, <2>1
  <2>2. CASE ~(i > Len(got))
    <3>1. i \in 1..Len(got)
      BY <1>6, <2>2
    <3> QED BY <1>3, <1>6, <3>1
  <2> QED BY <2>1, <2>2
<1>8. ASSUME NEW i \in 1..Len(all), NEW j \in 1..Len(all), i < j PROVE all[i] < all[j]
  <2>1. CASE i > Len(got)
    <3>1. j > Len(got) /\ i - Len(got) < j - Len(got)
      BY <1>6, <1>8, <2>1
    <3>2. /\ i - Len(got) \in 1..Len(new) /\ j - Len(got) \in 1..Len(new)
          /\ all[i] = new[i - Len(got)] /\ all[j] = new[j - Len(got)]
      BY <1>6, <2>1, <3>1
    <3> QED BY <1>2, <3>1, <3>2
  <2>2. CASE ~(i > Len(got)) /\ j > Len(got)
    <3>1. i \in 1..Len(got) /\ all[i] = got[i]
      <4>1. i \in 1..Len(got)
        BY <1>6, <2>2
      <4> QED BY <1>6, <4>1
    <3>2. j - Len(got) \in 1..Len(new) /\ all[j] = new[j - Len(got)]
      BY <1>6, <2>2
    <3> QED BY <1>4, <3>1, <3>2
  <2>3. CASE ~(i > Len(got)) /\ ~(j > Len(got))
    <3>1. i \in 1..Len(got) /\ j \in 1..Len(got)
      BY <1>6, <2>3
    <3> QED BY <1>3, <1>6, <1>8, <3>1
  <2> QED BY <2>1, <2>2, <2>3
<1>9. DOMAIN all = 1..Len(all)
  BY <1>5
<1> QED BY <1>5, <1>7, <1>8, <1>9

LEMMA PollOrder ==
  ASSUME IInv, Roles, ClientTyped, InOrder, Poll PROVE InOrder'
<1>1. /\ Up /\ client.pc = "open" /\ UNCHANGED <<phase, memory, disk, counts, log, image>>
  BY DEF Poll, Roles, Up
<1>2. UNCHANGED <<apps, current, serving, exec, select, save, disk, counts>>
  BY <1>1 DEF memory
<1>3. CASE Served # Path(Home)
  <2>1. client' = [client EXCEPT !.pc = "closed"]
    BY <1>3 DEF Poll, Served
  <2>2. client'.since = client.since /\ client'.got = client.got
    BY <2>1 DEF ClientTyped
  <2> QED BY <1>2, <2>2, OrderKept DEF InUse, InSwitch
<1>4. CASE Served = Path(Home)
  <2>1. PICK x : x = Session
    OBVIOUS
  <2>2. PICK new : Sends(x, new)
    BY <1>4, <2>1, PollSends
  <2>3. PICK m \in Nat : m = counts.events
    <3>1. counts.events \in Nat
      BY Constants DEF IInv, Typed
    <3> QED BY <3>1
  <2>4. x \in SessionsAt(m) /\ serving \in DOMAIN apps
    BY <1>1, <2>1, <2>3, ServedTyped
  <2>5. Ahead(x)
    BY <1>4, <2>1, <2>4 DEF InOrder, InUse, Served, Session
  <2>6. /\ \A i, j \in DOMAIN client'.got : i < j => client'.got[i] < client'.got[j]
        /\ \A i \in DOMAIN client'.got : client'.got[i] <= m
    BY <2>2, <2>3, <2>4, <2>5, SentInOrder
  <2>7. ASSUME NEW y \in SessionsAt(m), Below(y, x), Ahead(y) PROVE Ahead(y)'
    BY <2>2, <2>4, <2>7, SentAhead
  <2>8. \A y \in Versions(disk[Path(Home)]) : Ahead(y)'
    <3>1. ASSUME NEW y \in Versions(disk[Path(Home)]) PROVE Ahead(y)'
      <4>1. y \in SessionsAt(m)
        BY <2>3, <3>1, VersionsTyped, Constants
      <4>2. Ahead(y) /\ Below(y, x)
        BY <1>4, <2>1, <2>4, <3>1 DEF InOrder, InUse, Served, Session
      <4> QED BY <2>7, <4>1, <4>2
    <3> QED BY <3>1
  <2>9. save.pc # "none" => Ahead(save.image)'
    <3>1. ASSUME save.pc # "none" PROVE Ahead(save.image)'
      <4>1. SavePath = Path(Home) /\ save.image \in SessionsAt(m)
        BY <1>4, <2>3, <3>1 DEF Roles, SavePath, Served, IInv, Typed, SaveOK
      <4>2. Ahead(save.image) /\ Below(save.image, x)
        BY <2>1, <3>1, <4>1 DEF InOrder
      <4>3. PICK y \in SessionsAt(m) : y = save.image
        BY <4>1
      <4>4. Ahead(y)'
        BY <2>7, <4>2, <4>3
      <4> QED BY <1>2, <4>3, <4>4 DEF Ahead
    <3> QED BY <3>1
  <2>10. ASSUME NEW a \in DOMAIN apps, InUse(a), Path(apps[a].ws) = Path(Home)
         PROVE  Ahead(apps[a].session)'
    <3>1. a = serving
      BY <1>4, <2>10 DEF InUse, InSwitch, Roles
    <3>2. apps[a].session = x
      BY <2>1, <3>1 DEF Session
    <3>3. Ahead(x)'
      BY <2>4, <2>5, <2>7, SelfBelow
    <3> QED BY <1>2, <3>2, <3>3 DEF Ahead
  <2>11. /\ \A a : InUse(a)' <=> InUse(a)
         /\ SavePath' = SavePath /\ Session' = Session
    BY <1>2 DEF InUse, InSwitch, SavePath, Session
  <2>12. (\A y \in Versions(disk[Path(Home)]) : Ahead(y))'
    BY <1>2, <2>8 DEF Versions, Path, Ahead
  <2>13. (save.pc # "none" /\ SavePath = Path(Home) => Ahead(save.image))'
    BY <1>2, <2>9 DEF Ahead
  <2>14. (\A a \in DOMAIN apps : InUse(a) /\ Path(apps[a].ws) = Path(Home)
                                 => Ahead(apps[a].session))'
    BY <1>2, <2>10, <2>11 DEF Path, Ahead
  <2>15. (\A a \in DOMAIN apps : InUse(a) =>
             \A y \in Versions(disk[Path(apps[a].ws)]) : Below(y, apps[a].session))'
    BY <1>2, <2>11 DEF InOrder, Path, Versions, Below, NextSeq
  <2>16. (save.pc # "none" => Below(save.image, Session))'
    BY <1>2, <2>11 DEF InOrder, Below, NextSeq
  <2> QED BY <1>2, <2>3, <2>6, <2>12, <2>13, <2>14, <2>15, <2>16 DEF InOrder
<1> QED BY <1>3, <1>4

\* A switch that gets the mutexes, ends its Save, or takes over.
LEMMA SwitchOrder ==
  ASSUME IInv, Roles, ClientTyped, InOrder, NEW s \in Selectors,
         AskSelect(s) \/ LockSelect(s) \/ SavedSelect(s) \/ ServeSelect(s)
  PROVE  InOrder'
<1>1. PICK r : /\ select' = [select EXCEPT ![s] = r]
               /\ r.pc \in Booting => select[s].pc \in Booting /\ r.app = select[s].app
  <2>1. CASE AskSelect(s)
    <3>1. PICK w \in Workspaces :
             select' = [select EXCEPT ![s] = [pc |-> "asked", workspace |-> w, app |-> None]]
      BY <2>1 DEF AskSelect
    <3> DEFINE r == [pc |-> "asked", workspace |-> w, app |-> None]
    <3>2. r.pc = "asked"
      OBVIOUS
    <3> HIDE DEF r
    <3> QED BY <2>1, <3>1, <3>2 DEF AskSelect, Booting, r
  <2>2. CASE LockSelect(s)
    <3> DEFINE r == [select[s] EXCEPT !.pc = "locked"]
    <3>1. \/ select' = [select EXCEPT ![s] = Idle]
          \/ select' = [select EXCEPT ![s] = r]
      BY <2>2 DEF LockSelect
    <3>2. r.pc = "locked" /\ Idle.pc = "idle"
      BY SelectTyped, IdlePc DEF IInv, Typed, SelectPcs
    <3> HIDE DEF r
    <3> QED BY <2>2, <3>1, <3>2 DEF LockSelect, Booting
  <2>3. CASE SavedSelect(s)
    <3> DEFINE r == [select[s] EXCEPT !.pc = "saved"]
    <3>1. /\ select[s].pc = "saving"
          /\ \/ select' = [select EXCEPT ![s] = Idle]
             \/ select' = [select EXCEPT ![s] = r]
      BY <2>3 DEF SavedSelect
    <3>2. r.pc = "saved" /\ r.app = select[s].app /\ Idle.pc = "idle"
      BY SelectTyped, IdlePc DEF IInv, Typed, SelectPcs
    <3> HIDE DEF r
    <3> QED BY <3>1, <3>2 DEF Booting
  <2>4. CASE ServeSelect(s)
    BY <2>4, IdlePc DEF ServeSelect, Booting
  <2> QED BY <2>1, <2>2, <2>3, <2>4
<1>2. select'[s] = r /\ \A t \in Selectors \ {s} : select'[t] = select[t]
  BY <1>1, OthersKept
<1>3. \A a : InSwitch(a)' => InSwitch(a)
  BY <1>1, <1>2 DEF InSwitch
<1>4. UNCHANGED <<apps, disk, client, counts>>
  BY DEF AskSelect, LockSelect, SavedSelect, ServeSelect
<1>5. CASE ServeSelect(s)
  <2>1. select[s].pc = "saved" /\ serving' = select[s].app /\ save' = save
    BY <1>5 DEF ServeSelect
  <2>2. save.pc = "none" /\ \A a : InUse(a)' => InUse(a)
    BY <1>3, <2>1 DEF Roles, InUse, InSwitch, Booting
  <2> QED BY <1>4, <2>1, <2>2, OrderKept
<1>6. CASE ~ServeSelect(s)
  <2>1. serving' = serving /\ (save'.pc # "none" => save' = save)
    BY <1>6 DEF AskSelect, LockSelect, SavedSelect, NoSave
  <2>2. \A a : InUse(a)' => InUse(a)
    BY <1>3, <2>1 DEF InUse
  <2> QED BY <1>4, <2>1, <2>2, OrderKept
<1> QED BY <1>5, <1>6

LEMMA SaveSelectOrder ==
  ASSUME IInv, Roles, ClientTyped, InOrder, NEW s \in Selectors, SaveSelect(s) PROVE InOrder'
<1> DEFINE r == [select[s] EXCEPT !.pc = "saving"]
<1>1. /\ select[s].pc = "booted" /\ select' = [select EXCEPT ![s] = r] /\ BeginSave(current, s)
      /\ UNCHANGED <<apps, serving, disk, client, counts>>
  BY DEF SaveSelect
<1>2. r.pc = "saving" /\ r.app = select[s].app
  BY SelectTyped DEF IInv, Typed, SelectPcs
<1> HIDE DEF r
<1>3. select'[s] = r /\ \A t \in Selectors \ {s} : select'[t] = select[t]
  BY <1>1, OthersKept
<1>4. \A a : InUse(a)' => InUse(a)
  BY <1>1, <1>2, <1>3 DEF InUse, InSwitch, Booting
<1>5. Up /\ \A t \in Selectors : select[t].pc # "saved"
  BY <1>1, OneLocks DEF Locking, Booting, Up
<1> QED BY <1>1, <1>4, <1>5, BeginSaveOrder

LEMMA BootOrder ==
  ASSUME IInv, Roles, SwitchesAway, ClientTyped, InOrder, NEW s \in Selectors, BootSelect(s)
  PROVE  InOrder'
<1>1. PICK p : p = Path(select[s].workspace)
  OBVIOUS
<1>2. PICK k \in Nat : k = counts.events
  <2>1. counts.events \in Nat
    BY Constants DEF IInv, Typed
  <2> QED BY <2>1
<1>3. /\ select[s].pc = "locked" /\ p # Served /\ p \in Paths /\ save.pc = "none"
      /\ UNCHANGED <<serving, save, client, counts>> /\ disk' = [disk EXCEPT ![p] = Migrated(@)]
  BY <1>1, ServedTyped, NobodySaves, Constants DEF BootSelect, SwitchesAway
<1>4. /\ disk[p] \in FilesAt(k) /\ disk'[p] = Migrated(disk[p])
      /\ \A q \in Paths \ {p} : disk'[q] = disk[q]
  BY <1>2, <1>3 DEF IInv, Typed, DiskOK
<1>5. CASE LoadRefuses(disk[p])
  <2>1. disk' = disk
    BY <1>3, <1>5 DEF Migrated, IInv, Typed, DiskOK
  <2>2. select' = [select EXCEPT ![s] = Idle] /\ UNCHANGED apps
    BY <1>1, <1>5 DEF BootSelect
  <2>3. select'[s].pc = "idle" /\ \A t \in Selectors \ {s} : select'[t] = select[t]
    BY <2>2, IdlePc, OthersKept
  <2>4. \A a : InUse(a)' => InUse(a)
    BY <1>3, <2>3 DEF InUse, InSwitch, Booting
  <2> QED BY <1>3, <2>1, <2>2, <2>4, OrderKept
<1>6. CASE ~LoadRefuses(disk[p])
  <2>1. PICK n : n = Len(apps) + 1
    OBVIOUS
  <2>2. PICK d : d = Loaded(disk[p])
    OBVIOUS
  <2>a. /\ \A t \in Selectors : t # s => select[t].pc \in {"idle", "asked"}
        /\ DOMAIN apps' = DOMAIN apps \cup {n} /\ n \notin DOMAIN apps
        /\ \A b \in DOMAIN apps : apps'[b] = apps[b]
        /\ apps'[n].ws = select[s].workspace /\ apps'[n].session = Loaded(disk[p])
        /\ select'[s].pc = "booted" /\ select'[s].app = n
        /\ \A t \in Selectors \ {s} : select'[t] = select[t]
    <3>1. /\ \A t \in Selectors : t # s => select[t].pc \in {"idle", "asked"}
          /\ DOMAIN apps' = DOMAIN apps \cup {n} /\ n \notin DOMAIN apps
          /\ \A b \in DOMAIN apps : apps'[b] = apps[b]
      BY <1>1, <1>6, <2>1, BootLoads, ZenonT(60)
    <3>2. /\ apps'[n].ws = select[s].workspace /\ apps'[n].session = Loaded(disk[p])
          /\ select'[s].pc = "booted" /\ select'[s].app = n
          /\ \A t \in Selectors \ {s} : select'[t] = select[t]
      BY <1>1, <1>6, <2>1, BootLoads, ZenonT(60)
    <3> QED BY <3>1, <3>2
  <2>b. serving \in DOMAIN apps
    <3>1. Up
      BY <1>1, <1>6, <2>1, BootLoads
    <3> QED BY <3>1, ServedTyped
  <2>3. /\ \A t \in Selectors : t # s => select[t].pc \in {"idle", "asked"}
        /\ DOMAIN apps' = DOMAIN apps \cup {n} /\ n \notin DOMAIN apps
        /\ \A b \in DOMAIN apps : apps'[b] = apps[b]
        /\ apps'[n].ws = select[s].workspace /\ apps'[n].session = d
        /\ select'[s].pc = "booted" /\ select'[s].app = n
        /\ \A t \in Selectors \ {s} : select'[t] = select[t]
        /\ serving \in DOMAIN apps
    BY <2>2, <2>a, <2>b
  <2>4. /\ d \in SessionsAt(k) /\ (d = EmptySession \/ d \in Versions(disk[p]))
        /\ \A y \in Versions(disk'[p]) : Below(y, d)
        /\ \A y \in Versions(disk'[p]) : y = EmptySession \/ Compacted(y) = Compacted(d)
        /\ \A y \in Versions(disk'[p]) : y \in SessionsAt(k)
    BY <1>4, <1>6, <2>2, LoadAhead, LoadedOK
  <2>5. p = Path(Home) => Ahead(d)
    BY <2>4, EmptyAhead DEF InOrder
  <2>6. \A y \in Versions(disk'[Path(Home)]) : Ahead(y)
    <3>1. CASE p = Path(Home)
      BY <2>4, <2>5, <3>1, EmptyAhead, CompactedAhead
    <3>2. CASE p # Path(Home)
      BY <1>4, <3>2, Constants DEF InOrder
    <3> QED BY <3>1, <3>2
  <2>7. ASSUME NEW a \in DOMAIN apps', InUse(a)'
        PROVE  /\ Path(apps'[a].ws) = Path(Home) => Ahead(apps'[a].session)
               /\ \A y \in Versions(disk'[Path(apps'[a].ws)]) : Below(y, apps'[a].session)
    <3>1. CASE a = n
      <4>1. apps'[a].session = d /\ Path(apps'[a].ws) = p
        BY <1>1, <2>3, <3>1
      <4> QED BY <2>4, <2>5, <4>1
    <3>2. CASE a # n
      <4>1. a = serving
        BY <1>3, <2>3, <2>7, <3>2 DEF InUse, InSwitch, Booting
      <4>2. a \in DOMAIN apps /\ apps'[a] = apps[a] /\ InUse(a) /\ Path(apps[a].ws) = Served
            /\ Path(apps[a].ws) \in Paths
        BY <2>3, <4>1, ServedTyped DEF InUse, Served
      <4>3. disk'[Path(apps[a].ws)] = disk[Path(apps[a].ws)]
        BY <1>3, <1>4, <4>2
      <4> QED BY <4>2, <4>3 DEF InOrder
    <3> QED BY <3>1, <3>2
  <2> QED BY <1>3, <2>6, <2>7, OrderStep
<1> QED BY <1>5, <1>6

LEMMA NextOrder ==
  ASSUME IInv, Roles, SwitchesAway, ClientTyped, InOrder, [Next]_vars PROVE InOrder'
<1>1. CASE Start
  BY <1>1, StartOrder
<1>2. CASE Crash \/ Exit
  <2>1. ForgetMemory /\ UNCHANGED disk /\ counts'.events = counts.events
    BY <1>2 DEF Crash, Exit, IInv, Typed
  <2> QED BY <2>1, ForgetOrder
<1>3. CASE Stop
  <2>1. /\ phase = "up" /\ \A s \in Selectors : select[s].pc = "idle"
        /\ BeginSave(current, "main") /\ UNCHANGED <<apps, serving, select, disk, client, counts>>
    BY <1>3 DEF Stop
  <2> QED BY <2>1, BeginSaveOrder DEF Up, InUse, InSwitch
<1>4. CASE Saving
  BY <1>4, SavingOrder
<1>5. CASE BeginRun
  BY <1>5, BeginRunOrder
<1>6. CASE AppendEvent \/ EndRun
  BY <1>6, RecordOrder DEF AppendEvent, EndRun, RunStates
<1>7. CASE Poll
  BY <1>7, PollOrder
<1>8. CASE Follow \/ Disconnect
  <2>1. UNCHANGED <<apps, serving, select, save, disk, counts>>
        /\ client'.since = client.since /\ client'.got = client.got
    BY <1>8 DEF Follow, Disconnect, memory, ClientTyped
  <2> QED BY <2>1, OrderKept DEF InUse, InSwitch
<1>9. CASE \E s \in Selectors : \/ AskSelect(s) \/ LockSelect(s) \/ BootSelect(s)
                               \/ SaveSelect(s) \/ SavedSelect(s) \/ ServeSelect(s)
  BY <1>9, SwitchOrder, BootOrder, SaveSelectOrder
<1>10. CASE UNCHANGED vars
  BY <1>10, OrderKept DEF vars, InUse, InSwitch
<1> QED BY <1>1, <1>2, <1>3, <1>4, <1>5, <1>6, <1>7, <1>8, <1>9, <1>10 DEF Next

------------------------------------------------------------------------------
(* What is behind the client's cursor was sent to it                       *)

\* The client has every event of x up to its cursor, and x goes on behind the cursor.
Told(x) ==
    /\ \A i \in DOMAIN x.events : x.events[i].seq <= client.since =>
          \E k \in DOMAIN client.got : client.got[k] = x.events[i].id
    /\ client.since < NextSeq(x.events)

\* A session that is no longer used: it recorded nothing, or its run is over and
\* its events are those of y.
Closed(x, y) ==
    \/ x.events = <<>>
    \/ /\ y.run = "completed"
       /\ \A i \in DOMAIN x.events : \E j \in DOMAIN y.events :
             y.events[j].seq = x.events[i].seq /\ y.events[j].id = x.events[i].id

SeenNow ==
    /\ Told(Live(Path(Home)))
    /\ phase = "stopping" /\ Served = Path(Home) => Told(save.image)
    /\ \A a \in DOMAIN apps : Path(apps[a].ws) = Path(Home) /\ ~InUse(a) =>
          Closed(apps[a].session, Live(Path(Home)))

LEMMA SameTold ==
  ASSUME NEW n \in Nat, NEW x \in SessionsAt(n), NEW y \in SessionsAt(n),
         Compacted(x) = Compacted(y)
  PROVE  /\ NextSeq(x.events) = NextSeq(y.events)
         /\ Told(x) => Told(y)
         /\ \A z : Closed(z, x) => Closed(z, y)
<1>1. /\ x.run = y.run /\ DOMAIN x.events = DOMAIN y.events /\ Len(x.events) = Len(y.events)
      /\ \A i \in DOMAIN x.events : /\ x.events[i].seq = y.events[i].seq
                                    /\ x.events[i].id = y.events[i].id
  BY CompactSame
<1>2. NextSeq(x.events) = NextSeq(y.events)
  <2>1. \A z \in SessionsAt(n) : z.events \in Seq(Events) /\ DOMAIN z.events = 1..Len(z.events)
                                 /\ Len(z.events) \in Nat
    BY SessionFacts
  <2>2. CASE Len(x.events) = 0
    <3>1. x.events = <<>> /\ y.events = <<>>
      BY <1>1, <2>1, <2>2
    <3> QED BY <3>1
  <2>3. CASE Len(x.events) # 0
    <3>1. Len(x.events) \in DOMAIN x.events
      BY <2>1, <2>3
    <3>2. /\ NextSeq(x.events) = x.events[Len(x.events)].seq + 1
          /\ NextSeq(y.events) = y.events[Len(y.events)].seq + 1
      BY <1>1, <2>3, NextSeqLast
    <3>3. x.events[Len(x.events)].seq = y.events[Len(y.events)].seq
      BY <1>1, <3>1
    <3> QED BY <3>2, <3>3
  <2> QED BY <2>2, <2>3
<1>3. Told(x) => Told(y)
  BY <1>1, <1>2 DEF Told
<1>4. \A z : Closed(z, x) => Closed(z, y)
  BY <1>1 DEF Closed
<1> QED BY <1>2, <1>3, <1>4

LEMMA SelfClosed ==
  ASSUME NEW n \in Nat, NEW x \in SessionsAt(n), NEW y \in SessionsAt(n),
         Compacted(x) = Compacted(y), x.run \in {"none", "completed"}
  PROVE  Closed(x, y)
<1>1. /\ x.run = y.run /\ DOMAIN x.events = DOMAIN y.events
      /\ \A i \in DOMAIN x.events : /\ x.events[i].seq = y.events[i].seq
                                    /\ x.events[i].id = y.events[i].id
  BY CompactSame
<1>2. x.run = "none" => x.events = <<>>
  BY SessionFacts
<1> QED BY <1>1, <1>2 DEF Closed

LEMMA InitSeen == Init => SeenNow
<1> SUFFICES ASSUME Init PROVE SeenNow
  OBVIOUS
<1>1. client.since = 0 /\ apps = <<>> /\ phase = "down"
  BY DEF Init
<1>2. PICK x \in SessionsAt(MaxEvents) : x = Live(Path(Home))
  BY InitOK, LiveOK, Constants DEF LiveTyped
<1>3. \A i \in DOMAIN x.events : x.events[i].seq \in Nat /\ x.events[i].seq >= 1
  <2>1. MaxEvents \in Nat
    BY Constants
  <2>2. \A i \in DOMAIN x.events : x.events[i].seq \in 1..MaxEvents
    BY <2>1, SessionFacts
  <2> QED BY <2>1, <2>2
<1>4. NextSeq(x.events) \in Nat \ {0}
  BY Constants, NextSeqLast
<1>5. Told(x)
  BY <1>1, <1>3, <1>4 DEF Told
<1> QED BY <1>1, <1>2, <1>5 DEF SeenNow

\* A step that neither sends nor records.
LEMMA SeenStep ==
  ASSUME SeenNow, client'.since = client.since, client'.got = client.got,
         NEW x \in SessionsAt(MaxEvents), x = Live(Path(Home)),
         NEW y \in SessionsAt(MaxEvents), y = Live(Path(Home))', Compacted(x) = Compacted(y),
         phase' = "stopping" /\ Served' = Path(Home) => Told(save'.image),
         \A a \in DOMAIN apps' : Path(apps'[a].ws) = Path(Home) /\ ~InUse(a)' =>
            Closed(apps'[a].session, x)
  PROVE  SeenNow'
<1>1. Told(x) /\ MaxEvents \in Nat
  BY Constants DEF SeenNow
<1>2. Told(y) /\ \A z : Closed(z, x) => Closed(z, y)
  BY <1>1, SameTold
<1>3. \A z : Told(z) => Told(z)'
  BY DEF Told, NextSeq
<1>4. Told(y)'
  BY <1>2, <1>3
<1>5. phase' = "stopping" /\ Served' = Path(Home) => Told(save.image)'
  BY <1>3 DEF Told, NextSeq
<1>6. \A a \in DOMAIN apps' : Path(apps'[a].ws) = Path(Home) /\ ~InUse(a)' =>
         Closed(apps'[a].session, y)
  BY <1>2
<1> QED BY <1>4, <1>5, <1>6 DEF SeenNow, Path, Closed, Told, NextSeq

\* A switch that goes on keeps its application in use.
LEMMA StaysInUse ==
  ASSUME NEW s \in Selectors, serving' = serving,
         \A t \in Selectors \ {s} : select'[t] = select[t],
         select[s].pc \in Booting => select'[s].pc \in Booting /\ select'[s].app = select[s].app
  PROVE  \A a : InUse(a) => InUse(a)'
<1>1. ASSUME NEW a, NEW t \in Selectors, select[t].pc \in Booting, select[t].app = a
      PROVE  InSwitch(a)'
  <2>1. CASE t = s
    BY <1>1, <2>1 DEF InSwitch, Booting
  <2>2. CASE t # s
    BY <1>1, <2>2 DEF InSwitch, Booting
  <2> QED BY <2>1, <2>2
<1> QED BY <1>1 DEF InUse, InSwitch

\* What a step that is not Home's run leaves unused is closed.
LEMMA UnusedStep ==
  ASSUME IInv, Roles, Copies, SeenNow, NothingFailed, [Next]_vars,
         ~(BeginRun \/ AppendEvent \/ EndRun \/ Exit \/ Crash),
         NEW x, x = Live(Path(Home))
  PROVE  \A a \in DOMAIN apps' : Path(apps'[a].ws) = Path(Home) /\ ~InUse(a)' =>
            Closed(apps'[a].session, x)
<1>1. \A a \in DOMAIN apps : Path(apps[a].ws) = Path(Home) /\ ~InUse(a) =>
         Closed(apps[a].session, x)
  BY DEF SeenNow
<1>2. CASE Start
  <2>1. CASE LoadRefuses(disk[Path(Home)])
    <3>1. UNCHANGED <<apps, serving, select>>
      BY <1>2, <2>1 DEF Start
    <3> QED BY <1>1, <3>1 DEF InUse, InSwitch
  <2>2. CASE ~LoadRefuses(disk[Path(Home)])
    <3>1. serving' = 1 /\ DOMAIN apps' = {1}
      BY <1>2, <2>2 DEF Start
    <3> QED BY <3>1 DEF InUse
  <2> QED BY <2>1, <2>2
<1>3. CASE \E s \in Selectors : ServeSelect(s)
  <2>1. PICK s \in Selectors : ServeSelect(s)
    BY <1>3
  <2>2. /\ Up /\ ~Blocked /\ serving' = select[s].app /\ apps' = apps
        /\ serving \in DOMAIN apps
        /\ \A t \in Selectors : t # s => select[t].pc \in {"idle", "asked"}
    BY <2>1, ServeEffect
  <2>3. ASSUME NEW a \in DOMAIN apps, Path(apps[a].ws) = Path(Home), ~InUse(a)'
        PROVE  Closed(apps[a].session, x)
    <3>1. CASE a = serving
      <4>1. x = Session /\ x = apps[a].session
        BY <2>2, <2>3, <3>1 DEF Live, Served, Session
      <4>2. PICK k \in Nat : k = counts.events
        <5>1. counts.events \in Nat
          BY Constants DEF IInv, Typed
        <5> QED BY <5>1
      <4>3. x \in SessionsAt(k)
        BY <2>2, <4>1, <4>2, ServedTyped
      <4>4. x.run \in {"none", "completed"}
        BY <2>2, <4>1, <4>2, <4>3, SessionFacts DEF Blocked, RunStates
      <4> QED BY <4>1, <4>2, <4>3, <4>4, SelfClosed
    <3>2. CASE a # serving
      <4>1. ~InUse(a)
        BY <2>2, <2>3, <3>2 DEF InUse, InSwitch, Booting
      <4> QED BY <1>1, <2>3, <4>1
    <3> QED BY <3>1, <3>2
  <2> QED BY <2>2, <2>3
<1>4. CASE \E s \in Selectors : BootSelect(s)
  <2>1. PICK s \in Selectors : BootSelect(s)
    BY <1>4
  <2>2. PICK n : n = Len(apps) + 1
    OBVIOUS
  <2>3. /\ UNCHANGED serving /\ select[s].pc = "locked"
        /\ DOMAIN apps' = DOMAIN apps \cup {n}
        /\ \A b \in DOMAIN apps : apps'[b] = apps[b]
        /\ select'[s].pc = "booted" /\ select'[s].app = n
        /\ \A t \in Selectors \ {s} : select'[t] = select[t]
    BY <2>1, <2>2, BootEffect
  <2>4. InUse(n)' /\ \A a : InUse(a) => InUse(a)'
    BY <2>3, StaysInUse DEF InUse, InSwitch, Booting
  <2>5. \A a \in DOMAIN apps' : ~InUse(a)' => a \in DOMAIN apps /\ apps'[a] = apps[a] /\ ~InUse(a)
    BY <2>3, <2>4
  <2> QED BY <1>1, <2>5
<1>5. CASE \E s \in Selectors : AskSelect(s) \/ LockSelect(s) \/ SaveSelect(s) \/ SavedSelect(s)
  <2>1. PICK s \in Selectors : AskSelect(s) \/ LockSelect(s) \/ SaveSelect(s) \/ SavedSelect(s)
    BY <1>5
  <2>2. /\ UNCHANGED <<apps, serving>>
        /\ \A t \in Selectors \ {s} : select'[t] = select[t]
        /\ select[s].pc \in Booting =>
              select'[s].pc \in Booting /\ select'[s].app = select[s].app
    <3>1. CASE AskSelect(s) \/ LockSelect(s)
      <4>1. PICK r : select' = [select EXCEPT ![s] = r]
        BY <3>1 DEF AskSelect, LockSelect
      <4> QED BY <3>1, <4>1, OthersKept DEF AskSelect, LockSelect, Booting
    <3>2. CASE SaveSelect(s)
      <4> DEFINE r == [select[s] EXCEPT !.pc = "saving"]
      <4>1. select' = [select EXCEPT ![s] = r] /\ UNCHANGED <<apps, serving>>
        BY <3>2 DEF SaveSelect
      <4>2. r.pc = "saving" /\ r.app = select[s].app
        BY SelectTyped DEF IInv, Typed, SelectPcs
      <4> HIDE DEF r
      <4> QED BY <4>1, <4>2, OthersKept DEF Booting
    <3>3. CASE SavedSelect(s)
      <4>1. /\ UNCHANGED <<apps, serving>>
            /\ select'[s].pc = "saved" /\ select'[s].app = select[s].app
            /\ \A t \in Selectors \ {s} : select'[t] = select[t]
        BY <3>3, SavedEffect
      <4> QED BY <4>1 DEF Booting
    <3> QED BY <2>1, <3>1, <3>2, <3>3
  <2>3. \A a : InUse(a) => InUse(a)'
    BY <2>2, StaysInUse
  <2> QED BY <1>1, <2>2, <2>3
<1>6. CASE Stop \/ Saving \/ Follow \/ Poll \/ Disconnect \/ UNCHANGED vars
  <2>1. UNCHANGED <<apps, serving, select>>
    BY <1>6 DEF Stop, Saving, WriteTemporary, RenameArchive, CopyArchive, FinishCopy,
       TruncateFile, WriteFile, SaveFails, Follow, Poll, Disconnect, vars, memory
  <2> QED BY <1>1, <2>1 DEF InUse, InSwitch
<1> QED BY <1>2, <1>3, <1>4, <1>5, <1>6 DEF Next

LEMMA SameSeen ==
  ASSUME IInv, IInv', Roles, ClientTyped, Copies, SeenNow, NothingFailed, [Next]_vars,
         NothingFailed', ~(BeginRun \/ AppendEvent \/ EndRun \/ Exit),
         Poll => Served # Path(Home)
  PROVE  SeenNow'
<1>0. ~Crash
  BY FailuresStay
<1>1. PICK x \in SessionsAt(MaxEvents) : x = Live(Path(Home))
  BY LiveOK, Constants DEF LiveTyped
<1>2. PICK y \in SessionsAt(MaxEvents) : y = Live(Path(Home))'
  <2>1. (IInv => LiveTyped)'
    BY LiveOK, PTL
  <2> QED BY <2>1, Constants DEF LiveTyped, Paths, Path
<1>3. Compacted(x) = Compacted(y)
  BY <1>1, <1>2, LiveStep, Constants
<1>4. client'.since = client.since /\ client'.got = client.got
  <2>1. CASE Poll
    <3>1. client' = [client EXCEPT !.pc = "closed"]
      BY <2>1 DEF Poll, Served
    <3> QED BY <3>1 DEF ClientTyped
  <2>2. CASE Follow \/ Disconnect
    <3>1. \/ client' = [client EXCEPT !.pc = "closed"]
          \/ client' = [client EXCEPT !.pc = "open"]
      BY <2>2 DEF Follow, Disconnect
    <3> QED BY <3>1 DEF ClientTyped
  <2>3. CASE Start \/ Stop \/ Saving \/ UNCHANGED vars \/ \E s \in Selectors :
               \/ AskSelect(s) \/ LockSelect(s) \/ BootSelect(s)
               \/ SaveSelect(s) \/ SavedSelect(s) \/ ServeSelect(s)
    BY <2>3 DEF Start, Stop, Saving, WriteTemporary, RenameArchive, CopyArchive, FinishCopy,
       TruncateFile, WriteFile, SaveFails, vars,
       AskSelect, LockSelect, BootSelect, SaveSelect, SavedSelect, ServeSelect
  <2> QED BY <1>0, <2>1, <2>2, <2>3 DEF Next
<1>5. phase' = "stopping" /\ Served' = Path(Home) => Told(save'.image)
  <2>1. ASSUME phase' = "stopping", Served' = Path(Home) PROVE Told(save'.image)
    <3>1. CASE Stop
      <4>1. Up /\ save'.image = Session /\ UNCHANGED Served
        BY <3>1, StopSaves
      <4> QED BY <2>1, <4>1 DEF SeenNow, Live
    <3>2. CASE ~Stop
      <4>1. phase = "stopping" /\ save'.image = save.image /\ UNCHANGED <<apps, serving>>
        BY <1>0, <2>1, <3>2, StoppingKept
      <4>2. Served = Path(Home)
        BY <2>1, <4>1 DEF Served, Path
      <4> QED BY <4>1, <4>2 DEF SeenNow
    <3> QED BY <3>1, <3>2
  <2> QED BY <2>1
<1>6. \A a \in DOMAIN apps' : Path(apps'[a].ws) = Path(Home) /\ ~InUse(a)' =>
         Closed(apps'[a].session, x)
  BY <1>0, <1>1, UnusedStep
<1> QED BY <1>1, <1>2, <1>3, <1>4, <1>5, <1>6, SeenStep

\* A run changes its session only; nothing else of Home is used meanwhile.
LEMMA RunSeen ==
  ASSUME IInv, SeenNow, Up, UNCHANGED <<phase, serving, select, save, image>>,
         client'.since = client.since, client'.got = client.got, UNCHANGED Served,
         NEW z, z = Session', Session.run # "completed",
         DOMAIN apps' = DOMAIN apps,
         \A a \in DOMAIN apps \ {serving} : apps'[a] = apps[a],
         Served = Path(Home) => Told(z)
  PROVE  SeenNow'
<1>1. \A q : Told(q) => Told(q)'
  BY DEF Told, NextSeq
<1>2. PICK l : l = Live(Path(Home))'
  OBVIOUS
<1>3. l = IF Served = Path(Home) THEN z ELSE Live(Path(Home))
  BY <1>2 DEF Live, Up, Path
<1>4. Told(l)'
  BY <1>1, <1>3 DEF SeenNow
<1>5. \A a : InUse(a)' <=> InUse(a)
  BY DEF InUse, InSwitch
<1>6. ASSUME NEW a \in DOMAIN apps', Path(apps'[a].ws) = Path(Home), ~InUse(a)'
      PROVE  Closed(apps'[a].session, l)
  <2>1. a \in DOMAIN apps /\ apps'[a] = apps[a] /\ ~InUse(a)
    BY <1>5, <1>6 DEF InUse
  <2>2. Closed(apps[a].session, Live(Path(Home)))
    BY <1>6, <2>1 DEF SeenNow
  <2>3. CASE Served = Path(Home)
    BY <2>1, <2>2, <2>3 DEF Closed, Live
  <2>4. CASE Served # Path(Home)
    BY <1>3, <2>1, <2>2, <2>4
  <2> QED BY <2>3, <2>4
<1>7. phase' = "stopping" /\ Served' = Path(Home) => Told(save.image)'
  BY <1>1 DEF SeenNow
<1> QED BY <1>2, <1>4, <1>5, <1>6, <1>7 DEF SeenNow, Path, Told, NextSeq, Closed

LEMMA BeginRunSeen ==
  ASSUME IInv, ClientTyped, SeenNow, BeginRun PROVE SeenNow'
<1>1. /\ Up /\ UNCHANGED <<phase, serving, select, save, image, client>> /\ UNCHANGED Served
      /\ Session.run # "completed" /\ Session'.events = Session.events
      /\ DOMAIN apps' = DOMAIN apps
      /\ \A a \in DOMAIN apps \ {serving} : apps'[a] = apps[a]
  BY BeginRunEffect
<1>2. PICK z : z = Session'
  OBVIOUS
<1>3. Served = Path(Home) => Told(z)
  BY <1>1, <1>2 DEF SeenNow, Live, Told
<1> QED BY <1>1, <1>2, <1>3, RunSeen

LEMMA RecordSeen ==
  ASSUME IInv, ClientTyped, SeenNow, NEW st \in RunStates \ {"none"}, NEW h, Record(st, h)
  PROVE  SeenNow'
<1>1. PICK n : n = counts.events
  OBVIOUS
<1>2. PICK x : x = Session
  OBVIOUS
<1>3. PICK z : z = Session'
  OBVIOUS
<1>4. /\ n \in Nat /\ Up /\ UNCHANGED <<phase, serving, select, save, client, image>>
      /\ UNCHANGED Served /\ Session.run = "running"
      /\ DOMAIN apps' = DOMAIN apps
      /\ \A a \in DOMAIN apps \ {serving} : apps'[a] = apps[a]
      /\ x \in SessionsAt(n)
      /\ NextSeq(z.events) = NextSeq(x.events) + 1
      /\ \A i \in DOMAIN z.events :
            \/ z.events[i].seq = NextSeq(x.events) /\ z.events[i].id = n + 1
            \/ \E j \in DOMAIN x.events : z.events[i] = x.events[j]
  BY <1>1, <1>2, <1>3, RecordEffect
<1>5. PICK m \in Nat : m = NextSeq(x.events)
  BY <1>4, NextSeqLast
<1>6. PICK since \in Nat : since = client.since
  BY DEF ClientTyped
<1>7. ASSUME Served = Path(Home) PROVE Told(z)
  <2>1. Told(x)
    BY <1>2, <1>4, <1>7 DEF SeenNow, Live
  <2>2. since < m /\ ~(m <= since) /\ since < m + 1
    BY <1>5, <1>6, <2>1 DEF Told
  <2> QED BY <1>4, <1>5, <1>6, <2>1, <2>2 DEF Told
<1> QED BY <1>3, <1>4, <1>7, RunSeen

LEMMA ExitSeen ==
  ASSUME IInv, Roles, ClientTyped, Copies, NothingFailed, SeenNow, Exit PROVE SeenNow'
<1>1. /\ phase = "stopping" /\ Up /\ ~Up' /\ phase' = "stopped"
      /\ image[Served] = save.image /\ apps' = <<>> /\ UNCHANGED image
      /\ client' = [client EXCEPT !.pc = "closed"]
  BY ExitEffect
<1>2. client'.since = client.since /\ client'.got = client.got
  BY <1>1 DEF ClientTyped
<1>3. Told(image[Path(Home)])
  BY <1>1 DEF SeenNow, Live
<1>4. Told(image[Path(Home)])'
  BY <1>1, <1>2, <1>3 DEF Told, NextSeq, Path
<1> QED BY <1>1, <1>4 DEF SeenNow, Live

LEMMA PollSeen ==
  ASSUME IInv, Roles, ClientTyped, SeenNow, Poll, Served = Path(Home) PROVE SeenNow'
<1>1. /\ phase = "up" /\ Up /\ UNCHANGED <<apps, serving, select, phase, image>>
  BY DEF Poll, Roles, Up, memory
<1>2. PICK x : x = Session
  OBVIOUS
<1>3. PICK new : Sends(x, new)
  BY <1>2, PollSends
<1>4. PICK m \in Nat : m = NextSeq(x.events)
  <2>1. counts.events \in Nat
    BY Constants DEF IInv, Typed
  <2> QED BY <1>1, <1>2, <2>1, ServedTyped, NextSeqLast
<1>5. Told(x)
  BY <1>1, <1>2 DEF SeenNow, Live
<1>6. client'.since < m
  <2>1. \A i \in DOMAIN x.events : x.events[i].seq < m
    <3>1. counts.events \in Nat
      BY Constants DEF IInv, Typed
    <3> QED BY <1>1, <1>2, <1>4, <3>1, ServedTyped, NextSeqLast
  <2> QED BY <1>3, <1>4, <1>5, <2>1 DEF Told, Sends
<1>7. PICK got \in Seq(Nat) : got = client.got
  BY DEF ClientTyped
<1>8. new \in Seq(Nat) /\ client'.got = got \o new
  BY <1>3, <1>7 DEF Sends
<1>9. /\ \A k \in DOMAIN got : k \in DOMAIN client'.got /\ client'.got[k] = got[k]
      /\ \A k \in 1..Len(new) : /\ Len(got) + k \in DOMAIN client'.got
                                /\ client'.got[Len(got) + k] = new[k]
  <2>1. Len(got) \in Nat /\ Len(new) \in Nat
    BY <1>7, <1>8
  <2>2. /\ DOMAIN (got \o new) = 1..(Len(got) + Len(new)) /\ DOMAIN got = 1..Len(got)
        /\ \A k \in 1..Len(got) : (got \o new)[k] = got[k]
        /\ \A k \in 1..Len(new) : (got \o new)[Len(got) + k] = new[k]
    BY <1>7, <1>8
  <2> QED BY <1>8, <2>1, <2>2
<1>10. ASSUME NEW i \in DOMAIN x.events, x.events[i].seq <= client'.since
       PROVE  \E k \in DOMAIN client'.got : client'.got[k] = x.events[i].id
  <2>1. CASE x.events[i].seq > client.since
    <3>1. PICK k \in 1..Len(new) : new[k] = x.events[i].id
      BY <1>3, <2>1 DEF Sends
    <3>2. Len(got) + k \in DOMAIN client'.got /\ client'.got[Len(got) + k] = new[k]
      BY <1>9
    <3> QED BY <3>1, <3>2
  <2>2. CASE ~(x.events[i].seq > client.since)
    <3>1. x.events[i].seq \in Nat /\ client.since \in Nat
      <4>1. counts.events \in Nat /\ x \in SessionsAt(counts.events)
        BY <1>1, <1>2, ServedTyped, Constants
      <4> QED BY <4>1, SessionFacts, Constants DEF ClientTyped
    <3>2. x.events[i].seq <= client.since
      BY <2>2, <3>1
    <3> QED BY <1>5, <1>7, <1>9, <3>2 DEF Told
  <2> QED BY <2>1, <2>2
<1>11. Told(x)'
  BY <1>4, <1>6, <1>10 DEF Told, NextSeq
<1>12. Live(Path(Home))' = x /\ Live(Path(Home)) = x
  BY <1>1, <1>2 DEF Live, Up, Served, Session, Path
<1>13. \A a : InUse(a)' <=> InUse(a)
  BY <1>1 DEF InUse, InSwitch
<1> QED BY <1>1, <1>11, <1>12, <1>13 DEF SeenNow, Path, Told, NextSeq, Closed

LEMMA NextSeen ==
  ASSUME IInv, IInv', Roles, ClientTyped, NothingFailed => Copies /\ SeenNow, [Next]_vars,
         NothingFailed'
  PROVE  SeenNow'
<1>0. NothingFailed /\ Copies /\ SeenNow
  BY FailuresStay
<1>1. CASE BeginRun
  BY <1>0, <1>1, BeginRunSeen
<1>2. CASE AppendEvent
  BY <1>0, <1>2, RecordSeen DEF AppendEvent, RunStates
<1>3. CASE EndRun
  BY <1>0, <1>3, RecordSeen DEF EndRun, RunStates
<1>4. CASE Exit
  BY <1>0, <1>4, ExitSeen
<1>5. CASE Poll /\ Served = Path(Home)
  BY <1>0, <1>5, PollSeen
<1> QED BY <1>0, <1>1, <1>2, <1>3, <1>4, <1>5, SameSeen

\* Applications are there while the process is up.
Started == Up \/ apps = <<>>

LEMMA NextStarted == IInv /\ Started /\ [Next]_vars => Started'
<1> SUFFICES ASSUME IInv, Started, [Next]_vars PROVE Started'
  OBVIOUS
<1>1. CASE Start
  BY <1>1 DEF Start, Started, Up
<1>2. CASE Crash \/ Exit
  BY <1>2 DEF Crash, Exit, ForgetMemory, Started
<1>3. CASE Stop \/ Follow \/ Poll \/ Disconnect \/ UNCHANGED vars
  BY <1>3 DEF Stop, Follow, Poll, Disconnect, vars, memory, Started, Up
<1>4. CASE Saving
  BY <1>4 DEF Saving, WriteTemporary, RenameArchive, CopyArchive, FinishCopy, TruncateFile,
     WriteFile, SaveFails, Started, Up
<1>5. CASE BeginRun \/ AppendEvent \/ EndRun
  <2>1. exec = Runner \/ phase = "up"
    BY <1>5 DEF BeginRun, AppendEvent, EndRun, Record
  <2>2. Up
    BY <2>1, Constants DEF IInv, Typed, Control, Running, Up, Nobody, Runner
  <2>3. phase' = phase
    BY <1>5 DEF BeginRun, AppendEvent, EndRun, Record
  <2> QED BY <2>2, <2>3 DEF Started, Up
<1>6. CASE \E s \in Selectors : \/ AskSelect(s) \/ LockSelect(s) \/ BootSelect(s)
                               \/ SaveSelect(s) \/ SavedSelect(s) \/ ServeSelect(s)
  <2>1. phase' = phase /\ phase = "up"
    BY <1>6 DEF AskSelect, LockSelect, BootSelect, SaveSelect, SavedSelect, ServeSelect,
       IInv, Control, Switching
  <2> QED BY <2>1 DEF Started, Up
<1> QED BY <1>1, <1>2, <1>3, <1>4, <1>5, <1>6 DEF Next

\* With nobody switching to the path that is served, the client gets everything.
DeliveryInv ==
    /\ IInv /\ Roles /\ ClientTyped /\ InOrder /\ Started
    /\ NothingFailed => Copies /\ SeenNow

LEMMA DeliveryInit == Init => DeliveryInv
BY InitOK, InitRoles, InitClient, InitOrder, InitCopies, InitSeen
   DEF DeliveryInv, Init, Started

LEMMA DeliveryStep == DeliveryInv /\ SwitchesAway /\ [Next]_vars => DeliveryInv'
<1> SUFFICES ASSUME DeliveryInv, SwitchesAway, [Next]_vars PROVE DeliveryInv'
  OBVIOUS
<1>1. /\ IInv /\ Roles /\ ClientTyped /\ InOrder /\ Started
      /\ NothingFailed => Copies /\ SeenNow
  BY DEF DeliveryInv
<1>2. IInv' /\ Roles' /\ ClientTyped' /\ InOrder' /\ Started'
  BY <1>1, NextOK, NextRoles, NextClient, NextOrder, NextStarted
<1>3. NothingFailed' => Copies' /\ SeenNow'
  BY <1>1, <1>2, NextCopies, NextSeen
<1> QED BY <1>2, <1>3 DEF DeliveryInv

LEMMA DeliveryGives == DeliveryInv => StreamDelivers
<1> SUFFICES ASSUME DeliveryInv PROVE StreamDelivers
  OBVIOUS
<1>1. \A i, j \in DOMAIN client.got : i < j => client.got[i] < client.got[j]
  BY DEF DeliveryInv, InOrder
<1>2. ASSUME NothingFailed, NEW a \in DOMAIN apps, Path(apps[a].ws) = Path(Home),
             NEW i \in DOMAIN apps[a].session.events,
             apps[a].session.events[i].seq <= client.since
      PROVE  apps[a].session.events[i].id \in Range(client.got)
  <2>1. IInv /\ Roles /\ Copies /\ SeenNow /\ Up
    BY <1>2 DEF DeliveryInv, Started
  <2>2. PICK x : x = apps[a].session
    OBVIOUS
  <2>3. PICK y : y = Live(Path(Home))
    OBVIOUS
  <2>4. Told(y)
    BY <2>1, <2>3 DEF SeenNow
  <2>5. \E k \in DOMAIN client.got : client.got[k] = x.events[i].id
    <3>1. CASE a = serving
      <4>1. x = y
        BY <1>2, <2>1, <2>2, <2>3, <3>1 DEF Live, Served, Session
      <4> QED BY <1>2, <2>2, <2>4, <4>1 DEF Told
    <3>2. CASE InSwitch(a)
      <4>1. Path(Home) # Served /\ Compacted(x) = Compacted(image[Path(Home)])
        BY <1>2, <2>1, <2>2, <3>2 DEF InSwitch, Roles, Copies
      <4>2. y = image[Path(Home)]
        BY <2>3, <4>1 DEF Live
      <4>3. PICK k \in Nat : k = counts.events
        <5>1. counts.events \in Nat
          BY <2>1, Constants DEF IInv, Typed
        <5> QED BY <5>1
      <4>4. x \in SessionsAt(k) /\ y \in SessionsAt(k)
        BY <2>1, <2>2, <4>2, <4>3, ServedTyped, Constants DEF IInv, Typed, ImageOK
      <4>5. Told(x)
        BY <2>4, <4>1, <4>2, <4>4, SameTold
      <4> QED BY <1>2, <2>2, <4>5 DEF Told
    <3>3. CASE ~InUse(a)
      <4>1. Closed(x, y)
        BY <1>2, <2>1, <2>2, <2>3, <3>3 DEF SeenNow
      <4>2. x.events # <<>>
        BY <1>2, <2>2
      <4>3. PICK j \in DOMAIN y.events :
               y.events[j].seq = x.events[i].seq /\ y.events[j].id = x.events[i].id
        BY <1>2, <2>2, <4>1, <4>2 DEF Closed
      <4> QED BY <1>2, <2>2, <2>4, <4>3 DEF Told
    <3> QED BY <3>1, <3>2, <3>3 DEF InUse
  <2> QED BY <2>2, <2>5 DEF Range
<1> QED BY <1>1, <1>2 DEF StreamDelivers

\* A client that follows the run gets its events in the order they were recorded, each
\* once, through stops, switches, kills and failed Saves; and while nothing was killed
\* or failed, every session of Home in memory has been sent to it up to its cursor. The
\* sequence numbers are computed from the events that are kept (NextSeq), and the
\* cursor is one of them: what is recorded next is always behind the cursor.
THEOREM StreamDelivered == Spec /\ []SwitchesAway => []StreamDelivers
BY DeliveryInit, DeliveryStep, DeliveryGives, PTL DEF Spec

------------------------------------------------------------------------------
(* One request at a time                                                   *)

\* What is asked for is not what is served.
AsksAway ==
    \A s \in Selectors :
        select[s].pc \in {"asked", "locked"} => select[s].workspace # apps[serving].ws

LEMMA AloneStep ==
  ASSUME \A s, t \in Selectors : s = t
  PROVE  IInv /\ AsksAway /\ [Next]_vars => AsksAway'
<1> SUFFICES ASSUME IInv, AsksAway, [Next]_vars PROVE AsksAway'
  OBVIOUS
<1>1. CASE Start
  <2>1. \A s \in Selectors : select'[s].pc = "idle"
    BY <1>1 DEF Start, IInv, Control, Switching
  <2> QED BY <2>1 DEF AsksAway
<1>2. CASE Crash \/ Exit
  <2>1. select' = [s \in Selectors |-> Idle]
    BY <1>2 DEF Crash, Exit, ForgetMemory
  <2> QED BY <2>1, IdlePc DEF AsksAway
<1>3. CASE Stop \/ Follow \/ Poll \/ Disconnect \/ UNCHANGED vars
  BY <1>3 DEF Stop, Follow, Poll, Disconnect, vars, memory, AsksAway
<1>4. CASE Saving
  BY <1>4 DEF Saving, WriteTemporary, RenameArchive, CopyArchive, FinishCopy, TruncateFile,
     WriteFile, SaveFails, AsksAway
<1>5. CASE BeginRun \/ AppendEvent \/ EndRun
  <2>1. PICK x : apps' = [apps EXCEPT ![serving].session = x]
    BY <1>5 DEF BeginRun, AppendEvent, EndRun, Record
  <2>2. UNCHANGED <<serving, select>>
    BY <1>5 DEF BeginRun, AppendEvent, EndRun, Record
  <2>3. ASSUME NEW s \in Selectors, select[s].pc \in {"asked", "locked"}
        PROVE  apps'[serving].ws = apps[serving].ws
    <3>1. Up
      BY <2>3 DEF IInv, Control, Switching, Up
    <3> QED BY <2>1, <3>1, ServedTyped, SameWorkspace
  <2> QED BY <2>2, <2>3 DEF AsksAway
<1>6. CASE \E s \in Selectors : AskSelect(s)
  <2>1. PICK s \in Selectors : AskSelect(s)
    BY <1>6
  <2>2. PICK w \in Workspaces \ {apps[serving].ws} :
           select' = [select EXCEPT ![s] = [pc |-> "asked", workspace |-> w, app |-> None]]
    BY <2>1 DEF AskSelect
  <2>3. UNCHANGED <<apps, serving>>
    BY <2>1 DEF AskSelect
  <2>4. select'[s].workspace = w
    <3> DEFINE r == [pc |-> "asked", workspace |-> w, app |-> None]
    <3>1. select' = [select EXCEPT ![s] = r] /\ r.workspace = w
      BY <2>2
    <3> HIDE DEF r
    <3> QED BY <3>1, OthersKept
  <2> QED BY <2>2, <2>3, <2>4 DEF AsksAway
<1>7. CASE \E s \in Selectors : LockSelect(s)
  <2>1. PICK s \in Selectors : LockSelect(s)
    BY <1>7
  <2>2. UNCHANGED <<apps, serving>> /\ select[s].pc = "asked"
    BY <2>1 DEF LockSelect
  <2>3. \/ select'[s].pc = "idle"
        \/ select'[s].workspace = select[s].workspace
    <3> DEFINE r == [select[s] EXCEPT !.pc = "locked"]
    <3>1. \/ select' = [select EXCEPT ![s] = Idle]
          \/ select' = [select EXCEPT ![s] = r]
      BY <2>1 DEF LockSelect
    <3>2. r.workspace = select[s].workspace /\ Idle.pc = "idle"
      BY SelectTyped, IdlePc DEF IInv, Typed, SelectPcs
    <3> HIDE DEF r
    <3> QED BY <3>1, <3>2, OthersKept
  <2> QED BY <2>1, <2>2, <2>3 DEF AsksAway
<1>8. CASE \E s \in Selectors : \/ BootSelect(s) \/ SaveSelect(s) \/ SavedSelect(s)
                               \/ ServeSelect(s)
  <2>1. PICK s \in Selectors : \/ BootSelect(s) \/ SaveSelect(s) \/ SavedSelect(s)
                              \/ ServeSelect(s)
    BY <1>8
  <2>2. select'[s].pc \in {"idle", "booted", "saving", "saved"}
    <3>1. \A p \in {"booted", "saving", "saved"} : \A k :
             /\ [select[s] EXCEPT !.pc = p].pc = p
             /\ [select[s] EXCEPT !.pc = p, !.app = k].pc = p
      BY SelectTyped DEF IInv, Typed, SelectPcs
    <3>2. CASE BootSelect(s)
      <4> DEFINE r == [select[s] EXCEPT !.pc = "booted", !.app = Len(apps) + 1]
      <4>1. select' = [select EXCEPT ![s] = r] \/ select' = [select EXCEPT ![s] = Idle]
        BY <3>2 DEF BootSelect
      <4>2. r.pc = "booted"
        BY <3>1
      <4> HIDE DEF r
      <4> QED BY <4>1, <4>2, IdlePc, OthersKept
    <3>3. CASE SaveSelect(s)
      <4> DEFINE r == [select[s] EXCEPT !.pc = "saving"]
      <4>1. select' = [select EXCEPT ![s] = r]
        BY <3>3 DEF SaveSelect
      <4>2. r.pc = "saving"
        BY <3>1
      <4> HIDE DEF r
      <4> QED BY <4>1, <4>2, OthersKept
    <3>4. CASE SavedSelect(s)
      <4> DEFINE r == [select[s] EXCEPT !.pc = "saved"]
      <4>1. select' = [select EXCEPT ![s] = r] \/ select' = [select EXCEPT ![s] = Idle]
        BY <3>4 DEF SavedSelect
      <4>2. r.pc = "saved"
        BY <3>1
      <4> HIDE DEF r
      <4> QED BY <4>1, <4>2, IdlePc, OthersKept
    <3>5. CASE ServeSelect(s)
      <4>1. select' = [select EXCEPT ![s] = Idle]
        BY <3>5 DEF ServeSelect
      <4> QED BY <4>1, IdlePc, OthersKept
    <3> QED BY <2>1, <3>2, <3>3, <3>4, <3>5
  <2> QED BY <2>1, <2>2 DEF AsksAway
<1> QED BY <1>1, <1>2, <1>3, <1>4, <1>5, <1>6, <1>7, <1>8 DEF Next

LEMMA AloneSwitchesAway ==
  ASSUME SharedPath = FALSE, \A s, t \in Selectors : s = t
  PROVE  Spec => []SwitchesAway
<1>1. Init => IInv /\ AsksAway
  <2>1. Init => AsksAway
    BY IdlePc DEF Init, AsksAway
  <2> QED BY <2>1, InitOK
<1>2. IInv /\ AsksAway /\ [Next]_vars => (IInv /\ AsksAway)'
  BY AloneStep, NextOK
<1>3. IInv /\ AsksAway => SwitchesAway
  BY DEF AsksAway, SwitchesAway, Served, Path
<1> QED BY <1>1, <1>2, <1>3, PTL DEF Spec

\* A workspace is selected by one request at a time, and every workspace has a file of
\* its own: then the events of every path are kept, with no further hypothesis.
THEOREM EventsKeptAlone ==
  ASSUME SharedPath = FALSE, \A s, t \in Selectors : s = t
  PROVE  Spec => []KeptAtStop
BY AloneSwitchesAway, EventsKept, PTL

\* Under the same conditions the stream delivers.
THEOREM StreamDeliveredAlone ==
  ASSUME SharedPath = FALSE, \A s, t \in Selectors : s = t
  PROVE  Spec => []StreamDelivers
BY AloneSwitchesAway, StreamDelivered, PTL
===============================================================================
