---------------------------- MODULE FolderStore -----------------------------
(***************************************************************************)
(* One recording folder on the mounted disk and everybody who works on it: *)
(* the scan thread (reads the folder, repairs it, then cleans it), the     *)
(* monitor thread (follows inotify), the recorder that creates, writes and *)
(* closes files, and users who delete files or move them in.  Power may    *)
(* fail at any time; the disk survives, the index does not.                *)
(*                                                                         *)
(* The folder is mounted throughout: MountLifecycle models how the disk    *)
(* comes and goes.  Recorder models where Create and Close come from.      *)
(*                                                                         *)
(* A step of a thread is one file-system call or one critical section of   *)
(* folder->mutex.  Reads of the index outside the mutex are steps too.     *)
(***************************************************************************)
EXTENDS FileIndex

CONSTANTS Name,      \* names of files; a name is a time stamp, never reused
          NoName,    \* no name
          Capacity,  \* the size of the disk
          DelMin,    \* free_size_del_min: cleaning starts at or below it
          DelMax,    \* free_size_del_max: cleaning stops at or above it
          Quota,     \* folder_attr.limit, a percentage
          MaxSize,   \* bound: a file grows to MaxSize units
          MaxCrash   \* bound: power failures

ASSUME StoreAssumption ==
  /\ NoName \notin Name
  /\ Capacity \in Nat /\ DelMin \in Nat /\ DelMax \in Nat /\ DelMin < DelMax
  /\ Quota \in 0..99
  /\ MaxSize \in Nat /\ MaxCrash \in Nat

VARIABLES
  disk,        \* the files of the folder: name -> [size, time]
  open,        \* the file being recorded
  unfinished,  \* files recorded but never closed
  used,        \* names that were ever given out
  now,         \* the clock that stamps files
  crashes,     \* power failures so far
  folder,      \* the index, dev_sta.folder[i]
  scanPc,      \* the scan thread: "open", "read", "repair", "start", "run"
  toRead,      \* what readdir must still return
  watched,     \* inotify_add_watch is done
  events,      \* the inotify queue: [kind, name]
  monPc,       \* the monitor thread: "off", "start", "wait", "stat"
  monStat,     \* the event in hand and what lstat said of its file
  clPc,        \* cleaning: "sleep", "pick", "remove", "reread", "drop", "dead"
  auto,        \* devAttr.auto_delete
  passTotal,   \* total_space of this pass
  victim,      \* the file this pass removes
  target,      \* the name the pass drops after a failed remove
  missed,      \* history: files that came while nobody watched
  vanished,    \* history: files that went while nobody watched
  forgotten,   \* history: files on disk that the cleaner dropped
  scannedOpen  \* history: files that the scan read while they were open

diskVars    == <<disk, open, unfinished, used, now>>
scanVars    == <<scanPc, toRead>>
monitorVars == <<watched, monPc, monStat>>
cleanVars   == <<clPc, auto, passTotal, victim, target>>
noteVars    == <<events, missed, vanished>>
rest        == <<crashes, forgotten, scannedOpen>>
vars == <<diskVars, folder, scanVars, monitorVars, cleanVars, noteVars, rest>>

Present == DOMAIN disk
Without(n) == [m \in Present \ {n} |-> disk[m]]
With(n, s, t) == [m \in Present \cup {n} |->
                    IF m = n THEN [size |-> s, time |-> t] ELSE disk[m]]

\* What the files of d take up together, for every set of them.
SpaceOf(d) ==
  LET sum[names \in SUBSET DOMAIN d] ==
        IF names = {} THEN 0
        ELSE LET n == CHOOSE n \in names : TRUE
             IN  sum[names \ {n}] + d[n].size
  IN  sum

\* rkipc_storage_get_disk_size
Free == Capacity - SpaceOf(disk)[Present]

NoStat == [kind |-> "none", name |-> NoName, size |-> 0, time |-> 0]
Alive  == clPc # "dead"

\* The kernel reports a change of the folder, if it is watched.  (Creations
\* are reported too; the monitor has no branch for them.)
Report(kind, n) ==
  IF watched
  THEN events' = Append(events, [kind |-> kind, name |-> n]) /\ UNCHANGED <<missed, vanished>>
  ELSE /\ missed'   = IF kind = "delete" THEN missed ELSE missed \cup {n}
       /\ vanished' = IF kind = "delete" THEN vanished \cup {n} ELSE vanished
       /\ UNCHANGED events

TypeOK ==
  /\ Present \subseteq used /\ used \subseteq Name
  /\ \A n \in Present : disk[n].size \in 0..MaxSize /\ disk[n].time \in 0..now
  /\ open \in used \cup {NoName}
  /\ unfinished \subseteq used
  /\ Free >= 0
  /\ scanPc \in {"open", "read", "repair", "start", "run"}
  /\ toRead \subseteq used
  /\ watched \in BOOLEAN
  /\ \A i \in 1..Len(events) : events[i].kind \in {"close", "moved", "delete"}
                               /\ events[i].name \in used
  /\ monPc \in {"off", "start", "wait", "stat"}
  /\ clPc \in {"sleep", "pick", "remove", "reread", "drop", "dead"}
  /\ auto \in {0, 1}
  /\ {victim, target} \subseteq used \cup {NoName}
  /\ Names(folder) \subseteq used

Booted ==
  /\ folder' = EmptyFolder
  /\ scanPc' = "open" /\ toRead' = {}
  /\ watched' = FALSE /\ events' = << >>
  /\ monPc' = "off" /\ monStat' = NoStat
  /\ clPc' = "sleep" /\ auto' = 1 /\ passTotal' = 0
  /\ victim' = NoName /\ target' = NoName
  /\ missed' = {} /\ vanished' = {} /\ forgotten' = {} /\ scannedOpen' = {}

Init ==
  /\ disk = << >> /\ open = NoName /\ unfinished = {} /\ used = {} /\ now = 0
  /\ crashes = 0
  /\ folder = EmptyFolder
  /\ scanPc = "open" /\ toRead = {}
  /\ watched = FALSE /\ events = << >>
  /\ monPc = "off" /\ monStat = NoStat
  /\ clPc = "sleep" /\ auto = 1 /\ passTotal = 0
  /\ victim = NoName /\ target = NoName
  /\ missed = {} /\ vanished = {} /\ forgotten = {} /\ scannedOpen = {}
-----------------------------------------------------------------------------
(* The recorder, the users and the power supply.                           *)

\* Slip: the monitor takes a creation for an arrival.
CreateReported ==
  /\ Alive
  /\ open = NoName
  /\ \E n \in Name \ used :
       /\ disk' = With(n, 0, now)
       /\ open' = n
       /\ used' = used \cup {n}
       /\ unfinished' = unfinished \cup {n}
       /\ Report("moved", n)
  /\ UNCHANGED <<now, folder, scanVars, monitorVars, cleanVars, rest>>

Create ==
  /\ Alive
  /\ open = NoName
  /\ \E n \in Name \ used :
       /\ disk' = With(n, 0, now)
       /\ open' = n
       /\ used' = used \cup {n}
       /\ unfinished' = unfinished \cup {n}
  /\ UNCHANGED <<now, folder, scanVars, monitorVars, cleanVars, noteVars, rest>>

Write ==
  /\ Alive
  /\ open \in Present
  /\ disk[open].size < MaxSize
  /\ Free > 0
  /\ disk' = With(open, disk[open].size + 1, now)
  /\ UNCHANGED <<open, unfinished, used, now, folder, scanVars, monitorVars,
                 cleanVars, noteVars, rest>>

\* Closing a file that was unlinked changes nothing in the folder.
Close ==
  /\ Alive
  /\ open # NoName
  /\ open' = NoName
  /\ unfinished' = unfinished \ {open}
  /\ now' = now + 1
  /\ IF open \in Present THEN Report("close", open) ELSE UNCHANGED noteVars
  /\ UNCHANGED <<disk, used, folder, scanVars, monitorVars, cleanVars, rest>>

UserDeletes ==
  /\ \E n \in Present : disk' = Without(n) /\ Report("delete", n)
  /\ UNCHANGED <<open, unfinished, used, now, folder, scanVars, monitorVars,
                 cleanVars, rest>>

UserMovesIn ==
  /\ \E n \in Name \ used, s \in 0..MaxSize, t \in 0..now :
       /\ s <= Free
       /\ disk' = With(n, s, t)
       /\ used' = used \cup {n}
       /\ Report("moved", n)
  /\ UNCHANGED <<open, unfinished, now, folder, scanVars, monitorVars,
                 cleanVars, rest>>

PowerFails ==
  /\ crashes < MaxCrash
  /\ crashes' = crashes + 1
  /\ open' = NoName
  /\ Booted
  /\ UNCHANGED <<disk, unfinished, used, now>>
-----------------------------------------------------------------------------
(* The scan thread up to its cleaning loop.                                *)

OpenFolder ==
  /\ scanPc = "open"
  /\ toRead' = Present
  /\ scanPc' = "read"
  /\ UNCHANGED <<diskVars, folder, monitorVars, cleanVars, noteVars, rest>>

\* readdir returns an entry that was there at opendir, or one made since.
ReadEntry ==
  /\ scanPc = "read"
  /\ \E n \in toRead \cup Present :
       /\ toRead' = toRead \ {n}
       /\ IF n \in Present /\ ~ListCheck(folder, n)
          THEN /\ folder' = ListAdd(folder, File(n, disk[n].time, disk[n].size))
               /\ scannedOpen' = scannedOpen \cup ({n} \cap {open})
          ELSE UNCHANGED <<folder, scannedOpen>>
  /\ UNCHANGED <<diskVars, scanPc, monitorVars, cleanVars, noteVars, crashes, forgotten>>

EndRead ==
  /\ scanPc = "read"
  /\ toRead = {}
  /\ scanPc' = "repair"
  /\ UNCHANGED <<diskVars, folder, toRead, monitorVars, cleanVars, noteVars, rest>>

\* What repair_mp4 may give up: files that were not closed or are not there.
Repairable == (Names(folder) \cap unfinished) \cup (Names(folder) \ Present)

Empty == {folder.files[i].name : i \in {j \in 1..Len(folder.files) :
                                          folder.files[j].size = 0}}

\* rkipc_storage_repair; size is what the index says, not the disk.
RepairFolder ==
  /\ scanPc = "repair"
  /\ \E damaged \in SUBSET Repairable : folder' = Repair(folder, damaged \cup Empty)
  /\ LET dropped == Names(folder) \ Names(folder')
     IN  disk' = [n \in Present \ dropped |-> disk[n]]
  /\ scanPc' = "start"
  /\ UNCHANGED <<open, unfinished, used, now, toRead, monitorVars, cleanVars,
                 noteVars, rest>>

StartMonitor ==
  /\ scanPc = "start"
  /\ scanPc' = "run"
  /\ monPc' = "start"
  /\ UNCHANGED <<diskVars, folder, toRead, watched, monStat, cleanVars, noteVars, rest>>
-----------------------------------------------------------------------------
(* The monitor thread.                                                     *)

AddWatch ==
  /\ Alive
  /\ monPc = "start"
  /\ watched' = TRUE
  /\ monPc' = "wait"
  /\ UNCHANGED <<diskVars, folder, scanVars, monStat, cleanVars, noteVars, rest>>

Take(kinds) ==
  /\ Alive
  /\ monPc = "wait"
  /\ events # << >>
  /\ Head(events).kind \in kinds
  /\ events' = Tail(events)
  /\ UNCHANGED <<missed, vanished>>

\* Slip: a deletion is not followed.
HandleDeleteIgnored ==
  /\ Take({"delete"})
  /\ UNCHANGED folder
  /\ UNCHANGED <<diskVars, scanVars, monitorVars, cleanVars, rest>>

HandleDelete ==
  /\ Take({"delete"})
  /\ folder' = ListDel(folder, Head(events).name)
  /\ UNCHANGED <<diskVars, scanVars, monitorVars, cleanVars, rest>>

\* lstat of the file an event names; nothing follows when it fails.
HandleArrival ==
  /\ Take({"close", "moved"})
  /\ LET e == Head(events)
     IN  IF e.name \in Present
         THEN /\ monStat' = [kind |-> e.kind, name |-> e.name,
                             size |-> disk[e.name].size, time |-> disk[e.name].time]
              /\ monPc' = "stat"
         ELSE UNCHANGED <<monStat, monPc>>
  /\ UNCHANGED <<diskVars, folder, scanVars, watched, cleanVars, rest>>

ClosedEmpty == monStat.kind = "close" /\ monStat.size = 0

\* A file closed without a byte is removed.
RemoveEmpty ==
  /\ Alive
  /\ monPc = "stat"
  /\ ClosedEmpty
  /\ IF monStat.name \in Present
     THEN disk' = Without(monStat.name) /\ Report("delete", monStat.name)
     ELSE UNCHANGED <<disk, noteVars>>
  /\ monPc' = "wait" /\ monStat' = NoStat
  /\ UNCHANGED <<open, unfinished, used, now, folder, scanVars, watched, cleanVars, rest>>

\* Slip: a closed file is not indexed.
AddArrivalMovedOnly ==
  /\ Alive
  /\ monPc = "stat"
  /\ ~ClosedEmpty
  /\ folder' = IF ListCheck(folder, monStat.name) \/ monStat.kind = "close" THEN folder
               ELSE ListAdd(folder, File(monStat.name, monStat.time, monStat.size))
  /\ monPc' = "wait" /\ monStat' = NoStat
  /\ UNCHANGED <<diskVars, scanVars, watched, cleanVars, noteVars, rest>>

\* Slip: the monitor does not ask whether the name is known.
AddArrivalUnchecked ==
  /\ Alive
  /\ monPc = "stat"
  /\ ~ClosedEmpty
  /\ folder' = ListAdd(folder, File(monStat.name, monStat.time, monStat.size))
  /\ monPc' = "wait" /\ monStat' = NoStat
  /\ UNCHANGED <<diskVars, scanVars, watched, cleanVars, noteVars, rest>>

AddArrival ==
  /\ Alive
  /\ monPc = "stat"
  /\ ~ClosedEmpty
  /\ folder' = IF ListCheck(folder, monStat.name) THEN folder
               ELSE ListAdd(folder, File(monStat.name, monStat.time, monStat.size))
  /\ monPc' = "wait" /\ monStat' = NoStat
  /\ UNCHANGED <<diskVars, scanVars, watched, cleanVars, noteVars, rest>>
-----------------------------------------------------------------------------
(* The scan thread's cleaning loop.                                        *)

AutoDelete == IF Free >= DelMax THEN 0 ELSE IF Free <= DelMin THEN 1 ELSE auto

\* The variables of a pass are local to it.
EndPass == clPc' = "sleep" /\ passTotal' = 0 /\ victim' = NoName /\ target' = NoName

\* Measure the disk; on a pass, sum up the folders.
Measure ==
  /\ scanPc = "run"
  /\ clPc = "sleep"
  /\ auto' = AutoDelete
  /\ IF auto' = 1 /\ folder.total # 0
     THEN passTotal' = folder.total /\ clPc' = "pick"
     ELSE UNCHANGED <<passTotal, clPc>>
  /\ UNCHANGED <<diskVars, folder, scanVars, monitorVars, victim, target, noteVars, rest>>

OverQuota == (folder.total * 100) \div passTotal > Quota

\* A folder over its quota loses its oldest file.
Pick ==
  /\ clPc = "pick"
  /\ IF OverQuota /\ folder.last # NoFile
     THEN /\ victim' = folder.last.name
          /\ clPc' = "remove" /\ UNCHANGED <<passTotal, target>>
     ELSE EndPass
  /\ UNCHANGED <<diskVars, folder, scanVars, monitorVars, auto, noteVars, rest>>

RemoveVictim ==
  /\ clPc = "remove"
  /\ IF victim \in Present
     THEN disk' = Without(victim) /\ Report("delete", victim) /\ EndPass
     ELSE /\ clPc' = "reread"
          /\ UNCHANGED <<disk, noteVars, passTotal, victim, target>>
  /\ UNCHANGED <<open, unfinished, used, now, folder, scanVars, monitorVars, auto, rest>>


\* After a failed remove the last file's name is read again, without the
\* mutex; the monitor may have emptied the list, and the read is of NULL.
Reread ==
  /\ clPc = "reread"
  /\ IF folder.last = NoFile
     THEN clPc' = "dead" /\ target' = target
     ELSE clPc' = "drop" /\ target' = folder.last.name
  /\ UNCHANGED <<diskVars, folder, scanVars, monitorVars, auto, passTotal, victim,
                 noteVars, rest>>

Drop ==
  /\ clPc = "drop"
  /\ folder' = ListDel(folder, target)
  /\ forgotten' = forgotten \cup ({target} \cap Present)
  /\ EndPass
  /\ UNCHANGED <<diskVars, scanVars, monitorVars, auto, noteVars, crashes, scannedOpen>>
-----------------------------------------------------------------------------
Scan    == OpenFolder \/ ReadEntry \/ EndRead \/ RepairFolder \/ StartMonitor
Monitor == AddWatch \/ HandleDelete \/ HandleArrival \/ RemoveEmpty \/ AddArrival
Clean   == Measure \/ Pick \/ RemoveVictim \/ Reread \/ Drop
Outside == Create \/ Write \/ Close \/ UserDeletes \/ UserMovesIn \/ PowerFails

Next == Scan \/ Monitor \/ Clean \/ Outside

Spec == Init /\ [][Next]_vars

\* The three loops time out and go on; the scan ends because readdir ends.
\* Nothing is promised of the recorder, the users or the power supply.
FairSpec ==
  /\ Spec
  /\ WF_vars(OpenFolder) /\ WF_vars(EndRead) /\ WF_vars(RepairFolder \/ StartMonitor)
  /\ WF_vars(ReadEntry)
  /\ WF_vars(Monitor)
  /\ WF_vars(Clean)
=============================================================================
