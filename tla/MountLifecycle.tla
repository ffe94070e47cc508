--------------------------- MODULE MountLifecycle ---------------------------
(***************************************************************************)
(* How the storage manager follows a memory card: mount_status and the     *)
(* folder array are shared, without a lock, by the thread that runs        *)
(* rkipc_storage_manager_init and _deinit, the message thread (dev_add and *)
(* dev_remove), the scan threads and their monitor threads.                *)
(*                                                                         *)
(* TmsgBuffer models the message queue and its listener; here the queue is *)
(* the sequence msgs and the listener one flag.  FolderStore models what   *)
(* scan and monitor do with the files.                                     *)
(***************************************************************************)
EXTENDS Integers, Sequences, FiniteSets

CONSTANT MaxCards   \* bound: how many times a card is put in

ASSUME BoundsAssumption == MaxCards \in Nat

\* At most one scan thread at init and one for every card announced.
Scans == 1..(MaxCards + 1)
NoScan == 0

VARIABLES
  card,      \* the slot: "out", "in", "mounted", or "detached" by umount2
  announce,  \* what udev has yet to tell its listeners: "none", "add", "remove"
  cards,     \* how many times a card was put in
  listening, \* the listener's socket is bound
  msgs,      \* the message queue
  mainPc,    \* manager_init and manager_deinit
  quit,      \* the message thread is told to quit
  recPc,     \* the message thread
  mount,     \* dev_sta.mount_status
  tid,       \* dev_sta.file_scan_tid
  folder,    \* dev_sta.folder: the scan thread that allocated it, or NoScan
  known,     \* dev_sta.dev_path is set
  scan,      \* scan threads: their program counters
  mon,       \* their monitor threads: "none", "start", "loop", "done"
  unmounted, \* the monitor threads with an IN_UNMOUNT to read
  bootRace,  \* history: udev had something to say between init and listening
  doubled,   \* history: a scan thread was created beside a running one
  lostStop,  \* history: a scan thread overwrote DISK_UNMOUNTED with DISK_MOUNTED
  gaveUp     \* history: statfs, inotify or pthread_create failed a scan

cardVars  == <<card, announce, cards>>
mainVars  == <<listening, mainPc, quit>>
shared    == <<mount, tid, folder, known>>
history   == <<bootRace, doubled, lostStop, gaveUp>>
scanVars  == <<scan, mon, unmounted>>
vars == <<cardVars, mainVars, msgs, recPc, shared, scanVars, history>>

ScanPc == {"none", "check", "repair", "recheck", "set", "size", "watch", "loop",
           "join", "free", "done", "dead"}
Ended == {"none", "done", "dead"}
Live  == {k \in Scans : scan[k] \notin Ended}

TypeOK ==
  /\ card \in {"out", "in", "mounted", "detached"}
  /\ announce \in {"none", "add", "remove"}
  /\ cards \in 0..MaxCards
  /\ listening \in BOOLEAN /\ quit \in BOOLEAN
  /\ msgs \in Seq({"add", "remove"})
  /\ mainPc \in {"init", "listen", "up", "stop", "join_rec", "unmount",
                 "join_scan", "freed", "failed", "dead"}
  /\ recPc \in {"none", "loop", "get", "create", "join", "umount", "done", "dead"}
  /\ mount \in {"UNMOUNTED", "NOT_FORMATTED", "SCANNING", "MOUNTED"}
  /\ tid \in Scans \cup {NoScan}
  /\ folder \in Scans \cup {NoScan}
  /\ known \in BOOLEAN
  /\ scan \in [Scans -> ScanPc]
  /\ mon \in [Scans -> {"none", "start", "loop", "done", "dead"}]
  /\ unmounted \subseteq Scans
  /\ {bootRace, doubled, lostStop, gaveUp} \subseteq BOOLEAN

\* manager_init zeroes the handle; a card may be in and mounted, or on its
\* way to be announced.
Init ==
  /\ card \in {"out", "mounted"}
  /\ announce = "none"
  /\ cards = 0
  /\ listening = FALSE /\ quit = FALSE
  /\ msgs = << >>
  /\ mainPc = "init" /\ recPc = "none"
  /\ mount = "UNMOUNTED" /\ tid = NoScan /\ folder = NoScan /\ known = FALSE
  /\ scan = [k \in Scans |-> "none"]
  /\ mon = [k \in Scans |-> "none"]
  /\ unmounted = {}
  /\ bootRace = FALSE /\ doubled = FALSE /\ lostStop = FALSE /\ gaveUp = FALSE
-----------------------------------------------------------------------------
(* The card, the automounter and udev.                                     *)

\* Unmounting wakes every monitor that watches the folders.
Watchers == {k \in Scans : mon[k] = "loop"}

InsertCard ==
  /\ card = "out" /\ announce = "none" /\ cards < MaxCards
  /\ card' = "in" /\ announce' = "add" /\ cards' = cards + 1
  /\ UNCHANGED <<mainVars, msgs, recPc, shared, scanVars, history>>

Automount ==
  /\ card = "in"
  /\ card' = "mounted"
  /\ UNCHANGED <<announce, cards, mainVars, msgs, recPc, shared, scanVars, history>>

\* The card is pulled; the automounter cleans up the mount.
PullCard ==
  /\ card # "out" /\ announce = "none"
  /\ card' = "out" /\ announce' = "remove"
  /\ unmounted' = IF card = "mounted" THEN unmounted \cup Watchers ELSE unmounted
  /\ UNCHANGED <<cards, mainVars, msgs, recPc, shared, scan, mon, history>>

\* udev tells its listeners after its rules ran, before or after the mount.
Announce ==
  /\ announce # "none"
  /\ msgs' = IF listening /\ mainPc = "up" THEN Append(msgs, announce) ELSE msgs
  /\ announce' = "none"
  /\ bootRace' = (bootRace \/ mainPc \in {"init", "listen"})
  /\ UNCHANGED <<card, cards, mainVars, recPc, shared, scanVars, doubled, lostStop, gaveUp>>
-----------------------------------------------------------------------------
\* pthread_create of rkipc_storage_file_scan_thread; it may fail.
CreateScan(k) ==
  /\ scan[k] = "none"
  /\ \A j \in Scans : j < k => scan[j] # "none"
  /\ \/ /\ scan' = [scan EXCEPT ![k] = "check"]
        /\ tid' = k
        /\ doubled' = (doubled \/ Live # {})
     \/ UNCHANGED <<scan, tid, doubled>>

(* manager_init and manager_deinit.                                        *)

AutoDeleteInit ==
  /\ mainPc = "init"
  /\ IF card = "mounted"
     THEN /\ mount' = "SCANNING" /\ known' = TRUE
          /\ bootRace' = (bootRace \/ announce = "add")
          /\ CreateScan(1)
     ELSE /\ mount' = "UNMOUNTED"
          /\ UNCHANGED <<known, bootRace, scan, tid, doubled>>
  /\ mainPc' = "listen"
  /\ UNCHANGED <<cardVars, listening, quit, msgs, recPc, folder, mon, unmounted,
                 lostStop, gaveUp>>

\* The message thread and the listener start, the listener with or without its
\* socket, ...
Listen ==
  /\ mainPc = "listen"
  /\ listening' \in BOOLEAN /\ recPc' = "loop" /\ mainPc' = "up"
  /\ UNCHANGED <<cardVars, quit, msgs, shared, scanVars, history>>

\* ... or they do not, and init frees the handle with the scan thread, and maybe
\* the message thread, still at work on it: their reads of freed memory are
\* left to find the old values.
ListenFails ==
  /\ mainPc = "listen"
  /\ recPc' \in {"none", "loop"} /\ mainPc' = "failed"
  /\ UNCHANGED <<cardVars, listening, quit, msgs, shared, scanVars, history>>

Deinit ==
  /\ mainPc = "up"
  /\ listening' = FALSE /\ mainPc' = "stop"
  /\ UNCHANGED <<cardVars, quit, msgs, recPc, shared, scanVars, history>>

TellQuit ==
  /\ mainPc = "stop"
  /\ quit' = TRUE /\ mainPc' = "join_rec"
  /\ UNCHANGED <<cardVars, listening, msgs, recPc, shared, scanVars, history>>

JoinRec ==
  /\ mainPc = "join_rec"
  /\ recPc = "done"
  /\ mainPc' = "unmount"
  /\ UNCHANGED <<cardVars, listening, quit, msgs, recPc, shared, scanVars, history>>

\* Slip: the scan thread is joined without being told to stop.
SetUnmountedForgotten ==
  /\ mainPc = "unmount"
  /\ mainPc' = "join_scan"
  /\ UNCHANGED <<cardVars, listening, quit, msgs, recPc, shared, scanVars, history>>

SetUnmounted ==
  /\ mainPc = "unmount"
  /\ mount' = "UNMOUNTED"
  /\ mainPc' = "join_scan"
  /\ UNCHANGED <<cardVars, listening, quit, msgs, recPc, tid, folder, known, scanVars,
                 history>>

\* pthread_join, if there is a thread, then free.
JoinScan ==
  /\ mainPc = "join_scan"
  /\ tid # NoScan => scan[tid] = "done"
  /\ mainPc' = "freed"
  /\ UNCHANGED <<cardVars, listening, quit, msgs, recPc, shared, scanVars, history>>
-----------------------------------------------------------------------------
(* The message thread.                                                     *)

RecLoop ==
  /\ recPc = "loop"
  /\ recPc' = IF quit THEN "done" ELSE "get"
  /\ UNCHANGED <<cardVars, mainVars, msgs, shared, scanVars, history>>

GetNothing ==
  /\ recPc = "get"
  /\ msgs = << >>
  /\ recPc' = "loop"
  /\ UNCHANGED <<cardVars, mainVars, msgs, shared, scanVars, history>>

TakeMsg(m) ==
  /\ recPc = "get"
  /\ msgs # << >> /\ Head(msgs) = m
  /\ msgs' = Tail(msgs)

\* dev_add: a card that is not mounted yet counts as not formatted.
DevAdd ==
  /\ TakeMsg("add")
  /\ known' = TRUE
  /\ IF card = "mounted"
     THEN mount' = "SCANNING" /\ recPc' = "create"
     ELSE mount' = "NOT_FORMATTED" /\ recPc' = "loop"
  /\ UNCHANGED <<cardVars, mainVars, tid, folder, scanVars, history>>

DevAddCreate ==
  /\ recPc = "create"
  /\ \E k \in Scans : CreateScan(k)
  /\ recPc' = "loop"
  /\ UNCHANGED <<cardVars, mainVars, msgs, mount, folder, known, mon, unmounted,
                 bootRace, lostStop, gaveUp>>

DevRemove ==
  /\ TakeMsg("remove")
  /\ IF known THEN mount' = "UNMOUNTED" /\ recPc' = "join"
     ELSE mount' = mount /\ recPc' = "loop"
  /\ UNCHANGED <<cardVars, mainVars, tid, folder, known, scanVars, history>>

\* Slip: the next card is not waited for: the thread is left to end by itself.
DevRemoveNoJoin ==
  /\ recPc = "join"
  /\ tid' = NoScan
  /\ recPc' = "umount"
  /\ UNCHANGED <<cardVars, mainVars, msgs, mount, folder, known, scanVars, history>>

DevRemoveJoin ==
  /\ recPc = "join"
  /\ tid # NoScan => scan[tid] = "done"
  /\ tid' = NoScan
  /\ recPc' = "umount"
  /\ UNCHANGED <<cardVars, mainVars, msgs, mount, folder, known, scanVars, history>>

\* umount2 of whatever is mounted there by now.
DevRemoveUmount ==
  /\ recPc = "umount"
  /\ card' = IF card = "mounted" THEN "detached" ELSE card
  /\ unmounted' = IF card = "mounted" THEN unmounted \cup Watchers ELSE unmounted
  /\ recPc' = "loop"
  /\ UNCHANGED <<announce, cards, mainVars, msgs, shared, scan, mon, history>>
-----------------------------------------------------------------------------
(* A scan thread.                                                          *)

Goto(k, pc) == scan' = [scan EXCEPT ![k] = pc]

\* Without the disk the folders are not allocated; an allocation may fail, and
\* so may the creation of a folder directory.
ScanCheck(k) ==
  /\ scan[k] = "check"
  /\ IF mount = "UNMOUNTED"
     THEN folder' = folder /\ Goto(k, "repair")
     ELSE \/ folder' = k /\ Goto(k, "repair")
          \/ folder' = NoScan /\ Goto(k, "done")
          \/ folder' = k /\ Goto(k, "join")
  /\ UNCHANGED <<cardVars, mainVars, msgs, recPc, mount, tid, known, mon, unmounted,
                 history>>

\* rkipc_storage_repair locks the mutex of every folder: if there is none the
\* process dies, and all its threads with it.
Crash ==
  /\ mainPc' = "dead" /\ recPc' = "dead"
  /\ scan' = [j \in Scans |-> "dead"] /\ mon' = [j \in Scans |-> "dead"]

ScanRepair(k) ==
  /\ scan[k] = "repair"
  /\ IF folder = NoScan
     THEN Crash
     ELSE Goto(k, "recheck") /\ UNCHANGED <<mainPc, recPc, mon>>
  /\ UNCHANGED <<cardVars, listening, quit, msgs, shared, unmounted, history>>

ScanRecheck(k) ==
  /\ scan[k] = "recheck"
  /\ Goto(k, IF mount = "UNMOUNTED" THEN "join" ELSE "set")
  /\ UNCHANGED <<cardVars, mainVars, msgs, recPc, shared, mon, unmounted, history>>

\* Not atomic with the check before it.
ScanSet(k) ==
  /\ scan[k] = "set"
  /\ mount' = "MOUNTED"
  /\ lostStop' = (lostStop \/ mount = "UNMOUNTED")
  /\ Goto(k, "size")
  /\ UNCHANGED <<cardVars, mainVars, msgs, recPc, tid, folder, known, mon, unmounted,
                 bootRace, doubled, gaveUp>>

\* statfs fails: the thread returns and leaves everything as it is.
ScanSize(k) ==
  /\ scan[k] = "size"
  /\ \/ Goto(k, "watch") /\ UNCHANGED gaveUp
     \/ mount # "UNMOUNTED" /\ Goto(k, "done") /\ gaveUp' = TRUE
  /\ UNCHANGED <<cardVars, mainVars, msgs, recPc, shared, mon, unmounted, bootRace,
                 doubled, lostStop>>

ScanWatch(k) ==
  /\ scan[k] = "watch"
  /\ \/ mon' = [mon EXCEPT ![k] = "start"] /\ Goto(k, "loop") /\ UNCHANGED gaveUp
     \/ gaveUp' = TRUE /\ Goto(k, "join") /\ UNCHANGED mon
  /\ UNCHANGED <<cardVars, mainVars, msgs, recPc, shared, unmounted, bootRace,
                 doubled, lostStop>>

\* The cleaning loop ends when the disk goes ...
ScanLoop(k) ==
  /\ scan[k] = "loop"
  /\ mount # "MOUNTED"
  /\ Goto(k, "join")
  /\ UNCHANGED <<cardVars, mainVars, msgs, recPc, shared, mon, unmounted, history>>

\* ... or when it cannot be measured: it then waits for the monitor.
ScanLoopFails(k) ==
  /\ scan[k] = "loop"
  /\ gaveUp' = TRUE
  /\ Goto(k, "join")
  /\ UNCHANGED <<cardVars, mainVars, msgs, recPc, shared, mon, unmounted, bootRace,
                 doubled, lostStop>>

\* Slip: the folders are freed without joining the monitor.
ScanJoinSkipped(k) ==
  /\ scan[k] = "join"
  /\ Goto(k, "free")
  /\ UNCHANGED <<cardVars, mainVars, msgs, recPc, shared, mon, unmounted, history>>

ScanJoin(k) ==
  /\ scan[k] = "join"
  /\ mon[k] \in Ended
  /\ Goto(k, "free")
  /\ UNCHANGED <<cardVars, mainVars, msgs, recPc, shared, mon, unmounted, history>>

ScanFree(k) ==
  /\ scan[k] = "free"
  /\ folder' = NoScan
  /\ Goto(k, "done")
  /\ UNCHANGED <<cardVars, mainVars, msgs, recPc, mount, tid, known, mon, unmounted,
                 history>>
-----------------------------------------------------------------------------
(* A monitor thread.                                                       *)

MonitorStart(k) ==
  /\ mon[k] = "start"
  /\ mon' = [mon EXCEPT ![k] = "loop"]
  /\ UNCHANGED <<cardVars, mainVars, msgs, recPc, shared, scan, unmounted, history>>

\* inotify_init fails.
MonitorFails(k) ==
  /\ mon[k] = "start"
  /\ mon' = [mon EXCEPT ![k] = "done"]
  /\ gaveUp' = TRUE
  /\ UNCHANGED <<cardVars, mainVars, msgs, recPc, shared, scan, unmounted, bootRace,
                 doubled, lostStop>>

MonitorEnd(k) ==
  /\ mon[k] = "loop" /\ mount # "MOUNTED"
  /\ mon' = [mon EXCEPT ![k] = "done"]
  /\ UNCHANGED <<cardVars, mainVars, msgs, recPc, shared, scan, unmounted, history>>

\* Slip: the monitor leaves on IN_UNMOUNT without a word.
MonitorUnmountSilent(k) ==
  /\ mon[k] = "loop"
  /\ k \in unmounted
  /\ mon' = [mon EXCEPT ![k] = "done"]
  /\ unmounted' = unmounted \ {k}
  /\ UNCHANGED <<cardVars, mainVars, msgs, recPc, shared, scan, history>>

MonitorUnmount(k) ==
  /\ mon[k] = "loop"
  /\ k \in unmounted
  /\ mount' = "UNMOUNTED"
  /\ unmounted' = unmounted \ {k}
  /\ UNCHANGED <<cardVars, mainVars, msgs, recPc, tid, folder, known, scan, mon, history>>
-----------------------------------------------------------------------------
Udev    == InsertCard \/ Automount \/ PullCard \/ Announce
Startup == AutoDeleteInit \/ Listen \/ ListenFails
Stop    == TellQuit \/ JoinRec \/ SetUnmounted \/ JoinScan
Message == RecLoop \/ GetNothing \/ DevAdd \/ DevAddCreate \/ DevRemove
             \/ DevRemoveJoin \/ DevRemoveUmount
ScanStep(k) == \/ ScanCheck(k) \/ ScanRepair(k) \/ ScanRecheck(k) \/ ScanSet(k)
               \/ ScanSize(k) \/ ScanWatch(k) \/ ScanLoop(k) \/ ScanJoin(k) \/ ScanFree(k)
MonStep(k)  == MonitorStart(k) \/ MonitorFails(k) \/ MonitorEnd(k) \/ MonitorUnmount(k)

Next ==
  \/ Udev \/ Startup \/ Deinit \/ Stop \/ Message
  \/ \E k \in Scans : ScanStep(k) \/ ScanLoopFails(k) \/ MonStep(k)

Spec == Init /\ [][Next]_vars

\* Threads that can run do run; cards, failures and the call of deinit are not
\* promised.
FairSpec ==
  /\ Spec
  /\ WF_vars(Startup) /\ WF_vars(Stop) /\ WF_vars(Message)
  /\ \A k \in Scans : WF_vars(ScanStep(k)) /\ WF_vars(MonStep(k))
=============================================================================
