----------------------------- MODULE MountProps -----------------------------
(***************************************************************************)
(* What must hold of the storage manager's threads and the data they share *)
(* without a lock, while cards come and go.                                *)
(***************************************************************************)
EXTENDS MountLifecycle

\* Two scan threads run at once only if udev had something to say while the
\* manager came up: dev_remove joins the old thread before dev_add makes a new
\* one.
OneScanThread == TypeOK /\ (Cardinality(Live) > 1 => doubled /\ bootRace)

\* The folder array and the handle outlive their users.  A monitor thread never
\* runs on an array that was freed, or is another thread's: the scan thread
\* joins it first.  The handle is freed only after every thread that uses it
\* has ended.  And a scan thread is without an array, which kills the process
\* in the repair, only if the card was declared gone before it first looked.
FoldersOutliveThreads ==
  \/ doubled
  \/ /\ \A k \in Scans :
          /\ mon[k] \in {"start", "loop"} => folder = k
          /\ scan[k] = "repair" /\ folder # k => mount = "UNMOUNTED"
          /\ mainPc = "freed" => scan[k] \in Ended /\ mon[k] \in Ended
     /\ mainPc = "dead" => mount = "UNMOUNTED"

\* A disk that counts as mounted is cleaned and watched by the thread that
\* owns the folders, unless a system call failed that thread.
MountedIsServed ==
  mount = "MOUNTED" =>
    \/ gaveUp \/ doubled \/ mainPc = "dead"
    \/ \E k \in Scans : /\ folder = k
                        /\ \/ scan[k] \in {"size", "watch"}
                           \/ scan[k] = "loop" /\ mon[k] \in {"start", "loop"}

\* Both joins of a scan thread return, the one of deinit and the one that
\* follows a removal, unless the scan thread overwrote the request to stop:
\* it tests mount_status and sets it in two steps.
JoinsReturnUnless ==
  /\ mainPc = "stop" ~> (mainPc \in {"freed", "dead"} \/ lostStop)
  /\ recPc = "join" ~> (recPc # "join" \/ lostStop)
=============================================================================
