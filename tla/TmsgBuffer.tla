----------------------------- MODULE TmsgBuffer -----------------------------
(***************************************************************************)
(* The message queue of common/storage/storage.c (rkipc_tmsg_buffer) with  *)
(* the three threads that share it: the uevent listener that fills it, the *)
(* message thread that empties it, and the thread that runs                *)
(* rkipc_storage_manager_init and _deinit.                                 *)
(*                                                                         *)
(* buf.mutex is modelled by making each critical section one action;       *)
(* pthread_cond_timedwait releases the mutex, so the wait splits the       *)
(* getter in two.  A wait may end by the signal, by its 1000 ms timeout or *)
(* spuriously: in each case the code looks at num again.                   *)
(*                                                                         *)
(* The callback of a removal and deinit both join the scan thread, which   *)
(* MountLifecycle models.  Here it is one flag: deaf while a request to    *)
(* stop is overwritten, so that the join waits.                            *)
(***************************************************************************)
EXTENDS Naturals, Sequences

CONSTANTS Msg,        \* the messages a uevent can turn into
          NoMsg,      \* no message in a thread's hands (a NULL element)
          MaxEvents   \* bound: how many uevents the kernel reports

ASSUME MsgAssumption ==
  /\ NoMsg \notin Msg
  /\ MaxEvents \in Nat

VARIABLES
  list,         \* the chain buf.first, buf.first->next, ...
  num,          \* buf.num
  quit,         \* buf.quit
  listenerRun,  \* handle.event_listener_run
  handle,       \* the rkipc_storage_handle: "none", "live" or "freed"
  mainPc,       \* the thread in manager_init / manager_deinit
  lisPc,        \* the listener thread
  lisMsg,       \* the message the listener is about to queue
  recPc,        \* the message thread
  recMsg,       \* the element in the message thread's hands
  deaf,         \* the scan thread to be joined has lost the request to stop
  sent,         \* history: the messages accepted by the queue
  taken,        \* history: the messages the message thread took out
  lateTakes,    \* history: how many of them after quit was set
  heard         \* uevents received, bounded by MaxEvents

queueVars    == <<list, num>>
mainVars     == <<quit, listenerRun, handle, mainPc>>
listenerVars == <<lisPc, lisMsg, heard>>
recVars      == <<recPc, recMsg>>
historyVars  == <<sent, taken, lateTakes>>
vars == <<queueVars, mainVars, listenerVars, recVars, historyVars, deaf>>

MainPc == {"create_rec", "create_listener", "up", "join_listener", "set_quit",
           "join_rec", "join_scan", "free", "down"}
LisPc  == {"none", "start", "loop", "send", "done"}
RecPc  == {"none", "loop", "get", "wait", "cb", "join", "done"}

TypeOK ==
  /\ list \in Seq(Msg)
  /\ num \in Nat
  /\ quit \in {0, 1}
  /\ listenerRun \in {0, 1}
  /\ handle \in {"none", "live", "freed"}
  /\ mainPc \in MainPc
  /\ lisPc \in LisPc
  /\ lisMsg \in Msg \cup {NoMsg}
  /\ recPc \in RecPc
  /\ recMsg \in Msg \cup {NoMsg}
  /\ deaf \in BOOLEAN
  /\ sent \in Seq(Msg)
  /\ taken \in Seq(Msg)
  /\ lateTakes \in Nat
  /\ heard \in Nat

Init ==
  /\ list = << >>
  /\ num = 0
  /\ quit = 0
  /\ listenerRun = 1
  /\ handle = "live"
  /\ mainPc = "create_rec"
  /\ lisPc = "none"
  /\ lisMsg = NoMsg
  /\ recPc = "none"
  /\ recMsg = NoMsg
  /\ deaf = FALSE
  /\ sent = << >>
  /\ taken = << >>
  /\ lateTakes = 0
  /\ heard = 0

-----------------------------------------------------------------------------
(* The listener thread, rkipc_storage_event_listener_thread.               *)

\* The listener sets up its netlink socket, or gives up for good: no buffer,
\* no socket or no binding.  Nobody is told.
ListenerStart ==
  /\ lisPc = "start"
  /\ lisPc' \in {"loop", "done"}
  /\ UNCHANGED <<queueVars, mainVars, recVars, historyVars, lisMsg, heard, deaf>>

\* One uevent of a disk or a partition: msg_send_msg allocates the element.
ListenerReceive ==
  /\ lisPc = "loop"
  /\ listenerRun = 1
  /\ heard < MaxEvents
  /\ \E m \in Msg : lisMsg' = m
  /\ heard' = heard + 1
  /\ lisPc' = "send"
  /\ UNCHANGED <<queueVars, mainVars, recVars, historyVars, deaf>>

\* Slip: the element is hooked behind the first one without walking the chain.
PutBehindFirst ==
  /\ lisPc = "send"
  /\ list' = IF list = << >> THEN <<lisMsg>> ELSE <<Head(list), lisMsg>>
  /\ num' = num + 1
  /\ sent' = Append(sent, lisMsg)
  /\ lisMsg' = NoMsg
  /\ lisPc' = "loop"
  /\ UNCHANGED <<mainVars, recVars, taken, lateTakes, heard, deaf>>

\* rkipc_storage_msg_put_msg_to_buffer, under buf.mutex.
PutMsg ==
  /\ lisPc = "send"
  /\ list' = Append(list, lisMsg)
  /\ num' = num + 1
  /\ sent' = Append(sent, lisMsg)
  /\ lisMsg' = NoMsg
  /\ lisPc' = "loop"
  /\ UNCHANGED <<mainVars, recVars, taken, lateTakes, heard, deaf>>

\* One of the two mallocs of msg_send_msg fails: the uevent is dropped.
SendFails ==
  /\ lisPc = "send"
  /\ lisMsg' = NoMsg
  /\ lisPc' = "loop"
  /\ UNCHANGED <<queueVars, mainVars, recVars, historyVars, heard, deaf>>

\* The loop condition, read after at most 100 ms of SO_RCVTIMEO.
ListenerExit ==
  /\ lisPc = "loop"
  /\ listenerRun = 0
  /\ lisPc' = "done"
  /\ UNCHANGED <<queueVars, mainVars, recVars, historyVars, lisMsg, heard, deaf>>

-----------------------------------------------------------------------------
(* The message thread, rkipc_storage_msg_rec_msg_thread.                   *)

RecLoop ==
  /\ recPc = "loop"
  /\ recPc' = IF quit = 1 THEN "done" ELSE "get"
  /\ UNCHANGED <<queueVars, mainVars, listenerVars, historyVars, recMsg, deaf>>

\* num after unlinking the first element: the last one resets it.
NumAfterTake == IF num = 1 THEN 0 ELSE num - 1

\* Slip: the newest element is handed out.
TakeNewest ==
  /\ num > 0
  /\ list # << >>
  /\ recMsg' = list[Len(list)]
  /\ list' = SubSeq(list, 1, Len(list) - 1)
  /\ num' = NumAfterTake
  /\ taken' = Append(taken, list[Len(list)])
  /\ lateTakes' = IF quit = 1 THEN lateTakes + 1 ELSE lateTakes
  /\ recPc' = "cb"
  /\ UNCHANGED <<mainVars, listenerVars, sent, deaf>>

\* The part of the getter after the wait: unlink the first element, if any.
TakeFirst ==
  /\ num > 0
  /\ list # << >>
  /\ recMsg' = Head(list)
  /\ list' = Tail(list)
  /\ num' = NumAfterTake
  /\ taken' = Append(taken, Head(list))
  /\ lateTakes' = IF quit = 1 THEN lateTakes + 1 ELSE lateTakes
  /\ recPc' = "cb"
  /\ UNCHANGED <<mainVars, listenerVars, sent, deaf>>

GetNow ==
  /\ recPc = "get"
  /\ TakeFirst

GetWait ==
  /\ recPc = "get"
  /\ num = 0
  /\ recPc' = "wait"
  /\ UNCHANGED <<queueVars, mainVars, listenerVars, historyVars, recMsg, deaf>>

WakeTake ==
  /\ recPc = "wait"
  /\ TakeFirst

\* Slip: a timed-out get ends the thread.
WakeEmptyEnds ==
  /\ recPc = "wait"
  /\ num = 0
  /\ recPc' = "done"
  /\ UNCHANGED <<queueVars, mainVars, listenerVars, historyVars, recMsg, deaf>>

WakeEmpty ==
  /\ recPc = "wait"
  /\ num = 0
  /\ recPc' = "loop"
  /\ UNCHANGED <<queueVars, mainVars, listenerVars, historyVars, recMsg, deaf>>

\* rec_msg_cb (MountLifecycle models what it does), then msg_free_msg; the
\* removal of the disk joins its scan thread in between.
CallbackAndFree ==
  /\ recPc = "cb"
  /\ \/ recMsg' = NoMsg /\ recPc' = "loop"
     \/ recMsg' = recMsg /\ recPc' = "join"
  /\ UNCHANGED <<queueVars, mainVars, listenerVars, historyVars, deaf>>

CallbackJoined ==
  /\ recPc = "join"
  /\ ~deaf
  /\ recMsg' = NoMsg
  /\ recPc' = "loop"
  /\ UNCHANGED <<queueVars, mainVars, listenerVars, historyVars, deaf>>

-----------------------------------------------------------------------------
(* rkipc_storage_listen_msg_init, rkipc_storage_manager_deinit.            *)

CreateRec ==
  /\ mainPc = "create_rec"
  /\ \/ recPc' = "loop" /\ mainPc' = "create_listener" /\ handle' = handle
     \/ recPc' = recPc /\ mainPc' = "down" /\ handle' = "freed"
  /\ UNCHANGED <<queueVars, listenerVars, historyVars, quit, listenerRun, recMsg, deaf>>

\* A failure frees the handle and leaves the message thread running on it.
CreateListener ==
  /\ mainPc = "create_listener"
  /\ \/ lisPc' = "start" /\ mainPc' = "up" /\ handle' = handle
     \/ lisPc' = lisPc /\ mainPc' = "down" /\ handle' = "freed"
  /\ UNCHANGED <<queueVars, recVars, historyVars, quit, listenerRun, lisMsg, heard, deaf>>

StopListener ==
  /\ mainPc = "up"
  /\ listenerRun' = 0
  /\ mainPc' = "join_listener"
  /\ UNCHANGED <<queueVars, listenerVars, recVars, historyVars, quit, handle, deaf>>

JoinListener ==
  /\ mainPc = "join_listener"
  /\ lisPc = "done"
  /\ mainPc' = "set_quit"
  /\ UNCHANGED <<queueVars, listenerVars, recVars, historyVars, quit, listenerRun, handle, deaf>>

\* Slip: the thread is joined without being told to quit.
SetQuitForgotten ==
  /\ mainPc = "set_quit"
  /\ quit' = quit
  /\ mainPc' = "join_rec"
  /\ UNCHANGED <<queueVars, listenerVars, recVars, historyVars, listenerRun, handle, deaf>>

\* rkipc_storage_msg_destroy: quit is set without the mutex and not signalled.
SetQuit ==
  /\ mainPc = "set_quit"
  /\ quit' = 1
  /\ mainPc' = "join_rec"
  /\ UNCHANGED <<queueVars, listenerVars, recVars, historyVars, listenerRun, handle, deaf>>

\* Slip: quit is set and the thread is not joined.
JoinRecSkipped ==
  /\ mainPc = "join_rec"
  /\ mainPc' = "join_scan"
  /\ UNCHANGED <<queueVars, listenerVars, recVars, historyVars, quit, listenerRun, handle, deaf>>

JoinRec ==
  /\ mainPc = "join_rec"
  /\ recPc = "done"
  /\ mainPc' = "join_scan"
  /\ UNCHANGED <<queueVars, listenerVars, recVars, historyVars, quit, listenerRun, handle, deaf>>

\* rkipc_storage_auto_delete_deinit.
JoinScan ==
  /\ mainPc = "join_scan"
  /\ ~deaf
  /\ mainPc' = "free"
  /\ UNCHANGED <<queueVars, listenerVars, recVars, historyVars, quit, listenerRun, handle, deaf>>

FreeHandle ==
  /\ mainPc = "free"
  /\ handle' = "freed"
  /\ mainPc' = "down"
  /\ UNCHANGED <<queueVars, listenerVars, recVars, historyVars, quit, listenerRun, deaf>>

-----------------------------------------------------------------------------
(* The scan thread, while somebody joins it.                               *)

\* Past its check, it stores DISK_MOUNTED over the DISK_UNMOUNTED that was to
\* end it.
ScanIsDeaf ==
  /\ recPc = "join" \/ mainPc = "join_scan"
  /\ ~deaf
  /\ deaf' = TRUE
  /\ UNCHANGED <<queueVars, mainVars, listenerVars, recVars, historyVars>>

\* Its monitor hears of an unmount and stores DISK_UNMOUNTED after all.
ScanHears ==
  /\ deaf
  /\ deaf' = FALSE
  /\ UNCHANGED <<queueVars, mainVars, listenerVars, recVars, historyVars>>

-----------------------------------------------------------------------------
Listener == ListenerStart \/ ListenerReceive \/ PutMsg \/ SendFails \/ ListenerExit
Receiver == RecLoop \/ GetNow \/ GetWait \/ WakeTake \/ WakeEmpty \/ CallbackAndFree
              \/ CallbackJoined
InitMain == CreateRec \/ CreateListener
Shutdown == JoinListener \/ SetQuit \/ JoinRec \/ JoinScan \/ FreeHandle

Scan     == ScanIsDeaf \/ ScanHears

Next == Listener \/ Receiver \/ InitMain \/ StopListener \/ Shutdown \/ Scan

Spec == Init /\ [][Next]_vars

\* Every thread that can run does run: recvmsg and the timed wait both time
\* out, so no thread waits for another one for ever but for the scan thread.
\* Uevents, the call of deinit and the scan thread come from outside and are
\* not promised; PutMsg is fair because the listener is past its recvmsg.
FairSpec ==
  /\ Spec
  /\ WF_vars(Receiver)
  /\ WF_vars(PutMsg \/ SendFails)
  /\ WF_vars(ListenerStart \/ ListenerExit)
  /\ WF_vars(InitMain)
  /\ WF_vars(Shutdown)
=============================================================================
