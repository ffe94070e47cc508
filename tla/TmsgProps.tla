----------------------------- MODULE TmsgProps ------------------------------
(***************************************************************************)
(* The properties of the storage message queue.                            *)
(***************************************************************************)
EXTENDS TmsgBuffer

\* What was accepted is what was taken followed by what is still queued: no
\* message is lost, duplicated or overtaken on the way through the chain that
\* the putter walks, and the counter the getter trusts (it dereferences
\* buf.first whenever num > 0) is the length of that chain.
FifoNoLoss ==
  /\ sent = taken \o list
  /\ num = Len(list)

\* Deinit joins both threads before it frees the handle their loops read: with
\* both threads created, nobody runs on a freed handle.
HandleOutlivesThreads ==
  (handle = "freed" /\ lisPc # "none") => lisPc = "done" /\ recPc = "done"

\* Once quit is set the listener is gone and the message thread takes at most
\* the one message its current call of the getter finds.
AtMostOneLateTake ==
  /\ lateTakes <= 1
  /\ quit = 1 => lisPc = "done"

\* A queued message is taken, unless the queue is told to quit or the callback
\* of a removal waits for a scan thread that has lost its request to stop.
QueuedIsTaken ==
  \A n \in 1..MaxEvents :
    Len(sent) >= n ~> (Len(taken) >= n \/ quit = 1 \/ deaf)

\* rkipc_storage_manager_deinit gets past the listener and the message thread,
\* and returns unless one of the two joins of the scan thread, the callback's
\* or its own, meets a thread that has lost its request to stop.
DeinitReturns == mainPc = "join_listener" ~> (mainPc = "down" \/ deaf)

\* The queue implements the abstract channel.
Channel == INSTANCE EventChannel WITH received <- taken, closed <- (quit = 1)
ChannelSpec == Channel!ChanSpec
=============================================================================
