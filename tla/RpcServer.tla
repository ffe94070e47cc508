------------------------------ MODULE RpcServer -----------------------------
(***************************************************************************)
(* The socket server: the listener, a detached thread for each connection, *)
(* and the clients of the web back end, each with one call (external: one  *)
(* connection per call, the int the server writes first and last is read). *)
(*                                                                         *)
(* The two hundred and more handlers of the table differ, for the protocol,*)
(* in how many values they read and write.  A value in either direction is *)
(* one token; a dead client's unread tokens make the server's next read of *)
(* an empty socket fail once (SOCKERR_IO), otherwise and after that it     *)
(* reads the end (SOCKERR_CLOSED), which alone the code looks for.         *)
(***************************************************************************)
EXTENDS Integers, SequencesExt

CONSTANTS
  Clients,
  Plans,   \* what the clients may be about to call
  MaxFails \* bound: threads that cannot be created

VARIABLES
  up,       \* RkIpcServerRun
  listener, \* the listener
  thread,   \* the thread that serves the client
  cli,      \* where the client is
  call,     \* what it calls
  toServer, toClient, \* the two directions of the connection
  written,  \* the arguments the client has written
  took,     \* what it has read
  err,      \* a read will fail because of unread answers
  got,      \* the arguments the handler has read
  wild,     \* one of them is no value that was sent
  effects,  \* history: how often the call was carried out
  fails     \* counter of the bound

serverVars == <<up, listener>>
clientVars == <<cli, call, written, took>>
callVars   == <<got, wild, effects>>
rpcVars == <<serverVars, thread, clientVars, toServer, toClient, err, callVars, fails>>

\* Calls: get and set of a camera's value, of a value, an action, a string, an
\* empty string, a json text, a get of a network interface and one without its
\* name, a name that the table does not hold.  A string is its length, then its
\* characters.  (An id before it changes nothing: after a failed read of the id
\* the read of the length finds the end.)
Args    == [get |-> 1, set |-> 2, one |-> 1, do |-> 0, text |-> 2, empty |-> 1,
            json |-> 2, net |-> 2, noif |-> 1, unknown |-> 1]
Kinds   == DOMAIN Args
Texts   == {"text", "empty", "json", "net", "noif"}
Odd     == {"empty", "noif", "unknown"}  \* there is no answer to these

ASSUME ServerAssumption ==
  /\ Plans \subseteq [Clients -> Kinds]
  /\ MaxFails \in Nat

Answer(k) == CASE k \in {"get", "net"} -> <<"value", "ret">>
               [] k \in {"set", "one", "do", "text"} -> <<"ret">>
               [] OTHER -> << >>
\* What the stub of the client reads for its answer.
Awaited(k) == IF k \in Odd THEN <<"ret">> ELSE Answer(k)

ThreadPc == {"none", "hello", "name", "args", "effect", "answer", "ready", "lost", "ended", "failed"}
Token    == {"hello", "value", "ret", "ready"}

RpcTypeOK ==
  /\ up \in BOOLEAN /\ listener \in {"accept", "ended"}
  /\ thread \in [Clients -> ThreadPc]
  /\ cli \in [Clients -> {"idle", "connected", "done", "dead"}]
  /\ call \in [Clients -> Kinds]
  /\ toServer \in [Clients -> Seq({"name", "arg"})]
  /\ toClient \in [Clients -> Seq(Token)]
  /\ written \in [Clients -> -1..2] /\ got \in [Clients -> 0..2]
  /\ took \in [Clients -> Seq(Token)]
  /\ err \in [Clients -> BOOLEAN] /\ wild \in [Clients -> BOOLEAN]
  /\ effects \in [Clients -> Nat]
  /\ fails \in Nat

RpcInit ==
  /\ up = TRUE /\ listener = "accept"
  /\ thread = [c \in Clients |-> "none"]
  /\ cli = [c \in Clients |-> "idle"]
  /\ call \in Plans
  /\ toServer = [c \in Clients |-> << >>] /\ toClient = [c \in Clients |-> << >>]
  /\ written = [c \in Clients |-> -1] /\ got = [c \in Clients |-> 0]
  /\ took = [c \in Clients |-> << >>]
  /\ err = [c \in Clients |-> FALSE] /\ wild = [c \in Clients |-> FALSE]
  /\ effects = [c \in Clients |-> 0]
  /\ fails = 0

Closed(c) == cli[c] \in {"done", "dead"}

-----------------------------------------------------------------------------
(* A client (external).                                                    *)

Connect(c) ==
  /\ cli[c] = "idle"
  /\ cli' = [cli EXCEPT ![c] = "connected"]
  /\ UNCHANGED <<serverVars, thread, call, written, took, toServer, toClient, err, callVars, fails>>

\* It writes name and arguments, before or after it reads the first int, then
\* reads its answer and the last int.
Expected(c) == <<"hello">> \o Awaited(call[c]) \o <<"ready">>

Write(c) ==
  /\ cli[c] = "connected"
  /\ written[c] < Args[call[c]]
  /\ written' = [written EXCEPT ![c] = @ + 1]
  /\ toServer' = [toServer EXCEPT ![c] = Append(@, IF written[c] = -1 THEN "name" ELSE "arg")]
  /\ UNCHANGED <<serverVars, thread, cli, call, took, toClient, err, callVars, fails>>

Read(c) ==
  /\ cli[c] = "connected"
  /\ toClient[c] # << >>
  /\ took[c] = << >> \/ written[c] = Args[call[c]]
  /\ took' = [took EXCEPT ![c] = Append(@, Head(toClient[c]))]
  /\ toClient' = [toClient EXCEPT ![c] = Tail(@)]
  /\ cli' = [cli EXCEPT ![c] = IF Len(took'[c]) = Len(Expected(c)) THEN "done" ELSE @]
  /\ UNCHANGED <<serverVars, thread, call, written, toServer, err, callVars, fails>>

\* The client is killed.
Die(c) ==
  /\ cli[c] = "connected"
  /\ cli' = [cli EXCEPT ![c] = "dead"]
  /\ err' = [err EXCEPT ![c] = toClient[c] # << >>]
  /\ UNCHANGED <<serverVars, thread, call, written, took, toServer, toClient, callVars, fails>>

\* It reads the end of a connection that the server has closed.
SeeEnd(c) ==
  /\ cli[c] = "connected"
  /\ thread[c] = "ended" /\ toClient[c] = << >>
  /\ cli' = [cli EXCEPT ![c] = "dead"]
  /\ UNCHANGED <<serverVars, thread, call, written, took, toServer, toClient, err, callVars, fails>>

-----------------------------------------------------------------------------
(* rkipc_server_thread, rkipc_server_deinit.                               *)

\* A connection is accepted, its thread created; when that fails the
\* connection stays open.  The flag is looked at afterwards.
Accept(c) ==
  /\ listener = "accept"
  /\ cli[c] # "idle" /\ thread[c] = "none"
  /\ \/ thread' = [thread EXCEPT ![c] = "hello"] /\ UNCHANGED fails
     \/ /\ fails < MaxFails
        /\ fails' = fails + 1
        /\ thread' = [thread EXCEPT ![c] = "failed"]
  /\ listener' = IF up THEN "accept" ELSE "ended"
  /\ UNCHANGED <<up, clientVars, toServer, toClient, err, callVars>>

\* main does not wait for the listener, which is in accept, nor for any thread.
Deinit ==
  /\ up
  /\ up' = FALSE
  /\ UNCHANGED <<listener, thread, clientVars, toServer, toClient, err, callVars, fails>>

-----------------------------------------------------------------------------
(* rec_thread, and the handlers.                                           *)

Goto(c, l) == thread' = [thread EXCEPT ![c] = l]

\* sock_write: TRUE if the token is on its way.
Send(c, token, next) ==
  IF Closed(c) THEN Goto(c, "ended") /\ UNCHANGED toClient
  ELSE toClient' = [toClient EXCEPT ![c] = Append(@, token)] /\ Goto(c, next)

Hello(c) ==
  /\ thread[c] = "hello"
  /\ Send(c, "hello", "name")
  /\ UNCHANGED <<serverVars, clientVars, toServer, err, callVars, fails>>

\* The next name.  What an unknown call has left unread is taken for a length:
\* one below 1 ends the thread, behind another it waits for a name.  After a
\* failed read it waits for one too, and so finds the end.
Name(c) ==
  /\ thread[c] = "name"
  /\ \/ /\ toServer[c] # << >>
        /\ toServer' = [toServer EXCEPT ![c] = Tail(@)]
        /\ got' = [got EXCEPT ![c] = 0]
        /\ IF Head(toServer[c]) = "arg" THEN Goto(c, "lost") \/ Goto(c, "ended")
           ELSE Goto(c, CASE call[c] = "unknown" -> "ready"
                          [] Args[call[c]] = 0 -> "effect"
                          [] OTHER -> "args")
     \/ /\ toServer[c] = << >> /\ Closed(c)
        /\ Goto(c, "ended")
        /\ UNCHANGED <<toServer, got>>
  /\ UNCHANGED <<serverVars, clientVars, toClient, err, wild, effects, fails>>

Lost(c) ==
  /\ thread[c] = "lost"
  /\ Closed(c)
  /\ Goto(c, "ended")
  /\ UNCHANGED <<serverVars, clientVars, toServer, toClient, err, callVars, fails>>

\* The getters of the network do not stand an empty name, the others do nothing.
AllRead(c) ==
  CASE call[c] \in {"empty", "json"} -> "ready"
    [] call[c] = "noif" -> "ended"
    [] OTHER -> "effect"

\* What the read of a length leads to that failed, and left the length as it
\* was, never written: it is above 0 and the string is waited for, or 0, or
\* below, and then the string, NULL, counts as read.
NoLength(c) ==
  {"lost", IF call[c] \in {"net", "noif"} THEN "ended" ELSE "ready",
           IF call[c] = "json" THEN "ready" ELSE "effect"}

\* Slip: a handler goes on when the client has closed.
ArgClosedIgnored(c) ==
  /\ thread[c] = "args"
  /\ toServer[c] # << >> \/ Closed(c)
  /\ got' = [got EXCEPT ![c] = @ + 1]
  /\ toServer' = [toServer EXCEPT ![c] = IF @ = << >> THEN @ ELSE Tail(@)]
  /\ wild' = [wild EXCEPT ![c] = @ \/ toServer[c] = << >>]
  /\ Goto(c, IF got[c] + 1 = Args[call[c]] THEN AllRead(c) ELSE "args")
  /\ UNCHANGED <<serverVars, clientVars, toClient, err, effects, fails>>

\* A handler reads its arguments.  It does not look for a failed read: what it
\* goes on with is whatever is in its variable.
Arg(c) ==
  /\ thread[c] = "args"
  /\ \/ /\ toServer[c] # << >>
        /\ toServer' = [toServer EXCEPT ![c] = Tail(@)]
        /\ got' = [got EXCEPT ![c] = @ + 1]
        /\ Goto(c, IF got[c] + 1 = Args[call[c]] THEN AllRead(c) ELSE "args")
        /\ UNCHANGED <<err, wild>>
     \/ /\ toServer[c] = << >> /\ Closed(c) /\ err[c]
        /\ err' = [err EXCEPT ![c] = FALSE]
        /\ wild' = [wild EXCEPT ![c] = TRUE]
        /\ got' = [got EXCEPT ![c] = @ + 1]
        /\ IF call[c] \in Texts /\ got[c] = 0
           THEN \E l \in NoLength(c) : Goto(c, l)
           ELSE Goto(c, IF got[c] + 1 = Args[call[c]] THEN AllRead(c) ELSE "args")
        /\ UNCHANGED toServer
     \/ /\ toServer[c] = << >> /\ Closed(c) /\ ~err[c]
        /\ Goto(c, "ended")
        /\ UNCHANGED <<toServer, err, got, wild>>
  /\ UNCHANGED <<serverVars, clientVars, toClient, effects, fails>>

\* The call itself.
Effect(c) ==
  /\ thread[c] = "effect"
  /\ effects' = [effects EXCEPT ![c] = @ + 1]
  /\ got' = [got EXCEPT ![c] = 0]
  /\ Goto(c, "answer")
  /\ UNCHANGED <<serverVars, clientVars, toServer, toClient, err, wild, fails>>

\* got counts the values of the answer here.  A handler of the network that has
\* answered returns what its call returned, and unless that is 0 the connection
\* is closed.
Reply(c) ==
  /\ thread[c] = "answer"
  /\ LET n == got[c] + 1
         next == IF n # Len(Answer(call[c])) THEN {"answer"}
                 ELSE IF call[c] = "net" THEN {"ready", "ended"} ELSE {"ready"}
     IN  /\ \E l \in next : Send(c, Answer(call[c])[n], l)
         /\ got' = [got EXCEPT ![c] = n]
  /\ UNCHANGED <<serverVars, clientVars, toServer, err, wild, effects, fails>>

\* Slip: the last int is left out.
ReadyForgotten(c) ==
  /\ thread[c] = "ready"
  /\ Goto(c, "name")
  /\ UNCHANGED <<serverVars, clientVars, toServer, toClient, err, callVars, fails>>

\* The last int; whether it could be written is not looked at.
Ready(c) ==
  /\ thread[c] = "ready"
  /\ toClient' = IF Closed(c) THEN toClient ELSE [toClient EXCEPT ![c] = Append(@, "ready")]
  /\ Goto(c, "name")
  /\ UNCHANGED <<serverVars, clientVars, toServer, err, callVars, fails>>

Thread(c) ==
  Hello(c) \/ Name(c) \/ Lost(c) \/ Arg(c) \/ Effect(c) \/ Reply(c) \/ Ready(c)

-----------------------------------------------------------------------------
RpcNext ==
  \/ \E c \in Clients :
       \/ Connect(c) \/ Write(c) \/ Read(c) \/ Die(c) \/ SeeEnd(c)
       \/ Accept(c) \/ Thread(c)
  \/ Deinit

\* Threads and listener go on, and so does a client that was not killed.
Fairness ==
  \A c \in Clients : /\ WF_rpcVars(Thread(c)) /\ WF_rpcVars(Accept(c))
                     /\ WF_rpcVars(Write(c)) /\ WF_rpcVars(Read(c)) /\ WF_rpcVars(SeeEnd(c))

RpcSpec == RpcInit /\ [][RpcNext]_rpcVars /\ Fairness
-----------------------------------------------------------------------------
\* A call is carried out at most once, and on what the client has sent: a read
\* that failed gets by only for the last value, or the length and with it the
\* whole of a string, and only for a client that died without reading what had
\* been written to it.  A client that has its result knows the call was carried
\* out, and reads what was meant for it, except when the string was empty or the
\* name unknown: then it takes the last int, a zero, for a result.
CallsMeant ==
  /\ RpcTypeOK
  /\ \A c \in Clients :
       LET k == call[c]
       IN  /\ effects[c] = 1 =>
                \/ written[c] = Args[k]
                \/ /\ wild[c] /\ cli[c] = "dead"
                   /\ written[c] = Args[k] - 1 \/ (k \in Texts /\ written[c] = 0)
           /\ k \in Odd \/ IsPrefix(took[c], Expected(c))
           /\ "ret" \in ToSet(took[c]) => effects[c] = 1
           /\ effects[c] <= IF k \in Odd /\ ~wild[c] THEN 0 ELSE 1

\* A client gets through its call or sees its connection closed, unless its
\* string was empty or the name unknown (then it waits for one int more than
\* comes), its thread could not be created, or the server is being ended; and
\* when a client is gone its thread comes to its end.
NobodyWaits ==
  \A c \in Clients :
    /\ cli[c] = "connected" ~>
         Closed(c) \/ call[c] \in {"empty", "unknown"} \/ thread[c] = "failed" \/ ~up
    /\ Closed(c) /\ thread[c] # "none" ~> thread[c] \in {"ended", "failed"}
=============================================================================
