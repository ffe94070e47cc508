-------------------------- MODULE MessagingProofs ---------------------------
(***************************************************************************)
(* Proofs about the two ways a message gets to its handler: the queue of   *)
(* the storage, for every set of messages and every number of uevents, and *)
(* the socket of the web back end, for every set of clients and whatever   *)
(* each of them calls.                                                     *)
(*                                                                         *)
(* The queue: its safety properties, and its refinement of EventChannel.   *)
(*                                                                         *)
(* The socket: a step is of one client or of that client's thread, so the  *)
(* argument is about one of them (Local).  Where its thread is tells how   *)
(* much of the call is on its way or read (Inbound), whether it was        *)
(* carried out (Carried), and which part of the answer was written         *)
(* (Outbound).                                                             *)
(***************************************************************************)
EXTENDS TmsgProps, RpcServer, TLAPS, SequenceTheorems

\* Which message a listener in mid-send holds.
SendHoldsMsg == lisPc = "send" => lisMsg \in Msg

\* How far the initialising and finishing thread is, and what it has joined.
Phases ==
  /\ mainPc = "create_rec" => recPc = "none"
  /\ mainPc \in {"create_rec", "create_listener"} => lisPc = "none"
  /\ handle = "freed" <=> mainPc = "down"
  /\ mainPc \in {"set_quit", "join_rec", "join_scan", "free"} => lisPc = "done"
  /\ mainPc \in {"join_scan", "free"} => recPc = "done"
  /\ (mainPc = "down" /\ lisPc # "none") => lisPc = "done" /\ recPc = "done"
  /\ quit = 1 => mainPc \in {"join_rec", "join_scan", "free", "down"} /\ lisPc = "done"

\* A take after quit is the last thing the message thread's getter does.
LateTakes ==
  /\ quit = 0 => lateTakes = 0
  /\ recPc \in {"get", "wait"} => lateTakes = 0
  /\ lateTakes <= 1

\* The inductive invariant.
IInv ==
  /\ TypeOK
  /\ FifoNoLoss
  /\ SendHoldsMsg
  /\ Phases
  /\ LateTakes

-----------------------------------------------------------------------------
(* Appending to the queue and moving its head to the history both preserve *)
(* the concatenation history \o queue.                                     *)

LEMMA AppendToConcat ==
  \A s, t \in Seq(Msg), e \in Msg : Append(s \o t, e) = s \o Append(t, e)
<1> SUFFICES ASSUME NEW s \in Seq(Msg), NEW t \in Seq(Msg), NEW e \in Msg
             PROVE  Append(s \o t, e) = s \o Append(t, e)
  OBVIOUS
<1> DEFINE lhs == Append(s \o t, e)
           rhs == s \o Append(t, e)
<1>1. lhs \in Seq(Msg) /\ rhs \in Seq(Msg) /\ Len(lhs) = Len(rhs)
  BY AppendProperties, ConcatProperties
<1>2. ASSUME NEW i \in 1 .. Len(lhs) PROVE lhs[i] = rhs[i]
  BY AppendProperties, ConcatProperties, LenProperties
<1> QED BY <1>1, <1>2, SeqEqual, Zenon

LEMMA MoveHead ==
  ASSUME NEW S, NEW s \in Seq(S), NEW t \in Seq(S), t # << >>
  PROVE  /\ s \o t = Append(s, Head(t)) \o Tail(t)
         /\ Head(t) \in S
         /\ Tail(t) \in Seq(S)
         /\ Len(Tail(t)) = Len(t) - 1
         /\ Head(t) = (s \o t)[Len(s) + 1]
BY HeadTailProperties, AppendProperties, ConcatProperties

-----------------------------------------------------------------------------
(* The invariant is inductive.                                             *)

LEMMA InitIInv == Init => IInv
<1> SUFFICES ASSUME Init PROVE IInv
  OBVIOUS
<1> USE DEF Init
<1>1. << >> \in Seq(Msg) /\ Len(<< >>) = 0 /\ << >> \o << >> = << >>
  BY EmptySeq, ConcatEmptySeq
<1>2. TypeOK
  BY <1>1, MsgAssumption DEF TypeOK, MainPc, LisPc, RecPc
<1>3. FifoNoLoss
  BY <1>1 DEF FifoNoLoss
<1>4. SendHoldsMsg /\ Phases /\ LateTakes
  BY DEF SendHoldsMsg, Phases, LateTakes
<1> QED BY <1>2, <1>3, <1>4 DEF IInv

\* A step of the listener.
LEMMA ListenerIInv == IInv /\ Listener => IInv'
<1> SUFFICES ASSUME IInv, Listener PROVE IInv'
  OBVIOUS
<1> USE DEF IInv
<1> USE DEF queueVars, mainVars, recVars, listenerVars, historyVars
<1>1. CASE ListenerReceive
  BY <1>1, MsgAssumption DEF ListenerReceive, TypeOK, LisPc, FifoNoLoss, SendHoldsMsg, Phases, LateTakes
<1>2. CASE PutMsg
  <2>1. lisMsg \in Msg /\ list' = Append(list, lisMsg) /\ sent' = Append(sent, lisMsg)
    BY <1>2 DEF PutMsg, SendHoldsMsg
  <2>a. list \in Seq(Msg) /\ sent \in Seq(Msg)
    BY DEF TypeOK
  <2>b. /\ Append(list, lisMsg) \in Seq(Msg)
        /\ Len(Append(list, lisMsg)) = Len(list) + 1
        /\ Append(sent, lisMsg) \in Seq(Msg)
    BY <2>1, <2>a, AppendProperties
  <2>2. list' \in Seq(Msg) /\ sent' \in Seq(Msg) /\ Len(list') = Len(list) + 1
    BY <2>1, <2>b
  <2>c. taken \in Seq(Msg) /\ sent = taken \o list
    BY DEF TypeOK, FifoNoLoss
  <2>d. Append(taken \o list, lisMsg) = taken \o Append(list, lisMsg)
    BY <2>1, <2>a, <2>c, AppendToConcat, Zenon
  <2>3. sent' = taken \o list'
    BY <2>1, <2>c, <2>d, Zenon
  <2>4. TypeOK'
    BY <1>2, <2>2 DEF PutMsg, TypeOK, LisPc
  <2>5. FifoNoLoss'
    BY <1>2, <2>2, <2>3 DEF PutMsg, FifoNoLoss
  <2>6. SendHoldsMsg' /\ Phases' /\ LateTakes'
    BY <1>2 DEF PutMsg, SendHoldsMsg, Phases, LateTakes
  <2> QED BY <2>4, <2>5, <2>6
<1>3. CASE SendFails
  BY <1>3 DEF SendFails, TypeOK, LisPc, FifoNoLoss,
     SendHoldsMsg, Phases, LateTakes
<1>4. CASE ListenerExit
  BY <1>4 DEF ListenerExit, TypeOK, LisPc, FifoNoLoss,
     SendHoldsMsg, Phases, LateTakes
<1>5. CASE ListenerStart
  BY <1>5 DEF ListenerStart, TypeOK, LisPc, FifoNoLoss,
     SendHoldsMsg, Phases, LateTakes
<1> QED BY <1>1, <1>2, <1>3, <1>4, <1>5 DEF Listener

\* Taking the first element, with or without a wait before it.
LEMMA TakeFirstIInv ==
  IInv /\ recPc \in {"get", "wait"} /\ TakeFirst => IInv'
<1> SUFFICES ASSUME IInv, recPc \in {"get", "wait"}, TakeFirst PROVE IInv'
  OBVIOUS
<1> USE DEF IInv
<1>1. /\ list' = Tail(list) /\ taken' = Append(taken, Head(list))
      /\ recMsg' = Head(list) /\ sent' = sent
  BY DEF TakeFirst
<1>2. /\ Head(list) \in Msg /\ Tail(list) \in Seq(Msg)
      /\ Len(Tail(list)) = Len(list) - 1
      /\ taken \o list = Append(taken, Head(list)) \o Tail(list)
  BY MoveHead DEF TypeOK, TakeFirst
<1>3. taken' \in Seq(Msg)
  BY <1>1, <1>2, AppendProperties DEF TypeOK
<1>4. num' = num - 1
  BY DEF TakeFirst, NumAfterTake, TypeOK
<1>5. TypeOK'
  BY <1>1, <1>2, <1>3, <1>4 DEF TakeFirst, TypeOK, RecPc, mainVars, listenerVars
<1>6. FifoNoLoss'
  BY <1>1, <1>2, <1>4 DEF FifoNoLoss
<1>7. SendHoldsMsg' /\ Phases' /\ LateTakes'
  BY DEF TakeFirst, SendHoldsMsg, Phases, LateTakes, mainVars, listenerVars, TypeOK, RecPc
<1> QED BY <1>5, <1>6, <1>7

\* A step of the message thread.
LEMMA ReceiverIInv == IInv /\ Receiver => IInv'
<1> SUFFICES ASSUME IInv, Receiver PROVE IInv'
  OBVIOUS
<1>1. CASE GetNow \/ WakeTake
  BY <1>1, TakeFirstIInv DEF GetNow, WakeTake
<1>2. CASE RecLoop \/ GetWait \/ WakeEmpty \/ CallbackAndFree \/ CallbackJoined
  BY <1>2 DEF IInv, RecLoop, GetWait, WakeEmpty, CallbackAndFree, CallbackJoined, TypeOK, RecPc,
     FifoNoLoss, SendHoldsMsg, Phases, LateTakes,
     queueVars, mainVars, recVars, listenerVars, historyVars
<1> QED BY <1>1, <1>2 DEF Receiver

\* A step of the thread that runs init and deinit, or of the scan thread.
LEMMA MainIInv == IInv /\ (InitMain \/ StopListener \/ Shutdown \/ Scan) => IInv'
<1> SUFFICES ASSUME IInv, InitMain \/ StopListener \/ Shutdown \/ Scan PROVE IInv'
  OBVIOUS
<1> USE DEF IInv, TypeOK, MainPc, LisPc, RecPc, FifoNoLoss,
            SendHoldsMsg, Phases, LateTakes,
            queueVars, mainVars, recVars, listenerVars, historyVars
<1>1. CASE CreateRec
  BY <1>1 DEF CreateRec
<1>2. CASE CreateListener
  BY <1>2 DEF CreateListener
<1>3. CASE StopListener
  BY <1>3 DEF StopListener
<1>4. CASE JoinListener
  BY <1>4 DEF JoinListener
<1>5. CASE SetQuit
  BY <1>5 DEF SetQuit
<1>6. CASE JoinRec
  BY <1>6 DEF JoinRec
<1>7. CASE FreeHandle
  BY <1>7 DEF FreeHandle
<1>8. CASE JoinScan
  BY <1>8 DEF JoinScan
<1>9. CASE Scan
  <2>1. deaf' \in BOOLEAN /\ UNCHANGED <<queueVars, mainVars, listenerVars, recVars, historyVars>>
    BY <1>9, Zenon DEF Scan, ScanIsDeaf, ScanHears
  <2> QED BY <2>1
<1> QED BY <1>1, <1>2, <1>3, <1>4, <1>5, <1>6, <1>7, <1>8, <1>9 DEF InitMain, Shutdown

LEMMA Invariance == Spec => []IInv
<1>1. IInv /\ [Next]_vars => IInv'
  <2> SUFFICES ASSUME IInv, [Next]_vars PROVE IInv'
    OBVIOUS
  <2>1. CASE UNCHANGED vars
    BY <2>1 DEF vars, IInv, TypeOK, FifoNoLoss, SendHoldsMsg,
       Phases, LateTakes, queueVars, mainVars, recVars, listenerVars, historyVars
  <2> QED BY <2>1, ListenerIInv, ReceiverIInv, MainIInv DEF Next
<1> QED BY <1>1, InitIInv, PTL DEF Spec

-----------------------------------------------------------------------------
(* The theorems.                                                           *)

\* Elements, counters and program counters of the queue and its three threads
\* stay within their types.
THEOREM TypeCorrect == Spec => []TypeOK
BY Invariance, PTL DEF IInv

\* Nothing queued by the listener is lost, duplicated or reordered before the
\* message thread has it, and the counter that thread trusts counts the chain.
THEOREM DeliveryInOrder == Spec => []FifoNoLoss
BY Invariance, PTL DEF IInv

\* rkipc_storage_manager_deinit frees the handle only when neither thread runs.
THEOREM HandleSafe == Spec => []HandleOutlivesThreads
<1>1. IInv => HandleOutlivesThreads
  BY DEF IInv, Phases, HandleOutlivesThreads
<1> QED BY <1>1, Invariance, PTL

\* Setting quit lets the message thread take at most one message more.
THEOREM QuitIsPrompt == Spec => []AtMostOneLateTake
<1>1. IInv => AtMostOneLateTake
  BY DEF IInv, Phases, LateTakes, AtMostOneLateTake
<1> QED BY <1>1, Invariance, PTL

\* The queue of storage.c implements the abstract channel: accepting a message
\* is Send, unlinking the first element is Receive, setting quit is Close.
THEOREM ImplementsChannel == Spec => ChannelSpec
<1>1. Init => Channel!ChanInit
  BY DEF Init, Channel!ChanInit
<1>2. IInv /\ [Next]_vars => [Channel!ChanNext]_Channel!chanVars
  <2> SUFFICES ASSUME IInv, [Next]_vars
               PROVE  [Channel!ChanNext]_Channel!chanVars
    OBVIOUS
  <2> USE DEF Channel!chanVars, Channel!ChanNext
  <2>1. CASE PutMsg
    <3>1. lisMsg \in Msg /\ quit # 1
      BY <2>1 DEF PutMsg, IInv, SendHoldsMsg, Phases
    <3> QED BY <2>1, <3>1 DEF PutMsg, Channel!Send, mainVars
  <2>2. CASE GetNow \/ WakeTake
    <3>1. TakeFirst
      BY <2>2 DEF GetNow, WakeTake
    <3>2. /\ Head(list) = sent[Len(taken) + 1]
          /\ Len(taken) < Len(sent)
      BY <3>1, MoveHead, ConcatProperties, LenProperties, EmptySeq
         DEF TakeFirst, IInv, TypeOK, FifoNoLoss
    <3> QED BY <3>1, <3>2 DEF TakeFirst, Channel!Receive, mainVars
  <2>3. CASE SetQuit
    BY <2>3 DEF SetQuit, Channel!Close, IInv, Phases, historyVars
  <2>4. CASE UNCHANGED <<sent, taken, quit>>
    BY <2>4
  <2> QED
    BY <2>1, <2>2, <2>3, <2>4
       DEF Next, Listener, Receiver, InitMain, Shutdown, ListenerStart, ListenerReceive, SendFails,
           ListenerExit, RecLoop, GetWait, WakeEmpty, CallbackAndFree, CallbackJoined, CreateRec,
           CreateListener, StopListener, JoinListener, JoinRec, JoinScan, FreeHandle,
           Scan, ScanIsDeaf, ScanHears, vars,
           queueVars, mainVars, recVars, listenerVars, historyVars
<1> QED BY <1>1, <1>2, Invariance, PTL DEF Spec, ChannelSpec, Channel!ChanSpec

-----------------------------------------------------------------------------
(* The socket.                                                             *)

Arity(c) == Args[call[c]]
Acting   == {"get", "set", "one", "do", "text", "net"}
\* An empty string is acted on only when the read of its length has failed.
Acts(c)  == call[c] \in Acting \/ (wild[c] /\ call[c] \in {"empty", "noif"})

\* The server has not read the name of the call yet.
Fresh(c) == written[c] = -1 \/ (toServer[c] # << >> /\ Head(toServer[c]) = "name")

\* What CallsMeant says of a call that was carried out.
Meant(c) == \/ written[c] = Arity(c)
            \/ /\ wild[c] /\ cli[c] = "dead"
               /\ written[c] = Arity(c) - 1 \/ (call[c] \in Texts /\ written[c] = 0)

\* The direction to the server: the name is the first token of all, and a
\* handler in the middle of its arguments has read the ones before.
Inbound(c) ==
  /\ written[c] <= Arity(c)
  /\ \A i \in 1..Len(toServer[c]) : toServer[c][i] = "name" <=> i = 1 /\ Fresh(c)
  /\ Fresh(c) => /\ thread[c] \in {"none", "hello", "name", "failed", "ended"}
                 /\ Len(toServer[c]) = written[c] + 1
                 /\ effects[c] = 0 /\ ~wild[c]
  /\ thread[c] \in {"none", "hello", "failed"} => Fresh(c)
  /\ wild[c] => cli[c] = "dead" /\ ~err[c]
  /\ err[c] => cli[c] = "dead"
  /\ thread[c] = "args" =>
       /\ call[c] # "unknown" /\ got[c] < Arity(c)
       /\ IF wild[c] THEN toServer[c] = << >> /\ got[c] = 1 /\ written[c] = 0
                     ELSE Len(toServer[c]) = written[c] - got[c]
  /\ thread[c] \in {"effect", "answer"} => Acts(c)
  /\ thread[c] \in {"effect", "answer", "ready", "name"} /\ ~Fresh(c) /\ call[c] # "unknown" =>
       toServer[c] = << >> /\ Meant(c)

\* The calls carried out.
Carried(c) ==
  /\ effects[c] \in {0, 1}
  /\ effects[c] = 1 => Acts(c) /\ Meant(c)
  /\ thread[c] \in {"args", "effect"} => effects[c] = 0
  /\ thread[c] = "answer" => effects[c] = 1
  /\ thread[c] = "ready" /\ call[c] \in Acting /\ ~wild[c] => effects[c] = 1

\* How much of the answer, with the first and the last int, has been written.
Answered(c) ==
  CASE thread[c] \in {"none", "hello", "failed"} -> 0
    [] thread[c] \in {"args", "effect"} -> 1
    [] thread[c] = "answer" -> 1 + got[c]
    [] thread[c] = "ready" -> 1 + Len(Answer(call[c]))
    [] thread[c] \in {"name", "lost"} -> IF Fresh(c) THEN 1 ELSE 2 + Len(Answer(call[c]))
    [] thread[c] = "ended" -> 1 + Len(Answer(call[c]))

\* The direction to the client: what it has read and what is on its way.
Outbound(c) ==
  /\ thread[c] = "answer" => IF wild[c] THEN got[c] = 0 ELSE got[c] < Len(Answer(call[c]))
  /\ \A i \in 1..Len(took[c]) :
       /\ call[c] \notin Odd => i <= Len(Expected(c)) /\ took[c][i] = Expected(c)[i]
       /\ took[c][i] = "ret" => effects[c] = 1
  /\ \A i \in 1..Len(toClient[c]) : toClient[c][i] = "ret" => effects[c] = 1
  /\ ~Closed(c) /\ call[c] \notin Odd =>
       /\ Len(took[c]) + Len(toClient[c]) = Answered(c)
       /\ \A i \in 1..Len(toClient[c]) : toClient[c][i] = Expected(c)[Len(took[c]) + i]

CallInv == \A c \in Clients : Inbound(c) /\ Carried(c) /\ Outbound(c)
-----------------------------------------------------------------------------
\* The kinds of calls.
LEMMA KindFacts ==
  ASSUME NEW k \in Kinds
  PROVE  /\ Args[k] \in 0..2
         /\ Answer(k) \in Seq(Token) /\ Len(Answer(k)) \in 0..2
         /\ k \in Acting \cup {"empty", "json", "noif", "unknown"}
         /\ k \in Acting => Len(Answer(k)) > 0
         /\ Args[k] = 0 => k = "do"
         /\ Args["do"] = 0 /\ Args["unknown"] = 1
<1>1. k \in {"get", "set", "one", "do", "text", "empty", "json", "net", "noif", "unknown"}
  BY DEF Kinds, Args
<1>2. Args[k] \in 0..2 /\ (Args[k] = 0 => k = "do") /\ Args["do"] = 0 /\ Args["unknown"] = 1
  BY <1>1 DEF Args
<1>3. k \in {"get", "net"} => Answer(k) = <<"value", "ret">>
  BY DEF Answer
<1>4. k \in {"set", "one", "do", "text"} => Answer(k) = <<"ret">>
  BY DEF Answer
<1>5. k \in {"empty", "json", "noif", "unknown"} => Answer(k) = << >>
  BY DEF Answer
<1>6. <<"value", "ret">> \in Seq(Token) /\ Len(<<"value", "ret">>) = 2
  BY DEF Token
<1>7. <<"ret">> \in Seq(Token) /\ Len(<<"ret">>) = 1
  BY DEF Token
<1>8. << >> \in Seq(Token) /\ Len(<< >>) = 0
  BY EmptySeq
<1>9. Answer(k) \in Seq(Token) /\ Len(Answer(k)) \in 0..2 /\ (k \in Acting => Len(Answer(k)) > 0)
  <2>1. CASE k \in {"get", "net"}
    <3>1. Answer(k) = <<"value", "ret">>
      BY <1>3, <2>1
    <3> QED BY <1>6, <3>1
  <2>2. CASE k \in {"set", "one", "do", "text"}
    <3>1. Answer(k) = <<"ret">>
      BY <1>4, <2>2
    <3> QED BY <1>7, <3>1
  <2>3. CASE k \in {"empty", "json", "noif", "unknown"}
    <3>1. Answer(k) = << >> /\ k \notin Acting
      BY <1>5, <2>3 DEF Acting
    <3> QED BY <1>8, <3>1
  <2> QED BY <1>1, <2>1, <2>2, <2>3
<1> QED BY <1>1, <1>2, <1>9 DEF Acting

\* What a client that is not odd expects: first int, answer, last int.
LEMMA ExpectedFacts ==
  ASSUME NEW c \in Clients, call[c] \in Kinds, call[c] \notin Odd
  PROVE  /\ Len(Expected(c)) = 2 + Len(Answer(call[c]))
         /\ Expected(c) \in Seq(Token)
         /\ Expected(c)[1] = "hello"
         /\ \A n \in 1..Len(Answer(call[c])) : Expected(c)[1 + n] = Answer(call[c])[n]
         /\ Expected(c)[2 + Len(Answer(call[c]))] = "ready"
<1> DEFINE a == Answer(call[c])
<1>1. a \in Seq(Token) /\ Len(a) \in Nat
  BY KindFacts
<1>2. Expected(c) = (<<"hello">> \o a) \o <<"ready">>
  BY DEF Expected, Awaited, Odd
<1>3. <<"hello">> \in Seq(Token) /\ <<"ready">> \in Seq(Token)
  BY DEF Token
<1> HIDE DEF a
<1>4. /\ <<"hello">> \o a \in Seq(Token) /\ Len(<<"hello">> \o a) = 1 + Len(a)
      /\ (<<"hello">> \o a)[1] = "hello"
      /\ \A n \in 1..Len(a) : (<<"hello">> \o a)[1 + n] = a[n]
  BY <1>1, <1>3, ConcatProperties
<1>5. /\ Expected(c) \in Seq(Token) /\ Len(Expected(c)) = 2 + Len(a)
      /\ \A n \in 1..(1 + Len(a)) : Expected(c)[n] = (<<"hello">> \o a)[n]
      /\ Expected(c)[2 + Len(a)] = "ready"
  BY <1>1, <1>2, <1>3, <1>4, ConcatProperties
<1>6. Expected(c)[1] = "hello"
  BY <1>1, <1>4, <1>5
<1>7. \A n \in 1..Len(a) : Expected(c)[1 + n] = a[n]
  BY <1>1, <1>4, <1>5
<1> QED BY <1>5, <1>6, <1>7 DEF a

\* A step is of one client, or main's.
Step(c) ==
  Connect(c) \/ Write(c) \/ Read(c) \/ Die(c) \/ SeeEnd(c) \/ Accept(c) \/ Thread(c)

Same(d) ==
  /\ thread'[d] = thread[d] /\ cli'[d] = cli[d] /\ call'[d] = call[d]
  /\ written'[d] = written[d] /\ took'[d] = took[d]
  /\ toServer'[d] = toServer[d] /\ toClient'[d] = toClient[d]
  /\ err'[d] = err[d] /\ got'[d] = got[d] /\ wild'[d] = wild[d] /\ effects'[d] = effects[d]

LEMMA OthersSame ==
  ASSUME RpcTypeOK, NEW c \in Clients, Step(c)
  PROVE  \A d \in Clients \ {c} : Same(d)
<1> SUFFICES ASSUME NEW d \in Clients \ {c} PROVE Same(d)
  OBVIOUS
<1> USE DEF RpcTypeOK, Same, serverVars, clientVars, callVars
<1>1. CASE Connect(c) \/ Write(c) \/ Die(c) \/ SeeEnd(c)
  BY <1>1 DEF Connect, Write, Die, SeeEnd
<1>2. CASE Read(c)
  BY <1>2 DEF Read
<1>3. CASE Accept(c)
  BY <1>3 DEF Accept
<1>4. CASE Hello(c) \/ Reply(c)
  BY <1>4 DEF Hello, Reply, Send, Goto
<1>5. CASE Name(c) \/ Lost(c)
  BY <1>5 DEF Name, Lost, Goto
<1>6. CASE Arg(c)
  BY <1>6 DEF Arg, Goto
<1>7. CASE Effect(c) \/ Ready(c)
  BY <1>7 DEF Effect, Ready, Goto
<1> QED BY <1>1, <1>2, <1>3, <1>4, <1>5, <1>6, <1>7 DEF Step, Thread

LEMMA SameKeeps ==
  ASSUME NEW d \in Clients, Same(d), Inbound(d), Carried(d), Outbound(d)
  PROVE  (Inbound(d) /\ Carried(d) /\ Outbound(d))'
<1>1. /\ Fresh(d)' = Fresh(d) /\ Meant(d)' = Meant(d) /\ Arity(d)' = Arity(d)
      /\ Closed(d)' = Closed(d) /\ Expected(d)' = Expected(d) /\ Acts(d)' = Acts(d)
  BY DEF Same, Fresh, Meant, Arity, Closed, Expected, Acts
<1>2. Answered(d)' = Answered(d)
  BY <1>1 DEF Same, Answered
<1>3. Inbound(d)'
  BY <1>1 DEF Same, Inbound
<1>4. Carried(d)'
  BY <1>1 DEF Same, Carried
<1>5. Outbound(d)'
  BY <1>1, <1>2 DEF Same, Outbound
<1> QED BY <1>3, <1>4, <1>5

LEMMA NextRpcTyped ==
  ASSUME RpcTypeOK, CallInv, [RpcNext]_rpcVars
  PROVE  RpcTypeOK'
<1> USE DEF RpcTypeOK, serverVars, clientVars, callVars
<1>0. \A c \in Clients : Args[call[c]] \in 0..2 /\ Answer(call[c]) \in Seq(Token)
                         /\ Len(Answer(call[c])) \in 0..2
  BY KindFacts
<1>1. ASSUME NEW c \in Clients, Connect(c) \/ Die(c) \/ SeeEnd(c) PROVE RpcTypeOK'
  BY <1>1 DEF Connect, Die, SeeEnd
<1>2. ASSUME NEW c \in Clients, Write(c) PROVE RpcTypeOK'
  <2>0. Args[call[c]] \in 0..2 /\ written[c] \in -1..2 /\ written[c] < Args[call[c]]
    BY <1>0, <1>2 DEF Write
  <2>1. written[c] + 1 \in -1..2
    BY <2>0
  <2>2. Append(toServer[c], IF written[c] = -1 THEN "name" ELSE "arg") \in Seq({"name", "arg"})
    BY AppendProperties
  <2> QED BY <1>2, <2>1, <2>2 DEF Write
<1>3. ASSUME NEW c \in Clients, Read(c) PROVE RpcTypeOK'
  <2>1. Head(toClient[c]) \in Token /\ Tail(toClient[c]) \in Seq(Token)
    BY <1>3, HeadTailProperties DEF Read
  <2>2. Append(took[c], Head(toClient[c])) \in Seq(Token)
    BY <2>1, AppendProperties
  <2> QED BY <1>3, <2>1, <2>2 DEF Read
<1>4. ASSUME NEW c \in Clients, Accept(c) PROVE RpcTypeOK'
  <2>1. thread' \in [Clients -> ThreadPc]
    BY <1>4 DEF Accept, ThreadPc
  <2>2. fails' \in Nat /\ listener' \in {"accept", "ended"}
    BY <1>4 DEF Accept
  <2> QED BY <1>4, <2>1, <2>2 DEF Accept
<1>5. ASSUME NEW c \in Clients, Hello(c) PROVE RpcTypeOK'
  <2>1. Append(toClient[c], "hello") \in Seq(Token)
    BY AppendProperties DEF Token
  <2> QED BY <1>5, <2>1 DEF Hello, Send, Goto, ThreadPc
<1>6. ASSUME NEW c \in Clients, Name(c) PROVE RpcTypeOK'
  <2>1. toServer[c] # << >> => Tail(toServer[c]) \in Seq({"name", "arg"})
    BY HeadTailProperties
  <2>2. thread' \in [Clients -> ThreadPc]
    BY <1>6 DEF Name, Goto, ThreadPc
  <2>3. toServer' \in [Clients -> Seq({"name", "arg"})]
    BY <1>6, <2>1 DEF Name
  <2>4. got' = got \/ got' = [got EXCEPT ![c] = 0]
    BY <1>6 DEF Name
  <2>5. got' \in [Clients -> 0..2]
    <3>1. got \in [Clients -> 0..2] /\ 0 \in 0..2
      OBVIOUS
    <3> HIDE DEF RpcTypeOK
    <3> QED BY <2>4, <3>1
  <2>6. UNCHANGED <<serverVars, clientVars, toClient, err, wild, effects, fails>>
    BY <1>6 DEF Name
  <2> QED BY <2>2, <2>3, <2>5, <2>6
<1>7. ASSUME NEW c \in Clients, Lost(c) \/ Ready(c) PROVE RpcTypeOK'
  <2>1. Append(toClient[c], "ready") \in Seq(Token)
    BY AppendProperties DEF Token
  <2>2. toClient' \in [Clients -> Seq(Token)]
    BY <1>7, <2>1 DEF Lost, Ready
  <2>3. thread' \in [Clients -> ThreadPc]
    BY <1>7 DEF Lost, Ready, Goto, ThreadPc
  <2>4. UNCHANGED <<serverVars, clientVars, toServer, err, callVars, fails>>
    BY <1>7 DEF Lost, Ready
  <2> QED BY <2>2, <2>3, <2>4
<1>8. ASSUME NEW c \in Clients, Arg(c) PROVE RpcTypeOK'
  <2>1. toServer[c] # << >> => Tail(toServer[c]) \in Seq({"name", "arg"})
    BY HeadTailProperties
  <2>2. got[c] + 1 \in 0..2
    <3>1. Inbound(c) /\ thread[c] = "args"
      BY <1>8 DEF CallInv, Arg
    <3>2. got[c] < Args[call[c]]
      BY <3>1 DEF Inbound, Arity
    <3>3. Args[call[c]] \in 0..2 /\ got[c] \in 0..2
      BY <1>0
    <3> QED BY <3>2, <3>3
  <2>3. /\ AllRead(c) \in ThreadPc /\ "args" \in ThreadPc /\ "ended" \in ThreadPc
        /\ NoLength(c) \subseteq ThreadPc
    BY DEF AllRead, NoLength, ThreadPc
  <2>4. thread' \in [Clients -> ThreadPc]
    <3>1. PICK l \in ThreadPc : thread' = [thread EXCEPT ![c] = l]
      BY <1>8, <2>3, Zenon DEF Arg, Goto
    <3> HIDE DEF ThreadPc
    <3> QED BY <3>1
  <2>5. toServer' \in [Clients -> Seq({"name", "arg"})]
    BY <1>8, <2>1 DEF Arg
  <2>6. got' \in [Clients -> 0..2]
    BY <1>8, <2>2 DEF Arg
  <2>7. err' \in [Clients -> BOOLEAN] /\ wild' \in [Clients -> BOOLEAN]
    BY <1>8 DEF Arg
  <2> QED BY <1>8, <2>4, <2>5, <2>6, <2>7 DEF Arg
<1>9. ASSUME NEW c \in Clients, Effect(c) PROVE RpcTypeOK'
  BY <1>9 DEF Effect, Goto, ThreadPc
<1>10. ASSUME NEW c \in Clients, Reply(c) PROVE RpcTypeOK'
  <2>1. /\ got[c] + 1 \in 0..2
        /\ ~Closed(c) => got[c] + 1 \in 1..Len(Answer(call[c]))
    <3>1. Outbound(c) /\ Inbound(c) /\ thread[c] = "answer"
      BY <1>10 DEF CallInv, Reply
    <3>2. IF wild[c] THEN got[c] = 0 /\ Closed(c) ELSE got[c] < Len(Answer(call[c]))
      BY <3>1 DEF Outbound, Inbound, Closed
    <3>3. Len(Answer(call[c])) \in 0..2 /\ got[c] \in 0..2
      BY <1>0
    <3>4. \A g, n \in 0..2 : g < n => g + 1 \in 1..n /\ g + 1 \in 0..2
      OBVIOUS
    <3>5. CASE wild[c]
      <4>1. got[c] = 0 /\ Closed(c)
        BY <3>2, <3>5
      <4> QED BY <4>1
    <3>6. CASE ~wild[c]
      <4>1. got[c] < Len(Answer(call[c]))
        BY <3>2, <3>6
      <4> QED BY <3>3, <3>4, <4>1
    <3> QED BY <3>5, <3>6
  <2>2. ~Closed(c) => Append(toClient[c], Answer(call[c])[got[c] + 1]) \in Seq(Token)
    BY <1>0, <2>1, AppendProperties, ElementOfSeq
  <2>3. thread' \in [Clients -> ThreadPc]
    <3>1. PICK l \in {"answer", "ready", "ended"} :
            thread' = [thread EXCEPT ![c] = IF Closed(c) THEN "ended" ELSE l]
      BY <1>10 DEF Reply, Send, Goto
    <3> QED BY <3>1 DEF ThreadPc
  <2>4. toClient' \in [Clients -> Seq(Token)]
    BY <1>10, <2>2 DEF Reply, Send
  <2>5. got' \in [Clients -> 0..2]
    BY <1>10, <2>1 DEF Reply
  <2>6. UNCHANGED <<serverVars, clientVars, toServer, err, wild, effects, fails>>
    BY <1>10 DEF Reply
  <2> QED BY <2>3, <2>4, <2>5, <2>6
<1>11. CASE Deinit \/ UNCHANGED rpcVars
  BY <1>11 DEF Deinit, rpcVars
<1> QED BY <1>1, <1>2, <1>3, <1>4, <1>5, <1>6, <1>7, <1>8, <1>9, <1>10, <1>11 DEF RpcNext, Thread

-----------------------------------------------------------------------------
(* What a step of a client, or of its thread, does to that client's part.  *)

Local(c) == Inbound(c) /\ Carried(c) /\ Outbound(c)

LEMMA ConnectLocal ==
  ASSUME RpcTypeOK, NEW c \in Clients, Local(c), Connect(c)
  PROVE  Local(c)'
<1>1. /\ cli[c] = "idle" /\ cli'[c] = "connected"
      /\ UNCHANGED <<thread, call, written, took, toServer, toClient, err, got, wild, effects>>
  BY DEF Connect, RpcTypeOK, clientVars, callVars
<1>2. /\ Fresh(c)' = Fresh(c) /\ Answered(c)' = Answered(c) /\ Expected(c)' = Expected(c)
      /\ Arity(c)' = Arity(c) /\ ~Closed(c) /\ (Meant(c) => Meant(c)')
      /\ Acts(c)' = Acts(c)
  BY <1>1 DEF Fresh, Answered, Expected, Arity, Closed, Meant, Acts
<1>3. Inbound(c)' /\ Carried(c)'
  BY <1>1, <1>2 DEF Local, Inbound, Carried
<1>4. Outbound(c)'
  BY <1>1, <1>2 DEF Local, Outbound
<1> QED BY <1>3, <1>4 DEF Local

LEMMA DieLocal ==
  ASSUME RpcTypeOK, NEW c \in Clients, Local(c), Die(c)
  PROVE  Local(c)'
<1>1. /\ cli[c] = "connected" /\ cli'[c] = "dead"
      /\ UNCHANGED <<thread, call, written, took, toServer, toClient, got, wild, effects>>
  BY DEF Die, RpcTypeOK, clientVars, callVars
<1>2. /\ Fresh(c)' = Fresh(c) /\ Expected(c)' = Expected(c) /\ ~wild[c]
      /\ Arity(c)' = Arity(c) /\ Closed(c)' /\ (Meant(c) => Meant(c)') /\ Acts(c)' = Acts(c)
  BY <1>1 DEF Fresh, Expected, Arity, Closed, Meant, Local, Inbound, Acts
<1>3. Inbound(c)' /\ Carried(c)'
  BY <1>1, <1>2 DEF Local, Inbound, Carried
<1>4. Outbound(c)'
  BY <1>1, <1>2 DEF Local, Outbound
<1> QED BY <1>3, <1>4 DEF Local

LEMMA SeeEndLocal ==
  ASSUME RpcTypeOK, NEW c \in Clients, Local(c), SeeEnd(c)
  PROVE  Local(c)'
<1>1. /\ cli[c] = "connected" /\ cli'[c] = "dead"
      /\ UNCHANGED <<thread, call, written, took, toServer, toClient, err, got, wild, effects>>
  BY DEF SeeEnd, RpcTypeOK, clientVars, callVars
<1>2. /\ Fresh(c)' = Fresh(c) /\ Expected(c)' = Expected(c) /\ ~wild[c]
      /\ Arity(c)' = Arity(c) /\ Closed(c)' /\ (Meant(c) => Meant(c)') /\ Acts(c)' = Acts(c)
  BY <1>1 DEF Fresh, Expected, Arity, Closed, Meant, Local, Inbound, Acts
<1>3. Inbound(c)' /\ Carried(c)'
  BY <1>1, <1>2 DEF Local, Inbound, Carried
<1>4. Outbound(c)'
  BY <1>1, <1>2 DEF Local, Outbound
<1> QED BY <1>3, <1>4 DEF Local

LEMMA WriteLocal ==
  ASSUME RpcTypeOK, NEW c \in Clients, Local(c), Write(c)
  PROVE  Local(c)'
<1> DEFINE token == IF written[c] = -1 THEN "name" ELSE "arg"
<1>1. /\ cli[c] = "connected" /\ written[c] < Arity(c)
      /\ written'[c] = written[c] + 1 /\ toServer'[c] = Append(toServer[c], token)
      /\ UNCHANGED <<thread, cli, call, took, toClient, err, got, wild, effects>>
  BY DEF Write, RpcTypeOK, clientVars, callVars, Arity
<1>2. /\ toServer[c] \in Seq({"name", "arg"}) /\ Len(toServer[c]) \in Nat
      /\ written[c] \in -1..2 /\ Arity(c) \in 0..2
  BY KindFacts DEF RpcTypeOK, Arity
<1>3. /\ Len(toServer'[c]) = Len(toServer[c]) + 1 /\ toServer'[c] # << >>
      /\ \A i \in 1..Len(toServer[c]) : toServer'[c][i] = toServer[c][i]
      /\ toServer'[c][Len(toServer[c]) + 1] = token
  <2>1. token \in {"name", "arg"} /\ toServer'[c] = Append(toServer[c], token)
    BY <1>1
  <2> HIDE DEF token
  <2>2. toServer[c] \in Seq({"name", "arg"})
    BY <1>2
  <2>3. /\ Append(toServer[c], token) # << >>
        /\ Len(Append(toServer[c], token)) = Len(toServer[c]) + 1
        /\ \A i \in 1..Len(toServer[c]) : Append(toServer[c], token)[i] = toServer[c][i]
        /\ Append(toServer[c], token)[Len(toServer[c]) + 1] = token
    BY <2>1, <2>2, AppendProperties
  <2> QED BY <2>1, <2>3
<1>4. toServer[c] = << >> => Len(toServer[c]) = 0
  OBVIOUS
<1>5. /\ ~wild[c] /\ ~Meant(c) /\ Arity(c)' = Arity(c) /\ Expected(c)' = Expected(c)
      /\ ~Closed(c)' /\ Acts(c)' = Acts(c)
  BY <1>1, <1>2 DEF Local, Inbound, Meant, Arity, Expected, Closed, Acts
<1>6. Fresh(c)' = Fresh(c)
  <2>1. CASE written[c] = -1
    <3>1. Len(toServer[c]) = 0
      BY <1>2, <2>1 DEF Local, Inbound, Fresh
    <3> QED BY <1>3, <2>1, <3>1 DEF Fresh
  <2>2. CASE written[c] # -1 /\ toServer[c] = << >>
    BY <1>1, <1>2, <1>3, <1>4, <2>2 DEF Fresh
  <2>3. CASE written[c] # -1 /\ toServer[c] # << >>
    <3>1. Len(toServer[c]) >= 1
      BY <1>2, <2>3
    <3> QED BY <1>1, <1>2, <1>3, <2>3, <3>1 DEF Fresh
  <2> QED BY <2>1, <2>2, <2>3
<1>7. \A i \in 1..Len(toServer'[c]) : toServer'[c][i] = "name" <=> i = 1 /\ Fresh(c)
  <2>1. CASE written[c] = -1
    <3>1. Len(toServer[c]) = 0 /\ Fresh(c)
      BY <1>2, <2>1 DEF Local, Inbound, Fresh
    <3> QED BY <1>3, <2>1, <3>1
  <2>2. CASE written[c] # -1
    <3>1. Len(toServer[c]) = 0 => ~Fresh(c)
      BY <1>2, <2>2 DEF Local, Inbound, Fresh
    <3> QED BY <1>2, <1>3, <2>2, <3>1 DEF Local, Inbound
  <2> QED BY <2>1, <2>2
<1>8. Inbound(c)'
  <2> USE <1>1, <1>2, <1>5, <1>6 DEF Local, Inbound
  <2>1. (written[c] <= Arity(c))'
    BY DEF Arity
  <2>2. (\A i \in 1..Len(toServer[c]) : toServer[c][i] = "name" <=> i = 1 /\ Fresh(c))'
    BY <1>7
  <2>3. (Fresh(c) => /\ thread[c] \in {"none", "hello", "name", "failed", "ended"}
                     /\ Len(toServer[c]) = written[c] + 1
                     /\ effects[c] = 0 /\ ~wild[c])'
    BY <1>3
  <2>4. (thread[c] = "args" =>
           /\ call[c] # "unknown" /\ got[c] < Arity(c)
           /\ IF wild[c] THEN toServer[c] = << >> /\ got[c] = 1 /\ written[c] = 0
                         ELSE Len(toServer[c]) = written[c] - got[c])'
    BY <1>3, got[c] \in 0..2 DEF RpcTypeOK
  <2>5. (thread[c] \in {"effect", "answer", "ready", "name"} /\ ~Fresh(c) /\ call[c] # "unknown" =>
           toServer[c] = << >> /\ Meant(c))'
    OBVIOUS
  <2> QED BY <2>1, <2>2, <2>3, <2>4, <2>5
<1>9. Carried(c)'
  BY <1>1, <1>5 DEF Local, Carried
<1>10. Outbound(c)'
  <2>1. Answered(c)' = Answered(c) /\ Closed(c)' = Closed(c)
    BY <1>1, <1>6 DEF Answered, Closed
  <2> QED BY <1>1, <1>5, <2>1 DEF Local, Outbound
<1> QED BY <1>8, <1>9, <1>10 DEF Local

LEMMA ReadLocal ==
  ASSUME RpcTypeOK, NEW c \in Clients, Local(c), Read(c)
  PROVE  Local(c)'
<1> DEFINE n == Len(took[c])
<1>1. /\ cli[c] = "connected" /\ cli'[c] \in {"connected", "done"} /\ toClient[c] # << >>
      /\ took'[c] = Append(took[c], Head(toClient[c])) /\ toClient'[c] = Tail(toClient[c])
      /\ UNCHANGED <<thread, call, written, toServer, err, got, wild, effects>>
  BY DEF Read, RpcTypeOK, clientVars, callVars
<1>2. /\ Fresh(c)' = Fresh(c) /\ Expected(c)' = Expected(c) /\ ~wild[c]
      /\ Arity(c)' = Arity(c) /\ ~Closed(c) /\ (Meant(c) => Meant(c)') /\ Answered(c)' = Answered(c)
      /\ Acts(c)' = Acts(c)
  BY <1>1 DEF Fresh, Expected, Arity, Closed, Meant, Local, Inbound, Answered, Acts
<1>3. Inbound(c)' /\ Carried(c)'
  BY <1>1, <1>2 DEF Local, Inbound, Carried
<1>4. /\ took[c] \in Seq(Token) /\ toClient[c] \in Seq(Token) /\ n \in Nat
      /\ Head(toClient[c]) \in Token
  BY <1>1, HeadTailProperties DEF RpcTypeOK
<1>5. /\ Len(took'[c]) = n + 1 /\ took'[c][n + 1] = toClient[c][1]
      /\ \A i \in 1..n : took'[c][i] = took[c][i]
  BY <1>1, <1>4, AppendProperties
<1>6. /\ Len(toClient[c]) \in Nat /\ Len(toClient[c]) >= 1
      /\ Len(toClient'[c]) = Len(toClient[c]) - 1
      /\ \A i \in 1..Len(toClient'[c]) : toClient'[c][i] = toClient[c][i + 1]
  BY <1>1, <1>4
<1> HIDE DEF n
<1>7. call[c] \notin Odd => /\ n + Len(toClient[c]) <= Len(Expected(c))
                           /\ toClient[c][1] = Expected(c)[n + 1]
                           /\ \A i \in 1..Len(toClient[c]) : toClient[c][i] = Expected(c)[n + i]
  <2> SUFFICES ASSUME call[c] \notin Odd
               PROVE  /\ n + Len(toClient[c]) <= Len(Expected(c))
                      /\ toClient[c][1] = Expected(c)[n + 1]
                      /\ \A i \in 1..Len(toClient[c]) : toClient[c][i] = Expected(c)[n + i]
    OBVIOUS
  <2>1. n + Len(toClient[c]) = Answered(c)
    BY <1>2 DEF Local, Outbound, n
  <2>2. Len(Expected(c)) = 2 + Len(Answer(call[c])) /\ Len(Answer(call[c])) \in 0..2
    BY ExpectedFacts, KindFacts DEF RpcTypeOK
  <2>3. thread[c] \in ThreadPc /\ got[c] \in 0..2
    BY DEF RpcTypeOK
  <2>4. Answered(c) <= 2 + Len(Answer(call[c]))
    BY <2>2, <2>3 DEF Answered, ThreadPc, Local, Outbound
  <2>5. \A i \in 1..Len(toClient[c]) : toClient[c][i] = Expected(c)[n + i]
    BY <1>2 DEF Local, Outbound, n
  <2> QED BY <1>4, <1>6, <2>1, <2>2, <2>4, <2>5
<1>8. (\A i \in 1..Len(took[c]) :
         /\ call[c] \notin Odd => i <= Len(Expected(c)) /\ took[c][i] = Expected(c)[i]
         /\ took[c][i] = "ret" => effects[c] = 1)'
  <2> SUFFICES ASSUME NEW i \in 1..(n + 1)
               PROVE  /\ call[c] \notin Odd => i <= Len(Expected(c)) /\ took'[c][i] = Expected(c)[i]
                      /\ took'[c][i] = "ret" => effects[c] = 1
    BY <1>1, <1>2, <1>5
  <2>1. CASE i \in 1..n
    BY <1>5, <2>1 DEF Local, Outbound, n
  <2>2. CASE i = n + 1
    <3>1. toClient[c][1] = "ret" => effects[c] = 1
      BY <1>6 DEF Local, Outbound
    <3>2. call[c] \notin Odd => Len(Expected(c)) \in Nat
      BY ExpectedFacts DEF RpcTypeOK
    <3> QED BY <1>4, <1>5, <1>6, <1>7, <2>2, <3>1, <3>2
  <2> QED BY <1>4, <2>1, <2>2
<1>9. (\A i \in 1..Len(toClient[c]) : toClient[c][i] = "ret" => effects[c] = 1)'
  BY <1>1, <1>6 DEF Local, Outbound
<1>10. (call[c] \notin Odd =>
         /\ Len(took[c]) + Len(toClient[c]) = Answered(c)
         /\ \A i \in 1..Len(toClient[c]) : toClient[c][i] = Expected(c)[Len(took[c]) + i])'
  <2>1. call[c] \notin Odd => n + Len(toClient[c]) = Answered(c)
    BY <1>2 DEF Local, Outbound, n
  <2> SUFFICES ASSUME call[c] \notin Odd
               PROVE  /\ Len(took'[c]) + Len(toClient'[c]) = Answered(c)
                      /\ \A i \in 1..Len(toClient'[c]) :
                           toClient'[c][i] = Expected(c)[Len(took'[c]) + i]
    BY <1>1, <1>2
  <2>2. \A i \in 1..Len(toClient'[c]) : toClient[c][i + 1] = Expected(c)[n + (i + 1)]
    BY <1>6, <1>7
  <2>3. \A i \in Nat : n + (i + 1) = (n + 1) + i
    BY <1>4
  <2>4. Len(took'[c]) + Len(toClient'[c]) = Answered(c)
    <3>1. Len(took'[c]) = n + 1 /\ n \in Nat
      BY <1>4, <1>5
    <3>2. Len(toClient'[c]) = Len(toClient[c]) - 1 /\ Len(toClient[c]) \in Nat
      BY <1>6
    <3>3. n + Len(toClient[c]) = Answered(c)
      BY <2>1
    <3>4. \A x, y \in Nat : (x + 1) + (y - 1) = x + y
      OBVIOUS
    <3> QED BY <3>1, <3>2, <3>3, <3>4
  <2>5. \A i \in 1..Len(toClient'[c]) : toClient'[c][i] = Expected(c)[(n + 1) + i]
    <3>1. Len(toClient'[c]) \in Nat
      BY <1>6
    <3> TAKE i \in 1..Len(toClient'[c])
    <3>2. i \in Nat /\ toClient'[c][i] = toClient[c][i + 1]
      BY <1>6, <3>1
    <3> QED BY <2>2, <2>3, <3>2
  <2> QED BY <1>5, <2>4, <2>5
<1>11. (thread[c] = "answer" => IF wild[c] THEN got[c] = 0 ELSE got[c] < Len(Answer(call[c])))'
  BY <1>1 DEF Local, Outbound
<1> QED BY <1>3, <1>8, <1>9, <1>10, <1>11 DEF Local, Outbound

\* The thread writes a token that is the next of what the client expects.
LEMMA OutboundWritten ==
  ASSUME RpcTypeOK, NEW c \in Clients, Outbound(c), NEW t \in Token,
         toClient'[c] = Append(toClient[c], t),
         took'[c] = took[c], call'[c] = call[c], cli'[c] = cli[c], ~Closed(c),
         t = "ret" => effects'[c] = 1, effects[c] = 1 => effects'[c] = 1,
         (thread[c] = "answer" => IF wild[c] THEN got[c] = 0 ELSE got[c] < Len(Answer(call[c])))',
         call[c] \notin Odd => /\ Answered(c)' = Answered(c) + 1
                              /\ Expected(c)[Answered(c) + 1] = t
  PROVE  Outbound(c)'
<1> DEFINE m == Len(toClient[c])
           n == Len(took[c])
<1>1. Closed(c)' = Closed(c) /\ Expected(c)' = Expected(c)
  BY DEF Closed, Expected
<1>2. /\ m \in Nat /\ n \in Nat /\ Len(toClient'[c]) = m + 1 /\ toClient'[c][m + 1] = t
      /\ \A i \in 1..m : toClient'[c][i] = toClient[c][i]
  BY AppendProperties DEF RpcTypeOK
<1>3. /\ \A i \in 1..m : toClient[c][i] = "ret" => effects[c] = 1
      /\ call[c] \notin Odd => /\ n + m = Answered(c)
                              /\ \A i \in 1..m : toClient[c][i] = Expected(c)[n + i]
  BY DEF Outbound
<1>4. (\A i \in 1..Len(took[c]) :
         /\ call[c] \notin Odd => i <= Len(Expected(c)) /\ took[c][i] = Expected(c)[i]
         /\ took[c][i] = "ret" => effects[c] = 1)'
  BY <1>1 DEF Outbound
<1> HIDE DEF m, n
<1>5. \A i \in 1..(m + 1) : toClient'[c][i] = "ret" => effects'[c] = 1
  <2> TAKE i \in 1..(m + 1)
  <2>1. CASE i \in 1..m
    BY <1>2, <1>3, <2>1
  <2>2. CASE i = m + 1
    BY <1>2, <2>2
  <2> QED BY <1>2, <2>1, <2>2
<1>6. ASSUME call[c] \notin Odd
      PROVE  /\ n + (m + 1) = Answered(c)'
             /\ \A i \in 1..(m + 1) : toClient'[c][i] = Expected(c)[n + i]
  <2>1. n + (m + 1) = Answered(c)'
    BY <1>2, <1>3, <1>6
  <2> SUFFICES ASSUME NEW i \in 1..(m + 1) PROVE toClient'[c][i] = Expected(c)[n + i]
    BY <2>1
  <2>2. CASE i \in 1..m
    BY <1>2, <1>3, <1>6, <2>2
  <2>3. CASE i = m + 1
    <3>1. n + (m + 1) = Answered(c) + 1
      BY <1>2, <1>3, <1>6
    <3> QED BY <1>2, <1>6, <2>3, <3>1
  <2> QED BY <1>2, <2>2, <2>3
<1> QED BY <1>1, <1>2, <1>4, <1>5, <1>6 DEF Outbound, n

\* The thread writes nothing.
LEMMA OutboundKept ==
  ASSUME NEW c \in Clients, Outbound(c), toClient'[c] = toClient[c],
         took'[c] = took[c], call'[c] = call[c], cli'[c] = cli[c],
         effects[c] = 1 => effects'[c] = 1,
         (thread[c] = "answer" => IF wild[c] THEN got[c] = 0 ELSE got[c] < Len(Answer(call[c])))',
         ~Closed(c) /\ call[c] \notin Odd => Answered(c)' = Answered(c)
  PROVE  Outbound(c)'
<1>1. Closed(c)' = Closed(c) /\ Expected(c)' = Expected(c)
  BY DEF Closed, Expected
<1> QED BY <1>1 DEF Outbound

LEMMA AcceptLocal ==
  ASSUME RpcTypeOK, NEW c \in Clients, Local(c), Accept(c)
  PROVE  Local(c)'
<1>1. /\ thread[c] = "none" /\ thread'[c] \in {"hello", "failed"}
      /\ UNCHANGED <<cli, call, written, took, toServer, toClient, err, got, wild, effects>>
  BY DEF Accept, RpcTypeOK, clientVars, callVars
<1>2. /\ Fresh(c)' = Fresh(c) /\ Arity(c)' = Arity(c) /\ Meant(c)' = Meant(c)
      /\ Answered(c)' = Answered(c) /\ Acts(c)' = Acts(c)
  BY <1>1 DEF Fresh, Arity, Meant, Answered, Acts
<1>3. Inbound(c)' /\ Carried(c)'
  BY <1>1, <1>2 DEF Local, Inbound, Carried
<1>4. Outbound(c)'
  BY <1>1, <1>2, OutboundKept DEF Local
<1> QED BY <1>3, <1>4 DEF Local

LEMMA HelloLocal ==
  ASSUME RpcTypeOK, NEW c \in Clients, Local(c), Hello(c)
  PROVE  Local(c)'
<1>1. /\ thread[c] = "hello" /\ thread'[c] = IF Closed(c) THEN "ended" ELSE "name"
      /\ toClient'[c] = IF Closed(c) THEN toClient[c] ELSE Append(toClient[c], "hello")
      /\ UNCHANGED <<cli, call, written, took, toServer, err, got, wild, effects>>
  BY DEF Hello, Send, Goto, RpcTypeOK, clientVars, callVars
<1>2. Fresh(c) /\ Fresh(c)' /\ Arity(c)' = Arity(c) /\ Meant(c)' = Meant(c)
      /\ Acts(c)' = Acts(c)
  BY <1>1 DEF Fresh, Arity, Meant, Local, Inbound, Acts
<1>3. Inbound(c)' /\ Carried(c)'
  BY <1>1, <1>2 DEF Local, Inbound, Carried
<1>4. Outbound(c)'
  <2>1. CASE Closed(c)
    BY <1>1, <2>1, OutboundKept DEF Local
  <2>2. CASE ~Closed(c)
    <3>1. Answered(c) = 0 /\ Answered(c)' = 1
      BY <1>1, <1>2, <2>2 DEF Answered
    <3>2. call[c] \notin Odd => Expected(c)[0 + 1] = "hello"
      BY ExpectedFacts DEF RpcTypeOK
    <3> QED BY <1>1, <2>2, <3>1, <3>2, OutboundWritten DEF Local, Token
  <2> QED BY <2>1, <2>2
<1> QED BY <1>3, <1>4 DEF Local

LEMMA LostLocal ==
  ASSUME RpcTypeOK, NEW c \in Clients, Local(c), Lost(c)
  PROVE  Local(c)'
<1>1. /\ thread[c] = "lost" /\ thread'[c] = "ended" /\ Closed(c)
      /\ UNCHANGED <<cli, call, written, took, toServer, toClient, err, got, wild, effects>>
  BY DEF Lost, Goto, RpcTypeOK, clientVars, callVars
<1>2. Fresh(c)' = Fresh(c) /\ Arity(c)' = Arity(c) /\ Meant(c)' = Meant(c)
      /\ Acts(c)' = Acts(c)
  BY <1>1 DEF Fresh, Arity, Meant, Acts
<1>3. Inbound(c)' /\ Carried(c)'
  BY <1>1, <1>2 DEF Local, Inbound, Carried
<1>4. Outbound(c)'
  BY <1>1, OutboundKept DEF Local
<1> QED BY <1>3, <1>4 DEF Local

LEMMA EffectLocal ==
  ASSUME RpcTypeOK, NEW c \in Clients, Local(c), Effect(c)
  PROVE  Local(c)'
<1>1. /\ thread[c] = "effect" /\ thread'[c] = "answer" /\ got'[c] = 0
      /\ effects'[c] = effects[c] + 1
      /\ UNCHANGED <<cli, call, written, took, toServer, toClient, err, wild>>
  BY DEF Effect, Goto, RpcTypeOK, clientVars, callVars
<1>2. Fresh(c)' = Fresh(c) /\ Arity(c)' = Arity(c) /\ Meant(c)' = Meant(c)
      /\ Acts(c)' = Acts(c)
  BY <1>1 DEF Fresh, Arity, Meant, Acts
<1>3. ~Fresh(c) /\ effects'[c] = 1 /\ Acts(c)
  BY <1>1 DEF Local, Inbound, Carried
<1>4. Meant(c) /\ call[c] # "unknown"
  BY <1>1, <1>3 DEF Local, Inbound, Acts, Acting
<1>5. Inbound(c)' /\ Carried(c)'
  BY <1>1, <1>2, <1>3, <1>4 DEF Local, Inbound, Carried
<1>6. Outbound(c)'
  <2>1. Answered(c) = 1 /\ Answered(c)' = 1
    BY <1>1 DEF Answered
  <2>2. ~wild[c] => Len(Answer(call[c])) > 0
    BY <1>3, KindFacts DEF RpcTypeOK, Acts
  <2> QED BY <1>1, <1>3, <2>1, <2>2, OutboundKept DEF Local
<1> QED BY <1>5, <1>6 DEF Local

LEMMA ReplyLocal ==
  ASSUME RpcTypeOK, NEW c \in Clients, Local(c), Reply(c)
  PROVE  Local(c)'
<1> DEFINE a == Answer(call[c])
           n == got[c] + 1
<1>1. /\ thread[c] = "answer" /\ got'[c] = n
      /\ toClient'[c] = IF Closed(c) THEN toClient[c] ELSE Append(toClient[c], a[n])
      /\ UNCHANGED <<cli, call, written, took, toServer, err, wild, effects>>
  BY DEF Reply, Send, RpcTypeOK, clientVars
<1>2. IF Closed(c) THEN thread'[c] = "ended"
      ELSE IF n = Len(a) THEN thread'[c] = "ready" \/ (thread'[c] = "ended" /\ call[c] = "net")
      ELSE thread'[c] = "answer"
  BY DEF Reply, Send, Goto, RpcTypeOK
<1>3. Fresh(c)' = Fresh(c) /\ Arity(c)' = Arity(c) /\ Meant(c)' = Meant(c) /\ Acts(c)' = Acts(c)
  BY <1>1 DEF Fresh, Arity, Meant, Acts
<1>4. /\ ~Fresh(c) /\ effects[c] = 1 /\ Acts(c) /\ Meant(c) /\ toServer[c] = << >>
      /\ wild[c] => Closed(c)
  BY <1>1 DEF Local, Inbound, Carried, Acts, Acting, Closed
<1>5. thread'[c] \in {"ready", "ended", "answer"} /\ (thread'[c] = "answer" => ~Closed(c))
  BY <1>2
<1>6. Inbound(c)' /\ Carried(c)'
  BY <1>1, <1>3, <1>4, <1>5 DEF Local, Inbound, Carried
<1>7. Outbound(c)'
  <2>1. CASE Closed(c)
    BY <1>1, <1>2, <2>1, OutboundKept DEF Local
  <2>2. CASE ~Closed(c)
    <3>1. /\ ~wild[c] /\ got[c] < Len(a) /\ Len(a) \in 0..2 /\ got[c] \in 0..2
          /\ a \in Seq(Token)
      BY <1>1, <1>4, <2>2, KindFacts DEF Local, Outbound, RpcTypeOK
    <3> HIDE DEF a
    <3>2. n \in 1..Len(a) /\ a[n] \in Token
      BY <3>1, ElementOfSeq
    <3>3. Answered(c) = n /\ Answered(c)' = n + 1
      BY <1>1, <1>2, <3>1, <3>2, <2>2 DEF Answered, a
    <3>4. call[c] \notin Odd => Expected(c)[n + 1] = a[n]
      BY <3>1, <3>2, ExpectedFacts DEF RpcTypeOK, a
    <3>5. (thread[c] = "answer" => IF wild[c] THEN got[c] = 0 ELSE got[c] < Len(Answer(call[c])))'
      BY <1>1, <1>2, <2>2, <3>1, <3>2 DEF a
    <3> HIDE DEF n
    <3> QED BY <1>1, <1>4, <2>2, <3>2, <3>3, <3>4, <3>5, OutboundWritten DEF Local
  <2> QED BY <2>1, <2>2
<1> QED BY <1>6, <1>7 DEF Local

LEMMA ReadyLocal ==
  ASSUME RpcTypeOK, NEW c \in Clients, Local(c), Ready(c)
  PROVE  Local(c)'
<1>1. /\ thread[c] = "ready" /\ thread'[c] = "name"
      /\ toClient'[c] = IF Closed(c) THEN toClient[c] ELSE Append(toClient[c], "ready")
      /\ UNCHANGED <<cli, call, written, took, toServer, err, got, wild, effects>>
  BY DEF Ready, Goto, RpcTypeOK, clientVars, callVars
<1>2. /\ ~Fresh(c) /\ Fresh(c)' = Fresh(c) /\ Arity(c)' = Arity(c) /\ Meant(c)' = Meant(c)
      /\ Acts(c)' = Acts(c)
  BY <1>1 DEF Fresh, Arity, Meant, Local, Inbound, Acts
<1>3. Inbound(c)' /\ Carried(c)'
  BY <1>1, <1>2 DEF Local, Inbound, Carried
<1>4. Outbound(c)'
  <2>1. CASE Closed(c)
    BY <1>1, <2>1, OutboundKept DEF Local
  <2>2. CASE ~Closed(c)
    <3>1. Len(Answer(call[c])) \in 0..2
      BY KindFacts DEF RpcTypeOK
    <3>2. /\ Answered(c) = 1 + Len(Answer(call[c]))
          /\ Answered(c)' = 2 + Len(Answer(call[c]))
      BY <1>1, <1>2 DEF Answered
    <3>3. Answered(c)' = Answered(c) + 1 /\ Answered(c) + 1 = 2 + Len(Answer(call[c]))
      BY <3>1, <3>2
    <3>4. call[c] \notin Odd => Expected(c)[Answered(c) + 1] = "ready"
      BY <3>3, ExpectedFacts DEF RpcTypeOK
    <3> QED BY <1>1, <2>2, <3>3, <3>4, OutboundWritten DEF Local, Token
  <2> QED BY <2>1, <2>2
<1> QED BY <1>3, <1>4 DEF Local

LEMMA NameLocal ==
  ASSUME RpcTypeOK, NEW c \in Clients, Local(c), Name(c)
  PROVE  Local(c)'
<1>1. /\ thread[c] = "name"
      /\ UNCHANGED <<cli, call, written, took, toClient, err, wild, effects>>
  BY DEF Name, RpcTypeOK, clientVars
<1>2. /\ Arity(c)' = Arity(c) /\ Meant(c)' = Meant(c) /\ Closed(c)' = Closed(c)
      /\ Acts(c)' = Acts(c)
  BY <1>1 DEF Arity, Meant, Closed, Acts
<1>3. call[c] \in Kinds /\ Arity(c) \in 0..2 /\ written[c] \in -1..2
  BY KindFacts DEF RpcTypeOK, Arity
<1>4. CASE toServer[c] = << >>
  <2>1. /\ Closed(c) /\ thread'[c] = "ended" /\ toServer'[c] = toServer[c]
        /\ got'[c] = got[c]
    BY <1>4 DEF Name, Goto, RpcTypeOK
  <2>2. Fresh(c)' = Fresh(c)
    BY <1>1, <2>1 DEF Fresh
  <2>3. Inbound(c)' /\ Carried(c)'
    BY <1>1, <1>2, <2>1, <2>2 DEF Local, Inbound, Carried
  <2>4. Outbound(c)'
    BY <1>1, <2>1, OutboundKept DEF Local
  <2> QED BY <2>3, <2>4 DEF Local
<1>5. CASE toServer[c] # << >>
  <2>1. /\ toServer'[c] = Tail(toServer[c]) /\ got'[c] = 0
        /\ IF Head(toServer[c]) = "arg" THEN thread'[c] \in {"lost", "ended"}
           ELSE thread'[c] = CASE call[c] = "unknown" -> "ready"
                               [] Arity(c) = 0 -> "effect"
                               [] OTHER -> "args"
    BY <1>5 DEF Name, Goto, RpcTypeOK, Arity
  <2>2. /\ toServer[c] \in Seq({"name", "arg"}) /\ Len(toServer[c]) \in Nat
        /\ Len(toServer[c]) >= 1
    BY <1>5 DEF RpcTypeOK
  <2>3. /\ Len(toServer'[c]) = Len(toServer[c]) - 1 /\ Head(toServer[c]) = toServer[c][1]
        /\ \A i \in 1..Len(toServer'[c]) : toServer'[c][i] = toServer[c][i + 1]
        /\ Head(toServer[c]) \in {"name", "arg"}
        /\ toServer'[c] \in Seq({"name", "arg"})
    BY <1>5, <2>1, <2>2, HeadTailProperties
  <2>4. written[c] # -1
    BY <1>3, <2>2 DEF Local, Inbound, Fresh
  <2>5. \A i \in 1..Len(toServer'[c]) : toServer'[c][i] # "name"
    <3> TAKE i \in 1..Len(toServer'[c])
    <3>1. i + 1 \in 1..Len(toServer[c]) /\ i + 1 # 1
      BY <2>2, <2>3
    <3> QED BY <2>3, <3>1 DEF Local, Inbound
  <2>6. ~Fresh(c)'
    <3>1. toServer'[c] # << >> => Head(toServer'[c]) # "name"
      <4> HAVE toServer'[c] # << >>
      <4>1. 1 \in 1..Len(toServer'[c]) /\ Head(toServer'[c]) = toServer'[c][1]
        BY <2>3
      <4> QED BY <2>5, <4>1
    <3> QED BY <1>1, <2>4, <3>1 DEF Fresh
  <2>7. CASE Head(toServer[c]) = "arg"
    <3>1. ~Fresh(c)
      BY <1>5, <2>4, <2>7 DEF Fresh
    <3>2. call[c] = "unknown"
      BY <1>1, <1>5, <3>1 DEF Local, Inbound
    <3>3. effects[c] = 0
      BY <3>2 DEF Local, Carried, Acts, Acting
    <3>4. thread'[c] \in {"lost", "ended"}
      BY <2>1, <2>7
    <3>5. Inbound(c)'
      BY <1>1, <1>2, <2>5, <2>6, <3>4 DEF Local, Inbound
    <3>6. Carried(c)'
      BY <1>1, <3>3, <3>4 DEF Carried
    <3>7. Outbound(c)'
      BY <1>1, <3>2, <3>4, OutboundKept DEF Local, Odd
    <3> QED BY <3>5, <3>6, <3>7 DEF Local
  <2>8. CASE Head(toServer[c]) = "name"
    <3>1. Fresh(c) /\ Len(toServer[c]) = written[c] + 1 /\ effects[c] = 0 /\ ~wild[c]
      BY <1>5, <2>8 DEF Fresh, Local, Inbound
    <3>2. Len(toServer'[c]) = written[c]
      BY <1>3, <2>2, <2>3, <3>1
    <3>3. written[c] <= Arity(c)
      BY DEF Local, Inbound
    <3>4. thread'[c] = CASE call[c] = "unknown" -> "ready"
                         [] Arity(c) = 0 -> "effect"
                         [] OTHER -> "args"
      BY <2>1, <2>8
    <3>5. CASE call[c] = "unknown"
      <4>1. thread'[c] = "ready"
        BY <1>3, <3>4, <3>5, KindFacts DEF Arity
      <4>2. Inbound(c)'
        BY <1>1, <1>2, <2>5, <2>6, <3>5, <4>1 DEF Local, Inbound
      <4>3. Carried(c)'
        BY <1>1, <3>1, <3>5, <4>1 DEF Carried, Acting
      <4>4. Outbound(c)'
        BY <1>1, <3>5, <4>1, OutboundKept DEF Local, Odd
      <4> QED BY <4>2, <4>3, <4>4 DEF Local
    <3>6. CASE call[c] # "unknown" /\ Arity(c) = 0
      <4>1. thread'[c] = "effect" /\ Acts(c)
        BY <1>3, <3>4, <3>6, KindFacts DEF Arity, Acts, Acting
      <4>2. written[c] = 0 /\ toServer'[c] = << >> /\ Meant(c)
        BY <1>3, <2>3, <2>4, <3>2, <3>3, <3>6, EmptySeq DEF Meant
      <4>3. Inbound(c)'
        BY <1>1, <1>2, <2>5, <2>6, <4>1, <4>2 DEF Local, Inbound
      <4>4. Carried(c)'
        BY <1>1, <3>1, <4>1 DEF Carried
      <4>5. Answered(c) = 1 /\ Answered(c)' = 1
        BY <1>1, <3>1, <4>1 DEF Answered
      <4>6. Outbound(c)'
        BY <1>1, <3>1, <4>1, <4>5, OutboundKept DEF Local
      <4> QED BY <4>3, <4>4, <4>6 DEF Local
    <3>7. CASE call[c] # "unknown" /\ Arity(c) # 0
      <4>1. thread'[c] = "args" /\ got'[c] = 0
        BY <2>1, <3>4, <3>7
      <4>2. got'[c] < Arity(c) /\ Len(toServer'[c]) = written[c] - got'[c]
        BY <1>3, <2>4, <3>2, <3>7, <4>1
      <4>3. Inbound(c)'
        BY <1>1, <1>2, <2>5, <2>6, <3>1, <3>7, <4>1, <4>2 DEF Local, Inbound
      <4>4. Carried(c)'
        BY <1>1, <3>1, <4>1 DEF Carried
      <4>5. Answered(c) = 1 /\ Answered(c)' = 1
        BY <1>1, <3>1, <4>1 DEF Answered
      <4>6. Outbound(c)'
        BY <1>1, <3>1, <4>1, <4>5, OutboundKept DEF Local
      <4> QED BY <4>3, <4>4, <4>6 DEF Local
    <3> QED BY <3>5, <3>6, <3>7
  <2> QED BY <2>3, <2>7, <2>8
<1> QED BY <1>4, <1>5

LEMMA ArgLocal ==
  ASSUME RpcTypeOK, NEW c \in Clients, Local(c), Arg(c)
  PROVE  Local(c)'
<1>1. /\ thread[c] = "args"
      /\ UNCHANGED <<cli, call, written, took, toClient, effects>>
  BY DEF Arg, RpcTypeOK, clientVars
<1>2. Arity(c)' = Arity(c) /\ Closed(c)' = Closed(c) /\ Expected(c)' = Expected(c)
  BY <1>1 DEF Arity, Closed, Expected
<1>3. /\ call[c] \in Kinds /\ Arity(c) \in 0..2 /\ written[c] \in -1..2 /\ got[c] \in 0..2
      /\ written[c] <= Arity(c) /\ call[c] # "unknown" /\ got[c] < Arity(c) /\ effects[c] = 0
      /\ ~Fresh(c) /\ written[c] # -1
  BY <1>1, KindFacts DEF RpcTypeOK, Arity, Local, Inbound, Carried, Fresh
<1>4. \A i \in 1..Len(toServer[c]) : toServer[c][i] # "name"
  BY <1>3 DEF Local, Inbound
\* What a step that reads one more argument leads to.
<1>5. ASSUME got'[c] = got[c] + 1, ~Fresh(c)', wild'[c] => cli[c] = "dead" /\ ~err'[c],
             err'[c] => cli[c] = "dead", thread'[c] = IF got[c] + 1 = Arity(c) THEN AllRead(c) ELSE "args",
             \A i \in 1..Len(toServer'[c]) : toServer'[c][i] # "name",
             got[c] + 1 = Arity(c) => toServer'[c] = << >> /\ Meant(c)',
             got[c] + 1 # Arity(c) =>
               IF wild'[c] THEN toServer'[c] = << >> /\ got'[c] = 1 /\ written[c] = 0
                           ELSE Len(toServer'[c]) = written[c] - got'[c]
      PROVE  Local(c)'
  <2>1. CASE got[c] + 1 = Arity(c)
    <3>1. thread'[c] = AllRead(c) /\ toServer'[c] = << >> /\ Meant(c)'
      BY <1>5, <2>1
    <3>2. \/ thread'[c] = "ready" /\ call[c] \in {"empty", "json"}
          \/ thread'[c] = "ended" /\ call[c] = "noif"
          \/ thread'[c] = "effect" /\ call[c] \in Acting
      BY <1>3, <3>1, KindFacts DEF AllRead
    <3>3. Inbound(c)'
      BY <1>1, <1>2, <1>3, <1>5, <3>1, <3>2 DEF Local, Inbound, Acts
    <3>4. Carried(c)'
      BY <1>1, <1>3, <3>2 DEF Carried, Acting
    <3>5. call[c] \notin Odd => Answered(c) = 1 /\ Answered(c)' = 1
      <4>1. call[c] = "json" => Len(Answer(call[c])) = 0
        BY EmptySeq DEF Answer
      <4> QED BY <1>1, <3>2, <4>1 DEF Answered, Odd
    <3>6. Outbound(c)'
      BY <1>1, <3>2, <3>5, OutboundKept DEF Local
    <3> QED BY <3>3, <3>4, <3>6 DEF Local
  <2>2. CASE got[c] + 1 # Arity(c)
    <3>1. thread'[c] = "args" /\ got'[c] < Arity(c)
      BY <1>3, <1>5, <2>2
    <3>2. Inbound(c)'
      BY <1>1, <1>2, <1>3, <1>5, <2>2, <3>1 DEF Local, Inbound
    <3>3. Carried(c)'
      BY <1>1, <1>3, <3>1 DEF Carried
    <3>4. Answered(c) = 1 /\ Answered(c)' = 1
      BY <1>1, <3>1 DEF Answered
    <3>5. Outbound(c)'
      BY <1>1, <3>1, <3>4, OutboundKept DEF Local
    <3> QED BY <3>2, <3>3, <3>5 DEF Local
  <2> QED BY <2>1, <2>2
<1>6. CASE toServer[c] # << >>
  <2>1. /\ toServer'[c] = Tail(toServer[c]) /\ got'[c] = got[c] + 1
        /\ err'[c] = err[c] /\ wild'[c] = wild[c]
        /\ thread'[c] = IF got[c] + 1 = Arity(c) THEN AllRead(c) ELSE "args"
    BY <1>6 DEF Arg, Goto, RpcTypeOK, Arity
  <2>2. /\ toServer[c] \in Seq({"name", "arg"}) /\ Len(toServer[c]) \in Nat
        /\ Len(toServer[c]) >= 1
    BY <1>6 DEF RpcTypeOK
  <2>3. /\ Len(toServer'[c]) = Len(toServer[c]) - 1
        /\ \A i \in 1..Len(toServer'[c]) : toServer'[c][i] = toServer[c][i + 1]
        /\ toServer'[c] \in Seq({"name", "arg"})
    BY <1>6, <2>1, <2>2, HeadTailProperties
  <2>4. ~wild[c] /\ Len(toServer[c]) = written[c] - got[c]
    BY <1>1, <1>6 DEF Local, Inbound
  <2>5. \A i \in 1..Len(toServer'[c]) : toServer'[c][i] # "name"
    <3> TAKE i \in 1..Len(toServer'[c])
    <3>1. i + 1 \in 1..Len(toServer[c])
      BY <2>2, <2>3
    <3> QED BY <1>4, <2>3, <3>1
  <2>6. ~Fresh(c)'
    <3>1. toServer'[c] # << >> => Head(toServer'[c]) # "name"
      <4> HAVE toServer'[c] # << >>
      <4>1. 1 \in 1..Len(toServer'[c]) /\ Head(toServer'[c]) = toServer'[c][1]
        BY <2>3
      <4> QED BY <2>5, <4>1
    <3> QED BY <1>1, <1>3, <3>1 DEF Fresh
  <2>7. got[c] + 1 = Arity(c) => toServer'[c] = << >> /\ Meant(c)'
    <3> HAVE got[c] + 1 = Arity(c)
    <3>1. written[c] = Arity(c)
      BY <1>3, <2>2, <2>4
    <3>2. Len(toServer'[c]) = 0
      BY <1>3, <2>3, <2>4, <3>1
    <3>3. toServer'[c] = << >>
      BY <2>3, <3>2, EmptySeq
    <3> QED BY <1>1, <1>2, <3>1, <3>3 DEF Meant
  <2>8. Len(toServer'[c]) = written[c] - got'[c]
    BY <1>3, <2>1, <2>3, <2>4
  <2>9. /\ wild'[c] => cli[c] = "dead" /\ ~err'[c]
        /\ err'[c] => cli[c] = "dead"
    BY <2>1 DEF Local, Inbound
  <2> QED BY <1>5, <2>1, <2>4, <2>5, <2>6, <2>7, <2>8, <2>9
<1>7. CASE toServer[c] = << >> /\ err[c]
  <2>1. /\ toServer'[c] = toServer[c] /\ got'[c] = got[c] + 1
        /\ ~err'[c] /\ wild'[c]
        /\ IF call[c] \in Texts /\ got[c] = 0 THEN thread'[c] \in NoLength(c)
           ELSE thread'[c] = IF got[c] + 1 = Arity(c) THEN AllRead(c) ELSE "args"
    BY <1>7 DEF Arg, Goto, RpcTypeOK, Arity
  <2>2. cli[c] = "dead" /\ ~wild[c]
    BY <1>7 DEF Local, Inbound
  <2>3. Len(toServer[c]) = 0
    BY <1>7, EmptySeq
  <2>4. written[c] = got[c]
    <3>1. Len(toServer[c]) = written[c] - got[c]
      BY <1>1, <2>2 DEF Local, Inbound
    <3> QED BY <1>3, <2>3, <3>1
  <2>5. ~Fresh(c)'
    BY <1>1, <1>3, <1>7, <2>1 DEF Fresh
  <2>6. \A i \in 1..Len(toServer'[c]) : toServer'[c][i] # "name"
    BY <1>4, <2>1
  <2>7. CASE call[c] \in Texts /\ got[c] = 0
    <3>1. Meant(c)' /\ Closed(c) /\ toServer'[c] = << >>
      BY <1>1, <1>7, <2>1, <2>2, <2>4, <2>7 DEF Meant, Closed
    <3>2. \/ thread'[c] \in {"lost", "ended", "ready"}
          \/ thread'[c] = "effect" /\ Acts(c)'
      BY <1>1, <2>1, <2>7 DEF NoLength, Texts, Acts, Acting
    <3>3. Inbound(c)'
      BY <1>1, <1>2, <1>3, <2>1, <2>2, <2>5, <2>6, <3>1, <3>2 DEF Local, Inbound
    <3>4. Carried(c)'
      BY <1>1, <1>3, <2>1, <3>2 DEF Carried
    <3>5. Outbound(c)'
      BY <1>1, <3>1, <3>2, OutboundKept DEF Local
    <3> QED BY <3>3, <3>4, <3>5 DEF Local
  <2>8. CASE ~(call[c] \in Texts /\ got[c] = 0)
    <3>1. thread'[c] = IF got[c] + 1 = Arity(c) THEN AllRead(c) ELSE "args"
      BY <2>1, <2>8
    <3>2. got[c] + 1 = Arity(c) => toServer'[c] = << >> /\ Meant(c)'
      BY <1>1, <1>2, <1>3, <1>7, <2>1, <2>2, <2>4 DEF Meant
    <3>3. got[c] + 1 # Arity(c) => toServer'[c] = << >> /\ got'[c] = 1 /\ written[c] = 0
      BY <1>3, <1>7, <2>1, <2>4
    <3> QED BY <1>5, <2>1, <2>2, <2>5, <2>6, <3>1, <3>2, <3>3
  <2> QED BY <2>7, <2>8
<1>8. CASE toServer[c] = << >> /\ ~err[c]
  <2>1. /\ Closed(c) /\ thread'[c] = "ended"
        /\ UNCHANGED <<toServer, err, got, wild>>
    BY <1>8 DEF Arg, Goto, RpcTypeOK
  <2>2. Fresh(c)' = Fresh(c) /\ Meant(c)' = Meant(c)
    BY <1>1, <1>2, <2>1 DEF Fresh, Meant
  <2>3. Inbound(c)'
    BY <1>1, <1>2, <2>1, <2>2 DEF Local, Inbound
  <2>4. Carried(c)'
    BY <1>1, <1>3, <2>1 DEF Carried
  <2>5. Outbound(c)'
    BY <1>1, <2>1, OutboundKept DEF Local
  <2> QED BY <2>3, <2>4, <2>5 DEF Local
<1> QED BY <1>6, <1>7, <1>8

LEMMA StepLocal ==
  ASSUME RpcTypeOK, NEW c \in Clients, Local(c), Step(c)
  PROVE  Local(c)'
BY ConnectLocal, WriteLocal, ReadLocal, DieLocal, SeeEndLocal, AcceptLocal, HelloLocal, NameLocal,
   LostLocal, ArgLocal, EffectLocal, ReplyLocal, ReadyLocal DEF Step, Thread
-----------------------------------------------------------------------------
LEMMA NextCallInv ==
  ASSUME RpcTypeOK, CallInv, [RpcNext]_rpcVars
  PROVE  CallInv'
<1>1. ASSUME NEW c \in Clients, Step(c) PROVE CallInv'
  <2>1. \A d \in Clients : Local(d)
    BY DEF CallInv, Local
  <2> SUFFICES ASSUME NEW d \in Clients PROVE Local(d)'
    BY DEF CallInv, Local
  <2>2. CASE d = c
    BY <1>1, <2>1, <2>2, StepLocal
  <2>3. CASE d # c
    <3>1. Same(d)
      BY <1>1, <2>3, OthersSame
    <3> QED BY <2>1, <3>1, SameKeeps DEF Local
  <2> QED BY <2>2, <2>3
<1>2. CASE Deinit \/ UNCHANGED rpcVars
  <2> SUFFICES ASSUME NEW d \in Clients PROVE (Inbound(d) /\ Carried(d) /\ Outbound(d))'
    BY DEF CallInv
  <2>1. Same(d)
    BY <1>2 DEF Deinit, rpcVars, clientVars, callVars, Same
  <2> QED BY <2>1, SameKeeps DEF CallInv
<1> QED BY <1>1, <1>2 DEF RpcNext, Step

LEMMA InitCallInv ==
  ASSUME RpcInit
  PROVE  RpcTypeOK /\ CallInv
<1>1. RpcTypeOK
  <2>1. call \in [Clients -> Kinds]
    BY ServerAssumption DEF RpcInit
  <2> QED BY <2>1, EmptySeq DEF RpcInit, RpcTypeOK, ThreadPc
<1>2. ASSUME NEW c \in Clients PROVE Inbound(c) /\ Carried(c) /\ Outbound(c)
  <2>1. /\ thread[c] = "none" /\ cli[c] = "idle" /\ toServer[c] = << >> /\ toClient[c] = << >>
        /\ written[c] = -1 /\ got[c] = 0 /\ took[c] = << >> /\ ~err[c] /\ ~wild[c] /\ effects[c] = 0
    BY <1>2 DEF RpcInit
  <2>2. Arity(c) \in 0..2
    BY <1>1, KindFacts DEF RpcTypeOK, Arity
  <2>3. Len(toServer[c]) = 0 /\ Len(toClient[c]) = 0 /\ Len(took[c]) = 0
    BY <2>1, EmptySeq
  <2>4. Fresh(c)
    BY <2>1 DEF Fresh
  <2>5. Inbound(c)
    BY <2>1, <2>2, <2>3, <2>4 DEF Inbound
  <2>6. Carried(c)
    BY <2>1 DEF Carried
  <2>7. Outbound(c)
    BY <2>1, <2>3 DEF Outbound, Answered
  <2> QED BY <2>5, <2>6, <2>7
<1> QED BY <1>1, <1>2 DEF CallInv

\* At any point of any number of calls, with clients that die and threads that
\* are not made, where a client's thread is tells what has been read, done and
\* answered of its call.
THEOREM CallInvariant == RpcSpec => [](RpcTypeOK /\ CallInv)
<1>1. RpcInit => RpcTypeOK /\ CallInv
  BY InitCallInv
<1>2. RpcTypeOK /\ CallInv /\ [RpcNext]_rpcVars => (RpcTypeOK /\ CallInv)'
  BY NextRpcTyped, NextCallInv
<1> QED BY <1>1, <1>2, PTL DEF RpcSpec

LEMMA InvMeansCalls ==
  ASSUME RpcTypeOK, CallInv
  PROVE  CallsMeant
<1> SUFFICES ASSUME NEW c \in Clients
             PROVE  LET k == call[c]
                    IN  /\ effects[c] = 1 =>
                             \/ written[c] = Args[k]
                             \/ /\ wild[c] /\ cli[c] = "dead"
                                /\ written[c] = Args[k] - 1 \/ (k \in Texts /\ written[c] = 0)
                        /\ k \in Odd \/ IsPrefix(took[c], Expected(c))
                        /\ "ret" \in ToSet(took[c]) => effects[c] = 1
                        /\ effects[c] <= IF k \in Odd /\ ~wild[c] THEN 0 ELSE 1
  BY DEF CallsMeant
<1>1. Inbound(c) /\ Carried(c) /\ Outbound(c)
  BY DEF CallInv
<1>2. effects[c] = 1 =>
        \/ written[c] = Args[call[c]]
        \/ /\ wild[c] /\ cli[c] = "dead"
           /\ written[c] = Args[call[c]] - 1 \/ (call[c] \in Texts /\ written[c] = 0)
  BY <1>1 DEF Carried, Meant, Arity
<1>3. call[c] \in Odd \/ IsPrefix(took[c], Expected(c))
  <2> SUFFICES ASSUME call[c] \notin Odd PROVE IsPrefix(took[c], Expected(c))
    OBVIOUS
  <2> DEFINE n == Len(took[c])
  <2>1. /\ took[c] \in Seq(Token) /\ n \in Nat /\ Expected(c) \in Seq(Token)
        /\ Len(Expected(c)) \in Nat
    BY ExpectedFacts DEF RpcTypeOK
  <2>2. \A i \in 1..n : i <= Len(Expected(c)) /\ took[c][i] = Expected(c)[i]
    BY <1>1 DEF Outbound
  <2>3. n <= Len(Expected(c))
    <3>1. CASE n = 0
      BY <2>1, <3>1
    <3>2. CASE n > 0
      BY <2>1, <2>2, <3>2
    <3> QED BY <2>1, <3>1, <3>2
  <2>4. took[c] = SubSeq(Expected(c), 1, n)
    <3>1. /\ SubSeq(Expected(c), 1, n) \in Seq(Token)
          /\ Len(SubSeq(Expected(c), 1, n)) = n
          /\ \A i \in 1..n : SubSeq(Expected(c), 1, n)[i] = Expected(c)[i]
      BY <2>1, <2>3, SubSeqProperties
    <3> QED BY <2>1, <2>2, <3>1, SeqEqual
  <2> QED BY <2>1, <2>3, <2>4 DEF IsPrefix
<1>4. "ret" \in ToSet(took[c]) => effects[c] = 1
  <2> HAVE "ret" \in ToSet(took[c])
  <2>1. took[c] \in Seq(Token)
    BY DEF RpcTypeOK
  <2>2. PICK i \in DOMAIN took[c] : took[c][i] = "ret"
    BY DEF ToSet
  <2>3. i \in 1..Len(took[c])
    BY <2>1
  <2> QED BY <1>1, <2>2, <2>3 DEF Outbound
<1>5. effects[c] <= IF call[c] \in Odd /\ ~wild[c] THEN 0 ELSE 1
  BY <1>1 DEF Carried, Acts, Acting, Odd
<1> QED BY <1>2, <1>3, <1>4, <1>5

\* A call is carried out at most once and on what its client sent, save for a
\* client that died without reading; a client with a result knows that its call
\* was carried out, and reads what was meant for it.
THEOREM CallsMeantAlways == RpcSpec => []CallsMeant
<1>1. RpcTypeOK /\ CallInv => CallsMeant
  BY InvMeansCalls
<1> QED BY <1>1, CallInvariant, PTL
=============================================================================
