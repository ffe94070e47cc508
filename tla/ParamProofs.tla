---------------------------- MODULE ParamProofs ----------------------------
(***************************************************************************)
(* Proofs about the parameter store, for every set of clients, entries and *)
(* accounts, and any number of calls, starts and failures.                 *)
(***************************************************************************)
EXTENDS ParamProps, FiniteSetTheorems, TLAPS

USE DEF Threads

-----------------------------------------------------------------------------
(* Types.                                                                  *)

\* The calls a client can be in at each point, beside the types.
OpOK ==
  \A c \in Clients :
    /\ pc[c] # "idle" => op[c] \in Calls
    /\ pc[c] = "get" => op[c].kind \in {"get", "cap"}
    /\ pc[c] = "count" => op[c].kind = "cap"
    /\ pc[c] \in {"adding", "readnum", "uopen", "uwrite"} =>
         op[c].kind \in {"add", "del"}
    /\ pc[c] \in {"lock", "setting", "open", "write"} =>
         op[c].kind \in {"set", "account", "number", "add", "del"}

Typed == TypeOK /\ OpOK

\* The empty dictionary is one.
LEMMA EmptyIsContent == Empty \in Content
  BY DEF Empty, Content

\* A dump is one too, it loses no entry whose section is there, and a dump of
\* what it leaves leaves the same.
LEMMA DumpFacts ==
  ASSUME NEW m \in Content
  PROVE  /\ Dump(m) \in Content
         /\ Dump(Dump(m)) = Dump(m)
         /\ m.sections => /\ Dump(m).par = m.par /\ Dump(m).num = m.num
                          /\ Dump(m).users = m.users /\ Dump(m).sections
<1>1. Empty \in Content
  BY EmptyIsContent
<1>2. CASE m.sections
  <2>1. Dump(m) = [m EXCEPT !.keys = m.keys \cap m.users]
    BY <1>2 DEF Dump
  <2>2. /\ Dump(m) \in Content /\ Dump(m).sections = m.sections
        /\ Dump(m).par = m.par /\ Dump(m).num = m.num
        /\ Dump(m).users = m.users /\ Dump(m).keys = m.keys \cap m.users
    BY <2>1 DEF Content
  <2>3. Dump(Dump(m)) = [Dump(m) EXCEPT !.keys = Dump(m).keys \cap Dump(m).users]
    BY <1>2, <2>2 DEF Dump
  <2>4. Dump(m).keys \cap Dump(m).users = Dump(m).keys
    BY <2>2
  <2>5. Dump(Dump(m)) = Dump(m)
    BY <2>2, <2>3, <2>4 DEF Content
  <2> QED BY <1>2, <2>2, <2>5
<1>3. CASE ~m.sections
  <2>1. Dump(m) = [Empty EXCEPT !.users = m.users, !.keys = m.keys \cap m.users]
    BY <1>3 DEF Dump
  <2>2. /\ Dump(m) \in Content /\ ~Dump(m).sections
        /\ Dump(m).users = m.users /\ Dump(m).keys = m.keys \cap m.users
    <3>1. Dump(m) = [par |-> [k \in Keys |-> Missing], sections |-> FALSE,
                     users |-> m.users, keys |-> m.keys \cap m.users, num |-> 1]
      BY <2>1 DEF Empty
    <3>2. m.keys \cap m.users \in SUBSET Users /\ m.users \in SUBSET Users
      BY DEF Content
    <3>3. [k \in Keys |-> Missing] \in [Keys -> Vals \cup {Missing}]
      OBVIOUS
    <3>4. Dump(m) \in Content
      BY <3>1, <3>2, <3>3 DEF Content
    <3> QED BY <3>1, <3>4
  <2>3. Dump(Dump(m)) = [Empty EXCEPT !.users = Dump(m).users,
                                      !.keys = Dump(m).keys \cap Dump(m).users]
    BY <2>2 DEF Dump
  <2>4. Dump(m).keys \cap Dump(m).users = m.keys \cap m.users
    BY <2>2
  <2> QED BY <1>3, <2>1, <2>2, <2>3, <2>4
<1> QED BY <1>2, <1>3

\* The fields of a call of each kind.
LEMMA CallFields ==
  \A call \in Calls :
    /\ call.kind \in {"get", "set", "cap", "add", "del", "account", "number",
                      "import", "reboot"}
    /\ call.kind \in {"get", "cap"} => call.key \in Keys
    /\ call.kind = "set" => call.key \in SetKeys /\ call.val \in Vals
    /\ call.kind \in {"add", "del", "account"} => call.user \in Users
    /\ call.kind = "number" => call.num \in Int
  BY ParamAssumption DEF Calls

\* A set leaves a dictionary.
LEMMA WithSetIsContent ==
  ASSUME Typed, NEW c \in Clients, pc[c] = "setting"
  PROVE  WithSet(c) \in Content
<1>1. /\ op[c] \in Calls /\ op[c] # NoOp
      /\ op[c].kind \in {"set", "account", "number", "add", "del"}
  BY NoOpAssumption DEF Typed, OpOK
<1>2. mem \in Content /\ got[c] \in Int
  BY DEF Typed, TypeOK
<1>3. CASE op[c].kind = "set"
  <2>1. op[c].key \in Keys /\ op[c].val \in Vals
    BY <1>1, <1>3, CallFields, ParamAssumption
  <2>2. WithSet(c) = [mem EXCEPT !.par[op[c].key] = op[c].val]
    BY <1>3 DEF WithSet
  <2> QED BY <1>2, <2>1, <2>2 DEF Content
<1>4. CASE op[c].kind = "account"
  <2>1. op[c].user \in Users
    BY <1>1, <1>4, CallFields
  <2>2. WithSet(c) = [mem EXCEPT !.keys = @ \cup {op[c].user}]
    BY <1>4 DEF WithSet
  <2> QED BY <1>2, <2>1, <2>2 DEF Content
<1>5. CASE op[c].kind \in {"number", "add", "del"}
  <2>1. \E n \in Int : WithSet(c) = [mem EXCEPT !.num = n]
    <3>1. op[c].kind = "number" =>
            op[c].num \in Int /\ WithSet(c) = [mem EXCEPT !.num = op[c].num]
      BY <1>1, CallFields DEF WithSet
    <3>2. op[c].kind = "add" =>
            got[c] + 1 \in Int /\ WithSet(c) = [mem EXCEPT !.num = got[c] + 1]
      BY <1>2 DEF WithSet
    <3>3. op[c].kind = "del" =>
            got[c] - 1 \in Int /\ WithSet(c) = [mem EXCEPT !.num = got[c] - 1]
      BY <1>2 DEF WithSet
    <3> QED BY <1>5, <3>1, <3>2, <3>3
  <2> QED BY <1>2, <2>1 DEF Content
<1> QED BY <1>1, <1>3, <1>4, <1>5

\* So does the change of an account.
LEMMA WithAccountIsContent ==
  ASSUME Typed, NEW c \in Clients, pc[c] = "adding"
  PROVE  /\ WithAccount(c) \in Content
         /\ WithAccount(c).par = mem.par /\ WithAccount(c).sections = mem.sections
         /\ WithAccount(c).num = mem.num
         /\ WithAccount(c).users = IF op[c].kind = "add" THEN mem.users \cup {op[c].user}
                                                         ELSE mem.users \ {op[c].user}
<1>1. op[c].user \in Users /\ mem \in Content
  BY CallFields DEF Typed, TypeOK, OpOK
<1>2. CASE op[c].kind = "add"
  <2>1. WithAccount(c) = [mem EXCEPT !.users = @ \cup {op[c].user},
                                     !.keys = @ \cup {op[c].user}]
    BY <1>2 DEF WithAccount
  <2>2. /\ mem.users \cup {op[c].user} \in SUBSET Users
        /\ mem.keys \cup {op[c].user} \in SUBSET Users
    BY <1>1 DEF Content
  <2>3. WithAccount(c) = [par |-> mem.par, sections |-> mem.sections,
                          users |-> mem.users \cup {op[c].user},
                          keys |-> mem.keys \cup {op[c].user}, num |-> mem.num]
    BY <1>1, <2>1 DEF Content
  <2>4. WithAccount(c) \in Content
    BY <1>1, <2>2, <2>3 DEF Content
  <2> QED BY <1>2, <2>3, <2>4
<1>3. CASE op[c].kind # "add"
  <2>1. WithAccount(c) = [mem EXCEPT !.users = @ \ {op[c].user}]
    BY <1>3 DEF WithAccount
  <2> QED BY <1>1, <1>3, <2>1 DEF Content
<1> QED BY <1>2, <1>3

\* What a save does next keeps the types.
LEMMA AfterSaveTyped ==
  ASSUME Typed, NEW t \in Threads, AfterSave(t),
         pc[t] \in {"open", "uopen", "write", "uwrite"},
         t = Main => pc[t] \in {"open", "write"}
  PROVE  /\ mutex' \in Threads \cup {Free}
         /\ pc' \in [Threads -> MainPc \cup ClientPc]
         /\ pc'[Main] \in MainPc
         /\ \A c \in Clients : pc'[c] \in ClientPc
         /\ op' \in [Clients -> Calls \cup {NoOp}]
         /\ got' \in [Clients -> Int]
         /\ OpOK'
<1> USE ParamAssumption, NoOpAssumption DEF Typed, TypeOK, OpOK, MainPc, ClientPc
<1>1. CASE t = Main
  BY <1>1 DEF AfterSave, Goto
<1>2. CASE t # Main
  <2>1. t \in Clients
    BY <1>2
  <2>2. CASE Goto(t, "idle") /\ op' = [op EXCEPT ![t] = NoOp]
             /\ got' = [got EXCEPT ![t] = 0] /\ mutex' \in {mutex, Free}
    BY <2>1, <2>2 DEF Goto
  <2>3. CASE /\ pc[t] \in {"open", "write"} /\ InUserCall(t) /\ mutex' = Free
             /\ Goto(t, "uopen") /\ UNCHANGED <<op, got>>
    BY <2>1, <2>3 DEF Goto, InUserCall
  <2> QED BY <1>2, <2>1, <2>2, <2>3 DEF AfterSave, Returns
<1> QED BY <1>1, <1>2

LEMMA InitTyped == Init => Typed
<1> SUFFICES ASSUME Init PROVE Typed
  OBVIOUS
<1>1. /\ pc \in [Threads -> MainPc \cup ClientPc]
      /\ pc[Main] = "init" /\ \A c \in Clients : pc[c] = "idle"
  BY ParamAssumption DEF Init, MainPc, ClientPc
<1>2. mem \in Content /\ file \in Content
  BY ParamAssumption, EmptyIsContent DEF Init
<1>3. /\ op \in [Clients -> Calls \cup {NoOp}] /\ got \in [Clients -> Int]
      /\ held \in [Clients -> Keys \cup {NoKey}]
  BY DEF Init
<1>4. /\ stale \subseteq Clients /\ overlap \subseteq Threads /\ harm \subseteq Harms
      /\ mutex \in Threads \cup {Free} /\ dict \in {"null", "live", "freed"}
  BY DEF Init
<1>5. /\ synced \in BOOLEAN /\ rebooting \in BOOLEAN
      /\ calls \in Nat /\ boots \in Nat /\ fails \in Nat
  BY DEF Init
<1>6. TypeOK
  BY <1>1, <1>2, <1>3, <1>4, <1>5 DEF TypeOK, MainPc, ClientPc
<1>7. OpOK
  BY <1>1 DEF OpOK
<1> QED BY <1>6, <1>7 DEF Typed

\* A step keeps the types, and the calls at the points they belong to.
LEMMA NextTyped == Typed /\ [Next]_vars => Typed'
<1> SUFFICES ASSUME Typed, [Next]_vars PROVE Typed'
  OBVIOUS
<1> USE ParamAssumption, NoOpAssumption, EmptyIsContent
<1> USE DEF Typed, TypeOK, OpOK, fileVars, dictVars, callVars, boundVars, Goto
<1>ParamInit. ParamInit => Typed'
  BY DEF ParamInit, MainPc, ClientPc
<1>FirstGet. FirstGet => Typed'
  BY DEF FirstGet, MainPc, ClientPc
<1>Interrupt. Interrupt => Typed'
  BY DEF Interrupt, MainPc, ClientPc
<1>ParamDeinit. ParamDeinit => Typed'
  BY DEF ParamDeinit, MainPc, ClientPc
<1>DeinitLock. DeinitLock => Typed'
  BY DEF DeinitLock, MainPc, ClientPc
<1>FreeDict. FreeDict => Typed'
  BY DEF FreeDict, MainPc, ClientPc, Holders
<1>Call. ASSUME NEW c \in Clients, Call(c) PROVE Typed'
  BY <1>Call, CallFields DEF Call, Entry, MainPc, ClientPc, Hurt, Harms
<1>CountKeys. ASSUME NEW c \in Clients, CountKeys(c) PROVE Typed'
  BY <1>CountKeys DEF CountKeys, Returns, Hurt, Harms, MainPc, ClientPc
<1>GetString. ASSUME NEW c \in Clients, GetString(c) PROVE Typed'
  BY <1>GetString, CallFields
  DEF GetString, Returns, Hurt, Harms, MainPc, ClientPc
<1>LockForSet. ASSUME NEW c \in Clients, LockForSet(c) PROVE Typed'
  BY <1>LockForSet
  DEF LockForSet, Returns, Hurt, Harms, MainPc, ClientPc
<1>SetValue. ASSUME NEW c \in Clients, SetValue(c) PROVE Typed'
  BY <1>SetValue, WithSetIsContent
  DEF SetValue, SpoilDumps, Writers, If, Harms, MainPc, ClientPc, FreedBySet, Holders
<1>ChangeUser. ASSUME NEW c \in Clients, ChangeUser(c) PROVE Typed'
  BY <1>ChangeUser, WithAccountIsContent
  DEF ChangeUser, SpoilDumps, Writers, If, Harms, MainPc, ClientPc
<1>ReadNum. ASSUME NEW c \in Clients, ReadNum(c) PROVE Typed'
  BY <1>ReadNum
  DEF ReadNum, Returns, Hurt, Harms, MainPc, ClientPc, Content
<1>Reload. ASSUME NEW c \in Clients, Reload(c) PROVE Typed'
  BY <1>Reload
  DEF Reload, SpoilDumps, Writers, If, Harms, MainPc, ClientPc, Holders
<1>Load. ASSUME NEW c \in Clients, Load(c) PROVE Typed'
  BY <1>Load DEF Load, If, Harms, MainPc, ClientPc
<1>Reboot. ASSUME NEW c \in Clients, Reboot(c) PROVE Typed'
  BY <1>Reboot
  DEF Reboot, Returns, Hurt, Harms, MainPc, ClientPc
<1>SaveOpens. ASSUME NEW t \in Threads, SaveOpens(t) PROVE Typed'
  BY <1>SaveOpens DEF SaveOpens, Hurt, Harms, MainPc, ClientPc, Writers
<1>SaveFails. ASSUME NEW t \in Threads, SaveFails(t) PROVE Typed'
  <2>1. AfterSave(t) /\ pc[t] \in {"open", "uopen", "write", "uwrite"}
    BY <1>SaveFails DEF SaveFails
  <2>2. t = Main => pc[t] \in {"open", "write"}
    BY <2>1 DEF MainPc
  <2>3. /\ mutex' \in Threads \cup {Free}
        /\ pc' \in [Threads -> MainPc \cup ClientPc]
        /\ pc'[Main] \in MainPc
        /\ \A c \in Clients : pc'[c] \in ClientPc
        /\ op' \in [Clients -> Calls \cup {NoOp}]
        /\ got' \in [Clients -> Int]
        /\ OpOK'
    BY <2>1, <2>2, AfterSaveTyped
  <2>4. UNCHANGED file
    BY <1>SaveFails DEF SaveFails
  <2> HIDE DEF OpOK, Goto
  <2>5. /\ dict' \in {"null", "live", "freed"} /\ mem' \in Content
        /\ file' \in Content \cup {Torn} /\ synced' \in BOOLEAN
    BY <1>SaveFails, <2>4 DEF SaveFails
  <2>6. /\ stale' \subseteq Clients /\ overlap' \subseteq Threads
        /\ harm' \subseteq Harms /\ held' \in [Clients -> Keys \cup {NoKey}]
    BY <1>SaveFails DEF SaveFails, Hurt, Harms, Holders
  <2>7. /\ rebooting' \in BOOLEAN
        /\ calls' \in Nat /\ boots' \in Nat /\ fails' \in Nat
    BY <1>SaveFails DEF SaveFails
  <2>8. TypeOK'
    BY <2>3, <2>5, <2>6, <2>7 DEF TypeOK
  <2> QED BY <2>3, <2>8
<1>SaveWrites. ASSUME NEW t \in Threads, SaveWrites(t) PROVE Typed'
  <2>1. AfterSave(t) /\ pc[t] \in {"open", "uopen", "write", "uwrite"}
    BY <1>SaveWrites DEF SaveWrites
  <2>2. t = Main => pc[t] \in {"open", "write"}
    BY <2>1 DEF MainPc
  <2>3. /\ mutex' \in Threads \cup {Free}
        /\ pc' \in [Threads -> MainPc \cup ClientPc]
        /\ pc'[Main] \in MainPc
        /\ \A c \in Clients : pc'[c] \in ClientPc
        /\ op' \in [Clients -> Calls \cup {NoOp}]
        /\ got' \in [Clients -> Int]
        /\ OpOK'
    BY <2>1, <2>2, AfterSaveTyped
  <2>4. file' \in Content \cup {Torn}
    BY <1>SaveWrites, DumpFacts DEF SaveWrites, Dumped
  <2> HIDE DEF OpOK, Goto
  <2>5. /\ dict' \in {"null", "live", "freed"} /\ mem' \in Content
        /\ file' \in Content \cup {Torn} /\ synced' \in BOOLEAN
    BY <1>SaveWrites, <2>4 DEF SaveWrites
  <2>6. /\ stale' \subseteq Clients /\ overlap' \subseteq Threads
        /\ harm' \subseteq Harms /\ held' \in [Clients -> Keys \cup {NoKey}]
    BY <1>SaveWrites DEF SaveWrites, Hurt, Harms, Holders
  <2>7. /\ rebooting' \in BOOLEAN
        /\ calls' \in Nat /\ boots' \in Nat /\ fails' \in Nat
    BY <1>SaveWrites DEF SaveWrites
  <2>8. TypeOK'
    BY <2>3, <2>5, <2>6, <2>7 DEF TypeOK
  <2> QED BY <2>3, <2>8
<1>SaveCut. ASSUME NEW t \in Threads, SaveCut(t) PROVE Typed'
  <2>1. AfterSave(t) /\ pc[t] \in {"open", "uopen", "write", "uwrite"}
    BY <1>SaveCut DEF SaveCut
  <2>2. t = Main => pc[t] \in {"open", "write"}
    BY <2>1 DEF MainPc
  <2>3. /\ mutex' \in Threads \cup {Free}
        /\ pc' \in [Threads -> MainPc \cup ClientPc]
        /\ pc'[Main] \in MainPc
        /\ \A c \in Clients : pc'[c] \in ClientPc
        /\ op' \in [Clients -> Calls \cup {NoOp}]
        /\ got' \in [Clients -> Int]
        /\ OpOK'
    BY <2>1, <2>2, AfterSaveTyped
  <2>4. file' \in Content \cup {Torn}
    BY <1>SaveCut DEF SaveCut
  <2> HIDE DEF OpOK, Goto
  <2>5. /\ dict' \in {"null", "live", "freed"} /\ mem' \in Content
        /\ file' \in Content \cup {Torn} /\ synced' \in BOOLEAN
    BY <1>SaveCut, <2>4 DEF SaveCut
  <2>6. /\ stale' \subseteq Clients /\ overlap' \subseteq Threads
        /\ harm' \subseteq Harms /\ held' \in [Clients -> Keys \cup {NoKey}]
    BY <1>SaveCut DEF SaveCut, Hurt, Harms, Holders
  <2>7. /\ rebooting' \in BOOLEAN
        /\ calls' \in Nat /\ boots' \in Nat /\ fails' \in Nat
    BY <1>SaveCut DEF SaveCut
  <2>8. TypeOK'
    BY <2>3, <2>5, <2>6, <2>7 DEF TypeOK
  <2> QED BY <2>3, <2>8
<1>Killed. Killed => Typed'
  <2> SUFFICES ASSUME Killed PROVE Typed'
    OBVIOUS
  <2>1. /\ pc' \in [Threads -> MainPc \cup ClientPc]
        /\ pc'[Main] = "down" /\ \A c \in Clients : pc'[c] = "idle"
    BY DEF Killed, ProcessGone, MainPc, ClientPc
  <2>2. /\ op' \in [Clients -> Calls \cup {NoOp}] /\ got' \in [Clients -> Int]
        /\ held' \in [Clients -> Keys \cup {NoKey}]
    BY DEF Killed, ProcessGone
  <2>3. /\ stale' \subseteq Clients /\ overlap' \subseteq Threads /\ harm' \subseteq Harms
        /\ mutex' \in Threads \cup {Free} /\ dict' \in {"null", "live", "freed"}
    BY DEF Killed, ProcessGone, Cut, If, Harms
  <2>4. /\ file' \in Content \cup {Torn} /\ mem' \in Content
        /\ synced' \in BOOLEAN /\ rebooting' \in BOOLEAN
    BY DEF Killed, ProcessGone
  <2>5. calls' \in Nat /\ boots' \in Nat /\ fails' \in Nat
    BY DEF Killed
  <2>6. TypeOK'
    BY <2>1, <2>2, <2>3, <2>4, <2>5 DEF TypeOK, MainPc, ClientPc
  <2> QED BY <2>1, <2>6
<1>PowerFails. PowerFails => Typed'
  <2> SUFFICES ASSUME PowerFails PROVE Typed'
    OBVIOUS
  <2>1. /\ pc' \in [Threads -> MainPc \cup ClientPc]
        /\ pc'[Main] = "down" /\ \A c \in Clients : pc'[c] = "idle"
    BY DEF PowerFails, ProcessGone, MainPc, ClientPc
  <2>2. /\ op' \in [Clients -> Calls \cup {NoOp}] /\ got' \in [Clients -> Int]
        /\ held' \in [Clients -> Keys \cup {NoKey}]
    BY DEF PowerFails, ProcessGone
  <2>3. /\ stale' \subseteq Clients /\ overlap' \subseteq Threads /\ harm' \subseteq Harms
        /\ mutex' \in Threads \cup {Free} /\ dict' \in {"null", "live", "freed"}
    BY DEF PowerFails, ProcessGone, Cut, If, Harms
  <2>4. /\ file' \in Content \cup {Torn} /\ mem' \in Content
        /\ synced' \in BOOLEAN /\ rebooting' \in BOOLEAN
    BY DEF PowerFails, ProcessGone
  <2>5. calls' \in Nat /\ boots' \in Nat /\ fails' \in Nat
    BY DEF PowerFails
  <2>6. TypeOK'
    BY <2>1, <2>2, <2>3, <2>4, <2>5 DEF TypeOK, MainPc, ClientPc
  <2> QED BY <2>1, <2>6
<1>WriteBack. WriteBack => Typed'
  BY DEF WriteBack, MainPc, ClientPc
<1>Start. Start => Typed'
  BY DEF Start, MainPc, ClientPc
<1>Stutter. UNCHANGED vars => Typed'
  BY DEF vars
<1> QED
  BY <1>ParamInit, <1>FirstGet, <1>Interrupt, <1>ParamDeinit, <1>FreeDict,
      <1>DeinitLock, <1>CountKeys, <1>Load,
      <1>Call, <1>GetString, <1>LockForSet, <1>SetValue, <1>ChangeUser,
      <1>ReadNum, <1>Reload, <1>Reboot, <1>SaveOpens, <1>SaveFails,
      <1>SaveWrites, <1>SaveCut, <1>Killed, <1>PowerFails, <1>WriteBack,
      <1>Start, <1>Stutter
  DEF Next, MainStep, ClientStep, Save

\* The types of the store hold for ever.
THEOREM ParamTypes == Spec => []TypeOK
<1>1. Init => Typed
  BY InitTyped
<1>2. Typed /\ [Next]_vars => Typed'
  BY NextTyped
<1>3. Typed => TypeOK
  BY DEF Typed
<1> QED BY <1>1, <1>2, <1>3, PTL DEF Spec

-----------------------------------------------------------------------------
(* The mutex.                                                              *)

\* Who works under the mutex holds it.  A holder that does not is stuck with
\* it after a failed load; the process must go before it can be taken again.
LockInv ==
  /\ \A t \in Threads : pc[t] \in Locked => mutex = t
  /\ \A t \in Threads : mutex = t => pc[t] \in Locked \/ dict = "null"
  /\ pc[Main] \in {"down", "init"} => mutex = Free
  /\ pc[Main] \in {"down", "init", "first"} => \A c \in Clients : pc[c] = "idle"

LEMMA InitLock == Init => LockInv
  BY ParamAssumption DEF Init, LockInv, Locked

\* What follows a save lets go of the mutex with the critical section.
LEMMA AfterSaveLock ==
  ASSUME Typed, LockInv, NEW t \in Threads, AfterSave(t),
         pc[t] \in {"open", "uopen", "write", "uwrite"},
         dict' \in {dict, "null"}
  PROVE  LockInv'
<1> USE ParamAssumption DEF Typed, TypeOK, OpOK, LockInv, Locked, Goto
<1>1. CASE t = Main
  BY <1>1 DEF AfterSave, MainPc, ClientPc
<1>2. CASE t # Main
  <2>1. t \in Clients /\ pc[Main] \notin {"down", "init", "first"}
    BY <1>2
  <2>2. CASE pc[t] \in {"uopen", "uwrite"}
    BY <1>2, <2>1, <2>2 DEF AfterSave, Returns
  <2>3. CASE pc[t] \in {"open", "write"}
    <3>1. mutex = t /\ mutex' = Free
      BY <1>2, <2>3 DEF AfterSave
    <3>2. pc' = [pc EXCEPT ![t] = "uopen"] \/ pc' = [pc EXCEPT ![t] = "idle"]
      BY <1>2, <2>3 DEF AfterSave, Returns
    <3>3. \A u \in Threads \ {t} : pc[u] \notin Locked
      BY <3>1
    <3> QED BY <2>1, <3>1, <3>2, <3>3
  <2> QED BY <2>2, <2>3
<1> QED BY <1>1, <1>2

\* A step keeps the mutex with its holder.
LEMMA NextLock == Typed /\ LockInv /\ [Next]_vars => LockInv'
<1> SUFFICES ASSUME Typed, LockInv, [Next]_vars PROVE LockInv'
  OBVIOUS
<1> USE ParamAssumption
<1> USE DEF Typed, TypeOK, OpOK, LockInv, Locked, fileVars, dictVars, callVars,
            boundVars, Goto
<1>ParamInit. ParamInit => LockInv'
  BY DEF ParamInit, MainPc, ClientPc
<1>FirstGet. FirstGet => LockInv'
  BY DEF FirstGet, MainPc, ClientPc
<1>Interrupt. Interrupt => LockInv'
  BY DEF Interrupt, MainPc, ClientPc
<1>ParamDeinit. ParamDeinit => LockInv'
  BY DEF ParamDeinit, MainPc, ClientPc
<1>DeinitLock. DeinitLock => LockInv'
  BY DEF DeinitLock, MainPc, ClientPc
<1>FreeDict. FreeDict => LockInv'
  BY DEF FreeDict, MainPc, ClientPc
<1>Call. ASSUME NEW c \in Clients, Call(c) PROVE LockInv'
  BY <1>Call, CallFields DEF Call, Entry, Serving, MainPc, ClientPc
<1>CountKeys. ASSUME NEW c \in Clients, CountKeys(c) PROVE LockInv'
  BY <1>CountKeys DEF CountKeys, Returns, MainPc, ClientPc
<1>GetString. ASSUME NEW c \in Clients, GetString(c) PROVE LockInv'
  BY <1>GetString DEF GetString, Returns, MainPc, ClientPc
<1>LockForSet. ASSUME NEW c \in Clients, LockForSet(c) PROVE LockInv'
  BY <1>LockForSet DEF LockForSet, Returns, MainPc, ClientPc
<1>SetValue. ASSUME NEW c \in Clients, SetValue(c) PROVE LockInv'
  BY <1>SetValue DEF SetValue, Returns, MainPc, ClientPc
<1>ChangeUser. ASSUME NEW c \in Clients, ChangeUser(c) PROVE LockInv'
  BY <1>ChangeUser DEF ChangeUser, Returns, MainPc, ClientPc
<1>ReadNum. ASSUME NEW c \in Clients, ReadNum(c) PROVE LockInv'
  BY <1>ReadNum DEF ReadNum, Returns, MainPc, ClientPc
<1>Reload. ASSUME NEW c \in Clients, Reload(c) PROVE LockInv'
  BY <1>Reload DEF Reload, Returns, MainPc, ClientPc
<1>Load. ASSUME NEW c \in Clients, Load(c) PROVE LockInv'
  <2>1. mutex = c /\ \A u \in Threads \ {c} : pc[u] \notin Locked
    BY <1>Load DEF Load
  <2> QED BY <1>Load, <2>1 DEF Load, MainPc, ClientPc
<1>Reboot. ASSUME NEW c \in Clients, Reboot(c) PROVE LockInv'
  BY <1>Reboot DEF Reboot, Returns, MainPc, ClientPc
<1>SaveOpens. ASSUME NEW t \in Threads, SaveOpens(t) PROVE LockInv'
  BY <1>SaveOpens DEF SaveOpens, MainPc, ClientPc
<1>SaveFails. ASSUME NEW t \in Threads, SaveFails(t) PROVE LockInv'
  BY <1>SaveFails, AfterSaveLock DEF SaveFails
<1>SaveWrites. ASSUME NEW t \in Threads, SaveWrites(t) PROVE LockInv'
  BY <1>SaveWrites, AfterSaveLock DEF SaveWrites
<1>SaveCut. ASSUME NEW t \in Threads, SaveCut(t) PROVE LockInv'
  BY <1>SaveCut, AfterSaveLock DEF SaveCut
<1>Killed. Killed => LockInv'
  BY DEF Killed, ProcessGone
<1>PowerFails. PowerFails => LockInv'
  BY DEF PowerFails, ProcessGone
<1>WriteBack. WriteBack => LockInv'
  BY DEF WriteBack, ProcessGone
<1>Start. Start => LockInv'
  BY DEF Start, ProcessGone
<1>Stutter. UNCHANGED vars => LockInv'
  BY DEF vars
<1> QED
  BY <1>ParamInit, <1>FirstGet, <1>Interrupt, <1>ParamDeinit, <1>FreeDict,
      <1>DeinitLock, <1>CountKeys, <1>Load,
      <1>Call, <1>GetString, <1>LockForSet, <1>SetValue, <1>ChangeUser,
      <1>ReadNum, <1>Reload, <1>Reboot, <1>SaveOpens, <1>SaveFails,
      <1>SaveWrites, <1>SaveCut, <1>Killed, <1>PowerFails, <1>WriteBack,
      <1>Start, <1>Stutter
  DEF Next, MainStep, ClientStep, Save

\* The mutex excludes, and is never left behind but by a failed load.
THEOREM MutexKept == Spec => []LockDiscipline
<1>1. Init => Typed /\ LockInv
  BY InitTyped, InitLock
<1>2. Typed /\ LockInv /\ [Next]_vars => Typed' /\ LockInv'
  BY NextTyped, NextLock
<1>3. Typed /\ LockInv => LockDiscipline
  <2> SUFFICES ASSUME Typed, LockInv PROVE LockDiscipline
    OBVIOUS
  <2>1. \A t \in Threads : pc[t] \in Locked => mutex = t
    BY DEF LockInv
  <2>2. \A s, t \in Threads :
          s # t /\ pc[s] \in InDict /\ pc[t] \in Changing
            => {pc[s], pc[t]} \cap {"adding", "uwrite", "count"} # {}
    <3> SUFFICES ASSUME NEW s \in Threads, NEW t \in Threads, s # t,
                        pc[s] \in InDict, pc[t] \in Changing,
                        pc[s] \notin {"adding", "uwrite", "count"}, pc[t] # "adding"
                 PROVE  FALSE
      BY DEF Changing
    <3> QED BY <2>1 DEF InDict, Changing, Locked
  <2>3. \A t \in Threads :
          mutex = t => pc[t] \in Locked \/ (dict = "null" /\ pc[Main] # "down")
    BY ParamAssumption DEF LockInv
  <2> QED BY <2>1, <2>2, <2>3 DEF LockDiscipline
<1> QED BY <1>1, <1>2, <1>3, PTL DEF Spec

-----------------------------------------------------------------------------
(* The configuration.                                                      *)

Harmed == harm \cap {"failed", "overlap", "cut", "late"} # {}

\* Without harm: there is a dictionary as long as threads can use it, it is
\* complete, saves do not meet, and the file is complete when none is at work.
ConfInv ==
  ~Harmed =>
    /\ file # Torn
    /\ overlap = {}
    /\ dict = "null" => pc[Main] \in {"down", "init"}
    /\ dict = "live" => Complete(mem)
    /\ Writers = {} => Complete(file)

LEMMA InitConf == Init => ConfInv
  BY ParamAssumption DEF Init, ConfInv, Complete

\* A set leaves no gap.
LEMMA WithSetComplete ==
  ASSUME Typed, NEW c \in Clients, pc[c] = "setting", Complete(mem)
  PROVE  Complete(WithSet(c))
<1>1. /\ op[c] \in Calls
      /\ op[c].kind \in {"set", "account", "number", "add", "del"}
  BY NoOpAssumption DEF Typed, OpOK
<1>2. mem \in Content
  BY DEF Typed, TypeOK
<1>3. CASE op[c].kind = "set"
  <2>1. op[c].key \in Keys /\ op[c].val \in Vals
    BY <1>1, <1>3, CallFields, ParamAssumption
  <2>2. WithSet(c) = [mem EXCEPT !.par[op[c].key] = op[c].val]
    BY <1>3 DEF WithSet
  <2>3. /\ WithSet(c).par = [mem.par EXCEPT ![op[c].key] = op[c].val]
        /\ WithSet(c).sections = mem.sections
    BY <1>2, <2>2 DEF Content
  <2> QED BY <1>2, <2>1, <2>3, ParamAssumption DEF Complete, Content
<1>4. CASE op[c].kind # "set"
  <2>1. \/ \E n : WithSet(c) = [mem EXCEPT !.num = n]
        \/ \E k : WithSet(c) = [mem EXCEPT !.keys = k]
    BY <1>1, <1>4 DEF WithSet
  <2>2. WithSet(c).par = mem.par /\ WithSet(c).sections = mem.sections
    BY <1>2, <2>1 DEF Content
  <2> QED BY <2>2 DEF Complete
<1> QED BY <1>3, <1>4

\* Where the mutex is free, a thread that writes saves without it.
LEMMA FreeMeansUnlocked ==
  ASSUME Typed, LockInv, mutex = Free
  PROVE  \A t \in Threads : pc[t] \in {"write", "uwrite"} => pc[t] = "uwrite"
  BY ParamAssumption DEF LockInv, Locked, Typed, TypeOK

\* Two saves at once: one of them is without the mutex.
LEMMA TwoWriters ==
  ASSUME Typed, LockInv, NEW t \in Threads, pc[t] \in {"open", "uopen"},
         Writers # {}
  PROVE  Unlocked(Writers \cup {t})
<1>1. PICK u \in Threads : pc[u] \in {"write", "uwrite"}
  BY DEF Writers
<1>2. pc[t] = "open" => pc[u] = "uwrite"
  BY <1>1 DEF LockInv, Locked
<1> QED BY <1>1, <1>2 DEF Unlocked, Writers

LEMMA NextConf == Typed /\ LockInv /\ ConfInv /\ [Next]_vars => ConfInv'
<1> SUFFICES ASSUME Typed, LockInv, ConfInv, [Next]_vars, ~Harmed'
             PROVE  ConfInv'
  BY DEF ConfInv
<1> USE ParamAssumption
<1>1. ~Harmed => /\ file # Torn /\ overlap = {}
                 /\ dict = "null" => pc[Main] \in {"down", "init"}
                 /\ dict = "live" => Complete(mem)
                 /\ Writers = {} => Complete(file)
  BY DEF ConfInv
<1>2. harm \subseteq Harms /\ pc \in [Threads -> MainPc \cup ClientPc]
      /\ dict \in {"null", "live", "freed"} /\ mem \in Content
  BY DEF Typed, TypeOK
<1>3. pc[Main] \in {"down", "init", "first"} => \A c \in Clients : pc[c] = "idle"
  BY DEF LockInv
<1> USE DEF fileVars, dictVars, callVars, boundVars, Goto
\* A step that leaves file and dictionary as they are.
<1>4. ASSUME UNCHANGED <<file, overlap, dict, mem>>, harm \subseteq harm',
             Writers' = Writers, dict # "null"
      PROVE  ConfInv'
  <2>1. ~Harmed
    BY <1>4 DEF Harmed
  <2> QED BY <1>1, <1>4, <2>1 DEF ConfInv, Complete
<1>ParamInit. ParamInit => ConfInv'
  <2> SUFFICES ASSUME ParamInit PROVE ConfInv'
    OBVIOUS
  <2>1. ~Harmed /\ file # Torn
    BY <1>1 DEF ParamInit, Harmed
  <2>2. Writers = {} /\ Writers' = {}
    BY <1>2, <1>3 DEF ParamInit, Writers
  <2>3. Complete(file)
    BY <1>1, <2>1, <2>2
  <2> QED BY <1>1, <2>1, <2>2, <2>3 DEF ParamInit, ConfInv, Complete
<1>FirstGet. FirstGet => ConfInv'
  <2> SUFFICES ASSUME FirstGet PROVE ConfInv'
    OBVIOUS
  <2>1. dict # "null"
    BY <1>1 DEF FirstGet, Harmed
  <2>2. /\ UNCHANGED <<file, overlap, dict, mem>> /\ harm \subseteq harm'
        /\ Writers' = Writers
    BY <1>2 DEF FirstGet, Writers
  <2> QED BY <1>4, <2>1, <2>2
<1>Interrupt. Interrupt => ConfInv'
  <2> SUFFICES ASSUME Interrupt PROVE ConfInv'
    OBVIOUS
  <2>1. dict # "null"
    BY <1>1 DEF Interrupt, Harmed
  <2>2. /\ UNCHANGED <<file, overlap, dict, mem>> /\ harm \subseteq harm'
        /\ Writers' = Writers
    BY <1>2 DEF Interrupt, Writers
  <2> QED BY <1>4, <2>1, <2>2
<1>ParamDeinit. ParamDeinit => ConfInv'
  <2> SUFFICES ASSUME ParamDeinit PROVE ConfInv'
    OBVIOUS
  <2>1. dict # "null"
    BY <1>1 DEF ParamDeinit, Harmed
  <2>2. Writers' = Writers
    BY <1>2 DEF ParamDeinit, Writers
  <2> QED BY <1>4, <2>1, <2>2 DEF ParamDeinit
<1>DeinitLock. DeinitLock => ConfInv'
  <2> SUFFICES ASSUME DeinitLock PROVE ConfInv'
    OBVIOUS
  <2>1. dict # "null"
    BY <1>1 DEF DeinitLock, Harmed
  <2>2. Writers' = Writers
    BY <1>2 DEF DeinitLock, Writers
  <2> QED BY <1>4, <2>1, <2>2 DEF DeinitLock
<1>FreeDict. FreeDict => ConfInv'
  <2> SUFFICES ASSUME FreeDict PROVE ConfInv'
    OBVIOUS
  <2>1. ~Harmed /\ dict # "null"
    BY <1>1 DEF FreeDict, Harmed
  <2>2. Writers' = Writers
    BY <1>2 DEF FreeDict, Writers
  <2> QED BY <1>1, <2>1, <2>2 DEF FreeDict, ConfInv
<1>Call. ASSUME NEW c \in Clients, Call(c) PROVE ConfInv'
  <2>1. PICK call \in Calls : Goto(c, Entry[call.kind]) /\ Hurt("users", UserClash(c, call))
    BY <1>Call DEF Call
  <2>2. Entry[call.kind] \in {"get", "count", "lock", "adding", "reload", "reboot"}
    BY CallFields DEF Entry
  <2>3. Writers' = Writers
    BY <1>2, <1>Call, <2>1, <2>2 DEF Call, Writers
  <2>4. dict # "null"
    BY <1>1, <1>Call, <2>1 DEF Call, Hurt, Harmed, Serving
  <2> QED BY <1>4, <1>Call, <2>1, <2>3, <2>4 DEF Call, Hurt
<1>CountKeys. ASSUME NEW c \in Clients, CountKeys(c) PROVE ConfInv'
  <2>1. /\ UNCHANGED <<file, overlap, dict, mem>> /\ harm \subseteq harm'
        /\ Writers' = Writers
    BY <1>2, <1>CountKeys DEF CountKeys, Returns, Hurt, Writers
  <2>2. dict # "null"
    BY <1>1, <1>3, <1>CountKeys, <2>1 DEF CountKeys, Harmed
  <2> QED BY <1>4, <2>1, <2>2
<1>GetString. ASSUME NEW c \in Clients, GetString(c) PROVE ConfInv'
  <2>1. /\ UNCHANGED <<file, overlap, dict, mem>> /\ harm \subseteq harm'
        /\ Writers' = Writers
    BY <1>2, <1>GetString DEF GetString, Returns, Hurt, Writers
  <2>2. dict # "null"
    BY <1>1, <1>3, <1>GetString, <2>1 DEF GetString, Harmed
  <2> QED BY <1>4, <2>1, <2>2
<1>LockForSet. ASSUME NEW c \in Clients, LockForSet(c) PROVE ConfInv'
  <2>1. /\ UNCHANGED <<file, overlap, dict, mem>> /\ harm \subseteq harm'
        /\ Writers' = Writers
    BY <1>2, <1>LockForSet DEF LockForSet, Returns, Hurt, Writers
  <2>2. dict # "null"
    BY <1>1, <1>3, <1>LockForSet, <2>1 DEF LockForSet, Harmed
  <2> QED BY <1>4, <2>1, <2>2
<1>ReadNum. ASSUME NEW c \in Clients, ReadNum(c) PROVE ConfInv'
  <2>1. /\ UNCHANGED <<file, overlap, dict, mem>> /\ harm \subseteq harm'
        /\ Writers' = Writers
    BY <1>2, <1>ReadNum DEF ReadNum, Returns, Hurt, Writers
  <2>2. dict # "null"
    BY <1>1, <1>3, <1>ReadNum, <2>1 DEF ReadNum, Harmed
  <2> QED BY <1>4, <2>1, <2>2
<1>Reboot. ASSUME NEW c \in Clients, Reboot(c) PROVE ConfInv'
  <2>1. /\ UNCHANGED <<file, overlap, dict, mem>> /\ harm \subseteq harm'
        /\ Writers' = Writers
    BY <1>2, <1>Reboot DEF Reboot, Returns, Hurt, Writers
  <2>2. dict # "null"
    BY <1>1, <1>3, <1>Reboot, <2>1 DEF Reboot, Harmed
  <2> QED BY <1>4, <2>1, <2>2
<1>SetValue. ASSUME NEW c \in Clients, SetValue(c) PROVE ConfInv'
  <2>1. ~Harmed /\ ~Spoils /\ Writers' = Writers
    BY <1>2, <1>SetValue DEF SetValue, If, Harmed, Writers
  <2>2. dict = "live" => Complete(mem')
    BY <1>1, <1>SetValue, <2>1, WithSetComplete DEF SetValue
  <2>3. dict # "null"
    BY <1>1, <1>3, <1>SetValue, <2>1 DEF SetValue
  <2>4. overlap' = overlap
    BY <1>SetValue, <2>1 DEF SetValue, SpoilDumps, Spoils
  <2> QED BY <1>1, <1>SetValue, <2>1, <2>2, <2>3, <2>4 DEF SetValue, ConfInv
<1>ChangeUser. ASSUME NEW c \in Clients, ChangeUser(c) PROVE ConfInv'
  <2>1. ~Harmed /\ ~Spoils /\ Writers' = Writers
    BY <1>2, <1>ChangeUser DEF ChangeUser, If, Harmed, Writers
  <2>2. mem'.par = mem.par /\ mem'.sections = mem.sections
    BY <1>2, <1>ChangeUser, WithAccountIsContent DEF ChangeUser
  <2>3. dict # "null"
    BY <1>1, <1>3, <1>ChangeUser, <2>1 DEF ChangeUser
  <2>4. overlap' = overlap
    BY <1>ChangeUser, <2>1 DEF ChangeUser, SpoilDumps, Spoils
  <2> QED BY <1>1, <1>ChangeUser, <2>1, <2>2, <2>3, <2>4 DEF ChangeUser, ConfInv, Complete
<1>Reload. ASSUME NEW c \in Clients, Reload(c) PROVE ConfInv'
  <2>1. ~Harmed /\ ~Spoils /\ Writers' = Writers
    BY <1>2, <1>Reload DEF Reload, If, Harmed, Writers
  <2>2. dict # "null"
    BY <1>1, <1>3, <1>Reload, <2>1 DEF Reload
  <2>3. overlap' = overlap
    BY <1>Reload, <2>1 DEF Reload, SpoilDumps, Spoils
  <2> QED BY <1>1, <1>Reload, <2>1, <2>2, <2>3 DEF Reload, ConfInv
<1>Load. ASSUME NEW c \in Clients, Load(c) PROVE ConfInv'
  <2>1. ~Harmed /\ ~Unlocked(Writers)
    BY <1>Load DEF Load, If, Harmed
  <2>2. \A t \in Threads : pc[t] # "write"
    BY <1>Load DEF Load, LockInv, Locked
  <2>3. Writers = {}
    BY <2>1, <2>2 DEF Writers, Unlocked
  <2>4. Writers' = {}
    BY <1>2, <1>Load, <2>3 DEF Load, Writers
  <2> QED BY <1>1, <1>Load, <2>1, <2>3, <2>4 DEF Load, ConfInv, Complete
<1>SaveOpens. ASSUME NEW t \in Threads, SaveOpens(t) PROVE ConfInv'
  <2>1. ~Harmed
    BY <1>SaveOpens DEF SaveOpens, Hurt, Harmed
  <2>2. Writers = {}
    BY <1>SaveOpens, TwoWriters DEF SaveOpens, Hurt, Harmed
  <2>3. t \in Writers'
    BY <1>2, <1>SaveOpens DEF SaveOpens, Writers
  <2>4. file' # Torn
    BY <1>SaveOpens, EmptyIsContent DEF SaveOpens
  <2>5. dict # "null"
    BY <1>1, <1>3, <1>SaveOpens, <2>1 DEF SaveOpens
  <2> QED BY <1>1, <1>SaveOpens, <2>1, <2>2, <2>3, <2>4, <2>5 DEF SaveOpens, ConfInv
<1>SaveFails. ASSUME NEW t \in Threads, SaveFails(t) PROVE ConfInv'
  BY <1>SaveFails DEF SaveFails, Hurt, Harmed
<1>SaveWrites. ASSUME NEW t \in Threads, SaveWrites(t) PROVE ConfInv'
  <2>1. ~Harmed /\ dict # "freed"
    BY <1>SaveWrites DEF SaveWrites, Hurt, Harmed
  <2>2. dict = "live"
    BY <1>1, <1>2, <1>3, <1>SaveWrites, <2>1 DEF SaveWrites
  <2>3. file' = Dump(mem)
    BY <1>1, <1>SaveWrites, <2>1, <2>2 DEF SaveWrites, Dumped
  <2>4. file' \in Content /\ Complete(file')
    BY <1>1, <1>2, <2>1, <2>2, <2>3, DumpFacts DEF Complete
  <2> QED BY <1>1, <1>2, <1>SaveWrites, <2>1, <2>2, <2>4 DEF SaveWrites, ConfInv, Complete
<1>SaveCut. ASSUME NEW t \in Threads, SaveCut(t) PROVE ConfInv'
  BY <1>SaveCut DEF SaveCut, Hurt, Harmed
<1>Killed. Killed => ConfInv'
  <2> SUFFICES ASSUME Killed PROVE ConfInv'
    OBVIOUS
  <2>1. ~Harmed /\ Writers = {} /\ file' = file
    BY DEF Killed, Cut, If, Harmed
  <2> QED BY <1>1, <2>1 DEF Killed, ProcessGone, ConfInv, Complete
<1>PowerFails. PowerFails => ConfInv'
  <2> SUFFICES ASSUME PowerFails PROVE ConfInv'
    OBVIOUS
  <2>1. ~Harmed /\ Writers = {} /\ file' = file
    BY DEF PowerFails, Cut, If, Harmed
  <2> QED BY <1>1, <2>1 DEF PowerFails, ProcessGone, ConfInv, Complete
<1>WriteBack. WriteBack => ConfInv'
  BY <1>1 DEF WriteBack, ConfInv, Harmed, Writers, Complete
<1>Start. Start => ConfInv'
  <2> SUFFICES ASSUME Start PROVE ConfInv'
    OBVIOUS
  <2>1. ~Harmed /\ Writers' = Writers
    BY <1>2 DEF Start, Harmed, Writers
  <2> QED BY <1>1, <1>2, <2>1 DEF Start, ConfInv, Complete
<1>Stutter. UNCHANGED vars => ConfInv'
  BY <1>1 DEF vars, ConfInv, Harmed, Writers, Complete
<1> QED
  BY <1>ParamInit, <1>FirstGet, <1>Interrupt, <1>ParamDeinit, <1>FreeDict,
      <1>DeinitLock, <1>CountKeys, <1>Load,
      <1>Call, <1>GetString, <1>LockForSet, <1>ReadNum, <1>Reboot,
      <1>SetValue, <1>ChangeUser, <1>Reload, <1>SaveOpens, <1>SaveFails,
      <1>SaveWrites, <1>SaveCut, <1>Killed, <1>PowerFails, <1>WriteBack,
      <1>Start, <1>Stutter
  DEF Next, MainStep, ClientStep, Save

\* The configuration is lost in no other way than those listed.
THEOREM ConfigurationKept == Spec => []KeepsConfiguration
<1>1. Init => Typed /\ LockInv /\ ConfInv
  BY InitTyped, InitLock, InitConf
<1>2. Typed /\ LockInv /\ ConfInv /\ [Next]_vars => Typed' /\ LockInv' /\ ConfInv'
  BY NextTyped, NextLock, NextConf
<1>3. ConfInv => KeepsConfiguration
  BY DEF ConfInv, KeepsConfiguration, Harmed
<1> QED BY <1>1, <1>2, <1>3, PTL DEF Spec

-----------------------------------------------------------------------------
(* The file follows the dictionary.                                        *)

\* A thread that has changed the dictionary and has not saved it yet, or that
\* is writing the file.
Unsaved(t) ==
  \/ pc[t] \in {"write", "uwrite"}
  \/ t \in Clients /\ pc[t] = "open"
  \/ t \in Clients /\ InUserCall(t) /\ pc[t] \in {"readnum", "lock", "setting"}

FileInv ==
  ~Harmed /\ dict # "null" /\ (\A t \in Threads : ~Unsaved(t)) => file = Dump(mem)

\* A file that can be parsed has no entry without its section: a dump of what
\* a load finds in it is the file again.
Reloads == file = Torn \/ Dump(file) = file

\* What a step can make of the file.
LEMMA FileChanges == Typed /\ [Next]_vars => file' \in {file, Empty, Torn, Dump(mem)}
<1> SUFFICES ASSUME Typed, [Next]_vars PROVE file' \in {file, Empty, Torn, Dump(mem)}
  OBVIOUS
<1> USE DEF fileVars
<1>Save. ASSUME NEW t \in Threads, Save(t) PROVE file' \in {file, Empty, Torn, Dump(mem)}
  <2>1. dict \in {"null", "live", "freed"}
    BY DEF Typed, TypeOK
  <2>2. Dumped(t) \subseteq {file, Empty, Torn, Dump(mem)}
    BY <2>1 DEF Dumped
  <2> QED BY <1>Save, <2>2 DEF Save, SaveOpens, SaveFails, SaveWrites, SaveCut
<1>Main. MainStep => file' \in {file, Empty, Torn, Dump(mem)}
  BY <1>Save DEF MainStep, ParamInit, FirstGet, ParamDeinit, DeinitLock, FreeDict
<1>Client. ASSUME NEW c \in Clients, Call(c) \/ ClientStep(c)
           PROVE  file' \in {file, Empty, Torn, Dump(mem)}
  BY <1>Client, <1>Save
  DEF Call, ClientStep, CountKeys, GetString, LockForSet, SetValue, ChangeUser, ReadNum,
      Reload, Load, Reboot
<1>Other. Interrupt \/ Killed \/ PowerFails \/ WriteBack \/ Start \/ UNCHANGED vars
           => file' \in {file, Empty, Torn, Dump(mem)}
  BY DEF Interrupt, Killed, PowerFails, WriteBack, Start, vars
<1> QED BY <1>Main, <1>Client, <1>Other DEF Next

LEMMA InitReloads == Init => Reloads
<1>1. Factory \in Content /\ Factory.sections /\ Factory.keys \subseteq Factory.users
  BY ParamAssumption
<1>2. Dump(Factory) = [Factory EXCEPT !.keys = Factory.keys \cap Factory.users]
  BY <1>1 DEF Dump
<1>3. Factory.keys \cap Factory.users = Factory.keys
  BY <1>1
<1>4. Dump(Factory) = Factory
  BY <1>1, <1>2, <1>3 DEF Content
<1> QED BY <1>4 DEF Init, Reloads

LEMMA NextReloads == Typed /\ Reloads /\ [Next]_vars => Reloads'
<1> SUFFICES ASSUME Typed, Reloads, [Next]_vars PROVE Reloads'
  OBVIOUS
<1>1. Dump(Empty) = Empty
  BY DEF Dump, Empty
<1>2. Dump(Dump(mem)) = Dump(mem)
  BY DumpFacts DEF Typed, TypeOK
<1> QED BY <1>1, <1>2, FileChanges DEF Reloads

LEMMA NextFile ==
  Typed /\ LockInv /\ ConfInv /\ Reloads /\ FileInv /\ [Next]_vars => FileInv'
<1> SUFFICES ASSUME Typed, LockInv, ConfInv, Reloads, FileInv, [Next]_vars,
                    ~Harmed', (dict # "null")', \A t \in Threads : ~Unsaved(t)'
             PROVE  file' = Dump(mem')
  BY DEF FileInv
<1> USE ParamAssumption, NoOpAssumption
<1>1. harm \subseteq Harms /\ pc \in [Threads -> MainPc \cup ClientPc]
      /\ op \in [Clients -> Calls \cup {NoOp}]
  BY DEF Typed, TypeOK
<1>2. /\ ~Harmed => overlap = {} /\ (dict = "null" => pc[Main] \in {"down", "init"})
      /\ pc[Main] \in {"down", "init", "first"} => \A c \in Clients : pc[c] = "idle"
  BY DEF ConfInv, LockInv
<1> USE DEF fileVars, dictVars, callVars, boundVars, Goto
\* A step that changes neither, and saves nobody's changes.
<1>3. ASSUME UNCHANGED <<file, mem, dict>>, harm \subseteq harm',
             \A t \in Threads : Unsaved(t) => Unsaved(t)'
      PROVE  file' = Dump(mem')
  BY <1>3 DEF FileInv, Harmed
<1>ParamInit. ParamInit => file' = Dump(mem')
  BY DEF ParamInit, Reloads
<1>FirstGet. FirstGet => file' = Dump(mem')
  <2> SUFFICES ASSUME FirstGet PROVE file' = Dump(mem')
    OBVIOUS
  <2>1. \A t \in Threads : Unsaved(t) => Unsaved(t)'
    BY <1>1 DEF FirstGet, Unsaved, InUserCall
  <2> QED BY <1>3, <2>1 DEF FirstGet
<1>Interrupt. Interrupt => file' = Dump(mem')
  <2> SUFFICES ASSUME Interrupt PROVE file' = Dump(mem')
    OBVIOUS
  <2>1. \A t \in Threads : Unsaved(t) => Unsaved(t)'
    BY <1>1 DEF Interrupt, Unsaved, InUserCall
  <2> QED BY <1>3, <2>1 DEF Interrupt
<1>ParamDeinit. ParamDeinit => file' = Dump(mem')
  <2> SUFFICES ASSUME ParamDeinit PROVE file' = Dump(mem')
    OBVIOUS
  <2>1. \A t \in Threads : Unsaved(t) => Unsaved(t)'
    BY <1>1 DEF ParamDeinit, Unsaved, InUserCall
  <2> QED BY <1>3, <2>1 DEF ParamDeinit
<1>DeinitLock. DeinitLock => file' = Dump(mem')
  <2> SUFFICES ASSUME DeinitLock PROVE file' = Dump(mem')
    OBVIOUS
  <2>1. \A t \in Threads : Unsaved(t) => Unsaved(t)'
    BY <1>1 DEF DeinitLock, Unsaved, InUserCall
  <2> QED BY <1>3, <2>1 DEF DeinitLock
<1>FreeDict. FreeDict => file' = Dump(mem')
  <2> SUFFICES ASSUME FreeDict PROVE file' = Dump(mem')
    OBVIOUS
  <2>1. \A t \in Threads : Unsaved(t) => Unsaved(t)'
    BY <1>1 DEF FreeDict, Unsaved, InUserCall
  <2>2. ~Harmed /\ dict # "null" /\ UNCHANGED <<file, mem>>
    BY DEF FreeDict, Harmed
  <2> QED BY <2>1, <2>2 DEF FileInv
<1>Call. ASSUME NEW c \in Clients, Call(c) PROVE file' = Dump(mem')
  <2>1. PICK call \in Calls : /\ op' = [op EXCEPT ![c] = call]
                             /\ Goto(c, Entry[call.kind])
                             /\ Hurt("users", UserClash(c, call))
    BY <1>Call DEF Call
  <2>2. \A t \in Threads : Unsaved(t) => Unsaved(t)'
    BY <1>1, <1>Call, <2>1 DEF Call, Unsaved, InUserCall
  <2> QED BY <1>3, <1>Call, <2>1, <2>2 DEF Call, Hurt
<1>CountKeys. ASSUME NEW c \in Clients, CountKeys(c) PROVE file' = Dump(mem')
  <2>1. op[c].kind = "cap"
    BY <1>CountKeys DEF CountKeys, Typed, OpOK
  <2>2. \A t \in Threads : Unsaved(t) => Unsaved(t)'
    BY <1>1, <1>CountKeys, <2>1 DEF CountKeys, Returns, Unsaved, InUserCall
  <2> QED BY <1>3, <1>CountKeys, <2>2 DEF CountKeys, Hurt
<1>GetString. ASSUME NEW c \in Clients, GetString(c) PROVE file' = Dump(mem')
  <2>1. \A t \in Threads : Unsaved(t) => Unsaved(t)'
    BY <1>1, <1>GetString DEF GetString, Returns, Unsaved, InUserCall
  <2> QED BY <1>3, <1>GetString, <2>1 DEF GetString, Hurt
<1>LockForSet. ASSUME NEW c \in Clients, LockForSet(c) PROVE file' = Dump(mem')
  <2>1. \A t \in Threads : Unsaved(t) => Unsaved(t)'
    BY <1>1, <1>LockForSet DEF LockForSet, Returns, Unsaved, InUserCall
  <2> QED BY <1>3, <1>LockForSet, <2>1 DEF LockForSet, Hurt
<1>ReadNum. ASSUME NEW c \in Clients, ReadNum(c) PROVE file' = Dump(mem')
  <2>1. \A t \in Threads : Unsaved(t) => Unsaved(t)'
    BY <1>1, <1>ReadNum DEF ReadNum, Returns, Unsaved, InUserCall
  <2> QED BY <1>3, <1>ReadNum, <2>1 DEF ReadNum, Hurt
<1>Reboot. ASSUME NEW c \in Clients, Reboot(c) PROVE file' = Dump(mem')
  <2>1. \A t \in Threads : Unsaved(t) => Unsaved(t)'
    BY <1>1, <1>Reboot DEF Reboot, Returns, Unsaved, InUserCall
  <2> QED BY <1>3, <1>Reboot, <2>1 DEF Reboot, Hurt
<1>SetValue. ASSUME NEW c \in Clients, SetValue(c) PROVE file' = Dump(mem')
  BY <1>1, <1>SetValue DEF SetValue, Unsaved
<1>ChangeUser. ASSUME NEW c \in Clients, ChangeUser(c) PROVE file' = Dump(mem')
  <2>1. op[c] \in Calls /\ op[c].kind \in {"add", "del"} /\ op[c] # NoOp
    BY <1>ChangeUser DEF ChangeUser, Typed, OpOK
  <2>2. pc'[c] = "readnum" /\ op' = op
    BY <1>1, <1>ChangeUser DEF ChangeUser
  <2>3. Unsaved(c)'
    BY <2>1, <2>2 DEF Unsaved, InUserCall
  <2> QED BY <2>3
<1>Reload. ASSUME NEW c \in Clients, Reload(c) PROVE file' = Dump(mem')
  <2>1. \A t \in Threads : Unsaved(t) => Unsaved(t)'
    BY <1>1, <1>Reload DEF Reload, Unsaved, InUserCall
  <2>2. ~Harmed /\ dict # "null" /\ UNCHANGED <<file, mem>>
    BY <1>Reload DEF Reload, Harmed
  <2> QED BY <2>1, <2>2 DEF FileInv
<1>Load. ASSUME NEW c \in Clients, Load(c) PROVE file' = Dump(mem')
  BY <1>Load DEF Load, Reloads
<1>SaveOpens. ASSUME NEW t \in Threads, SaveOpens(t) PROVE file' = Dump(mem')
  BY <1>1, <1>SaveOpens DEF SaveOpens, Unsaved
<1>SaveFails. ASSUME NEW t \in Threads, SaveFails(t) PROVE file' = Dump(mem')
  BY <1>SaveFails DEF SaveFails, Hurt, Harmed
<1>SaveCut. ASSUME NEW t \in Threads, SaveCut(t) PROVE file' = Dump(mem')
  BY <1>SaveCut DEF SaveCut, Hurt, Harmed
<1>SaveWrites. ASSUME NEW t \in Threads, SaveWrites(t) PROVE file' = Dump(mem')
  <2>1. ~Harmed /\ dict = "live"
    BY <1>SaveWrites DEF SaveWrites, Hurt, Harmed, Typed, TypeOK
  <2> QED BY <1>2, <1>SaveWrites, <2>1 DEF SaveWrites, Dumped
<1>Killed. Killed => file' = Dump(mem')
  BY DEF Killed, ProcessGone
<1>PowerFails. PowerFails => file' = Dump(mem')
  BY DEF PowerFails, ProcessGone
<1>WriteBack. WriteBack => file' = Dump(mem')
  <2> SUFFICES ASSUME WriteBack PROVE file' = Dump(mem')
    OBVIOUS
  <2>1. \A t \in Threads : Unsaved(t) => Unsaved(t)'
    BY <1>1 DEF WriteBack, Unsaved, InUserCall
  <2> QED BY <1>3, <2>1 DEF WriteBack
<1>Start. Start => file' = Dump(mem')
  <2> SUFFICES ASSUME Start PROVE file' = Dump(mem')
    OBVIOUS
  <2>1. \A t \in Threads : Unsaved(t) => Unsaved(t)'
    BY <1>1 DEF Start, Unsaved, InUserCall
  <2> QED BY <1>3, <2>1 DEF Start
<1>Stutter. UNCHANGED vars => file' = Dump(mem')
  BY <1>3 DEF vars, Unsaved, InUserCall
<1> QED
  BY <1>ParamInit, <1>FirstGet, <1>Interrupt, <1>ParamDeinit, <1>FreeDict,
      <1>DeinitLock, <1>CountKeys, <1>Load,
      <1>Call, <1>GetString, <1>LockForSet, <1>ReadNum, <1>Reboot,
      <1>SetValue, <1>ChangeUser, <1>Reload, <1>SaveOpens, <1>SaveFails,
      <1>SaveCut, <1>SaveWrites, <1>Killed, <1>PowerFails, <1>WriteBack,
      <1>Start, <1>Stutter
  DEF Next, MainStep, ClientStep, Save

\* A call that has returned is in the file.
THEOREM SavedOnReturn == Spec => []FileFollows
<1>1. Init => Typed /\ LockInv /\ ConfInv /\ Reloads /\ FileInv
  BY InitTyped, InitLock, InitConf, InitReloads DEF Init, FileInv
<1>2. Typed /\ LockInv /\ ConfInv /\ Reloads /\ FileInv /\ [Next]_vars
        => Typed' /\ LockInv' /\ ConfInv' /\ Reloads' /\ FileInv'
  BY NextTyped, NextLock, NextConf, NextReloads, NextFile
<1>3. FileInv => FileFollows
  BY DEF FileInv, FileFollows, Harmed, Unsaved
<1> QED BY <1>1, <1>2, <1>3, PTL DEF Spec

-----------------------------------------------------------------------------
(* The strings.                                                            *)

StringInv ==
  /\ StringsStayLive
  /\ pc[Main] \in {"down", "init"} => stale = {}
  /\ \A c \in Clients : pc[c] = "loading" => "reload" \in harm

LEMMA NextString == Typed /\ LockInv /\ StringInv /\ [Next]_vars => StringInv'
<1> SUFFICES ASSUME Typed, LockInv, StringInv, [Next]_vars PROVE StringInv'
  OBVIOUS
<1> USE ParamAssumption, NoOpAssumption
<1>1. /\ stale \subseteq Clients /\ held \in [Clients -> Keys \cup {NoKey}]
      /\ pc \in [Threads -> MainPc \cup ClientPc] /\ dict \in {"null", "live", "freed"}
  BY DEF Typed, TypeOK
<1>2. pc[Main] \in {"down", "init"} => \A c \in Clients : pc[c] = "idle"
  BY DEF LockInv
<1> USE DEF StringInv, StringsStayLive, fileVars, dictVars, callVars, boundVars, Goto
<1>ParamInit. ParamInit => StringInv'
  BY <1>1 DEF ParamInit
<1>FirstGet. FirstGet => StringInv'
  BY <1>1 DEF FirstGet
<1>Interrupt. Interrupt => StringInv'
  BY <1>1 DEF Interrupt
<1>ParamDeinit. ParamDeinit => StringInv'
  BY <1>1 DEF ParamDeinit
<1>DeinitLock. DeinitLock => StringInv'
  BY <1>1 DEF DeinitLock
<1>FreeDict. FreeDict => StringInv'
  BY <1>1 DEF FreeDict, Holders
<1>WriteBack. WriteBack => StringInv'
  BY <1>1 DEF WriteBack
<1>Start. Start => StringInv'
  BY <1>1 DEF Start
<1>Killed. Killed => StringInv'
  BY DEF Killed, ProcessGone
<1>PowerFails. PowerFails => StringInv'
  BY DEF PowerFails, ProcessGone
<1>Call. ASSUME NEW c \in Clients, Call(c) PROVE StringInv'
  <2>1. \A kind \in {call.kind : call \in Calls} : Entry[kind] # "loading"
    BY CallFields DEF Entry
  <2> QED BY <1>1, <1>2, <1>Call, <2>1 DEF Call, Hurt, Serving
<1>CountKeys. ASSUME NEW c \in Clients, CountKeys(c) PROVE StringInv'
  BY <1>1, <1>2, <1>CountKeys DEF CountKeys, Returns, Hurt
<1>GetString. ASSUME NEW c \in Clients, GetString(c) PROVE StringInv'
  BY <1>1, <1>2, <1>GetString DEF GetString, Returns, Hurt
<1>LockForSet. ASSUME NEW c \in Clients, LockForSet(c) PROVE StringInv'
  BY <1>1, <1>2, <1>LockForSet DEF LockForSet, Returns, Hurt
<1>SetValue. ASSUME NEW c \in Clients, SetValue(c) PROVE StringInv'
  <2>1. \A d \in FreedBySet(c) : held[d] \in SetKeys
    <3>1. op[c] \in Calls
      BY <1>SetValue DEF SetValue, Typed, OpOK
    <3> QED BY <3>1, CallFields DEF FreedBySet
  <2> QED BY <1>1, <1>2, <1>SetValue, <2>1 DEF SetValue
<1>ChangeUser. ASSUME NEW c \in Clients, ChangeUser(c) PROVE StringInv'
  BY <1>1, <1>2, <1>ChangeUser DEF ChangeUser
<1>ReadNum. ASSUME NEW c \in Clients, ReadNum(c) PROVE StringInv'
  BY <1>1, <1>2, <1>ReadNum DEF ReadNum, Returns, Hurt
<1>Reload. ASSUME NEW c \in Clients, Reload(c) PROVE StringInv'
  BY <1>1, <1>2, <1>Reload DEF Reload
<1>Load. ASSUME NEW c \in Clients, Load(c) PROVE StringInv'
  BY <1>1, <1>2, <1>Load DEF Load
<1>Reboot. ASSUME NEW c \in Clients, Reboot(c) PROVE StringInv'
  BY <1>1, <1>2, <1>Reboot DEF Reboot, Returns, Hurt
<1>SaveOpens. ASSUME NEW t \in Threads, SaveOpens(t) PROVE StringInv'
  BY <1>1, <1>2, <1>SaveOpens DEF SaveOpens, Hurt
<1>SaveFails. ASSUME NEW t \in Threads, SaveFails(t) PROVE StringInv'
  <2>1. pc[Main] \notin {"down", "init"} /\ pc'[Main] \notin {"down", "init"}
    BY <1>1, <1>2, <1>SaveFails DEF SaveFails, AfterSave, Returns
  <2>2. \A c \in Clients : pc'[c] = "loading" => pc[c] = "loading"
    BY <1>1, <1>SaveFails DEF SaveFails, AfterSave, Returns
  <2> QED BY <1>1, <1>SaveFails, <2>1, <2>2 DEF SaveFails, Hurt
<1>SaveWrites. ASSUME NEW t \in Threads, SaveWrites(t) PROVE StringInv'
  <2>1. pc[Main] \notin {"down", "init"} /\ pc'[Main] \notin {"down", "init"}
    BY <1>1, <1>2, <1>SaveWrites DEF SaveWrites, AfterSave, Returns
  <2>2. \A c \in Clients : pc'[c] = "loading" => pc[c] = "loading"
    BY <1>1, <1>SaveWrites DEF SaveWrites, AfterSave, Returns
  <2> QED BY <1>1, <1>SaveWrites, <2>1, <2>2 DEF SaveWrites, Hurt
<1>SaveCut. ASSUME NEW t \in Threads, SaveCut(t) PROVE StringInv'
  <2>1. pc[Main] \notin {"down", "init"} /\ pc'[Main] \notin {"down", "init"}
    BY <1>1, <1>2, <1>SaveCut DEF SaveCut, AfterSave, Returns
  <2>2. \A c \in Clients : pc'[c] = "loading" => pc[c] = "loading"
    BY <1>1, <1>SaveCut DEF SaveCut, AfterSave, Returns
  <2> QED BY <1>1, <1>SaveCut, <2>1, <2>2 DEF SaveCut, Hurt
<1>Stutter. UNCHANGED vars => StringInv'
  BY DEF vars
<1> QED
  BY <1>ParamInit, <1>FirstGet, <1>Interrupt, <1>ParamDeinit, <1>FreeDict,
      <1>DeinitLock, <1>CountKeys, <1>Load,
      <1>WriteBack, <1>Start, <1>Killed, <1>PowerFails, <1>Call, <1>GetString,
      <1>LockForSet, <1>SetValue, <1>ChangeUser, <1>ReadNum, <1>Reload,
      <1>Reboot, <1>SaveOpens, <1>SaveFails, <1>SaveWrites, <1>SaveCut,
      <1>Stutter
  DEF Next, MainStep, ClientStep, Save

\* A string of an entry that nobody sets lives as long as its dictionary.
THEOREM StringsSafe == Spec => []StringsStayLive
<1>1. Init => Typed /\ LockInv /\ StringInv
  BY InitTyped, InitLock DEF Init, StringInv, StringsStayLive
<1>2. Typed /\ LockInv /\ StringInv /\ [Next]_vars => Typed' /\ LockInv' /\ StringInv'
  BY NextTyped, NextLock, NextString
<1>3. StringInv => StringsStayLive
  BY DEF StringInv
<1> QED BY <1>1, <1>2, <1>3, PTL DEF Spec

-----------------------------------------------------------------------------
(* The number of accounts.                                                 *)

Counts(content) == content.num = Cardinality(content.users)
Unhurt  == harm \subseteq {"reload"}
NoUser  == \A c \in Clients : ~InUserCall(c)

\* Where a client is tells what it can be about.
CallAt ==
  \A c \in Clients : /\ pc[c] = "idle" => op[c] = NoOp
                     /\ pc[c] \in {"reload", "loading", "reboot"} => ~InUserCall(c)

\* How far a user call is: the account, then the number it has read, then the
\* number with the account.
Stage(c) ==
  /\ pc[c] = "adding" => Counts(mem) /\ (op[c].kind = "add" <=> op[c].user \notin mem.users)
  /\ pc[c] \in {"readnum", "lock", "setting"} =>
       Cardinality(mem.users) = IF op[c].kind = "add" THEN mem.num + 1 ELSE mem.num - 1
  /\ pc[c] \in {"lock", "setting"} => got[c] = mem.num
  /\ pc[c] \in {"open", "write", "uopen", "uwrite"} => Counts(mem)

UserInv ==
  Unhurt =>
    /\ \A c, d \in Clients : InUserCall(c) /\ InUserCall(d) => c = d
    /\ \A s, t \in Writers : s = t
    /\ dict = "live" /\ NoUser => Counts(mem)
    /\ dict = "live" => \A c \in Clients : InUserCall(c) => Stage(c)
    /\ Writers = {} /\ NoUser => Counts(file)

LEMMA NextCallAt == Typed /\ LockInv /\ CallAt /\ [Next]_vars => CallAt'
<1> SUFFICES ASSUME Typed, LockInv, CallAt, [Next]_vars PROVE CallAt'
  OBVIOUS
<1> USE ParamAssumption, NoOpAssumption
<1>1. /\ pc \in [Threads -> MainPc \cup ClientPc] /\ op \in [Clients -> Calls \cup {NoOp}]
      /\ pc[Main] \in MainPc /\ \A c \in Clients : pc[c] \in ClientPc
  BY DEF Typed, TypeOK
<1> USE DEF CallAt, InUserCall, fileVars, dictVars, callVars, boundVars, Goto
<1>Main. ParamInit \/ FirstGet \/ Interrupt \/ ParamDeinit \/ DeinitLock \/ FreeDict => CallAt'
  BY <1>1 DEF ParamInit, FirstGet, Interrupt, ParamDeinit, DeinitLock, FreeDict
<1>Other. WriteBack \/ Start => CallAt'
  BY <1>1 DEF WriteBack, Start
<1>Gone. Killed \/ PowerFails => CallAt'
  BY DEF Killed, PowerFails, ProcessGone
<1>Call. ASSUME NEW c \in Clients, Call(c) PROVE CallAt'
  <2>1. PICK call \in Calls : op' = [op EXCEPT ![c] = call] /\ Goto(c, Entry[call.kind])
    BY <1>Call DEF Call
  <2>2. /\ call.kind \in {"get", "set", "cap", "add", "del", "account", "number",
                          "import", "reboot"}
        /\ pc'[c] = Entry[call.kind] /\ op'[c] = call
    BY <1>1, <2>1, CallFields
  <2>3. /\ Entry[call.kind] # "idle"
        /\ Entry[call.kind] \in {"reload", "loading", "reboot"}
             => call.kind \notin {"add", "del"}
    BY <2>2 DEF Entry
  <2> QED BY <1>1, <2>1, <2>2, <2>3
<1>Reads. ASSUME NEW c \in Clients,
                 CountKeys(c) \/ GetString(c) \/ ReadNum(c) \/ LockForSet(c)
          PROVE  CallAt'
  BY <1>1, <1>Reads DEF CountKeys, GetString, ReadNum, LockForSet, Returns
<1>Sets. ASSUME NEW c \in Clients, SetValue(c) \/ ChangeUser(c) PROVE CallAt'
  BY <1>1, <1>Sets DEF SetValue, ChangeUser
<1>Loads. ASSUME NEW c \in Clients, Reload(c) \/ Load(c) \/ Reboot(c) PROVE CallAt'
  BY <1>1, <1>Loads DEF Reload, Load, Reboot, Returns
<1>Opens. ASSUME NEW t \in Threads, SaveOpens(t) PROVE CallAt'
  BY <1>1, <1>Opens DEF SaveOpens
<1>Saves. ASSUME NEW t \in Threads, SaveFails(t) \/ SaveWrites(t) \/ SaveCut(t) PROVE CallAt'
  <2>1. AfterSave(t)
    BY <1>Saves DEF SaveFails, SaveWrites, SaveCut
  <2> QED BY <1>1, <2>1 DEF AfterSave, Returns
<1>Stutter. UNCHANGED vars => CallAt'
  BY DEF vars
<1> QED
  BY <1>Main, <1>Other, <1>Gone, <1>Call, <1>Reads, <1>Sets, <1>Loads, <1>Opens, <1>Saves,
     <1>Stutter
  DEF Next, MainStep, ClientStep, Save

\* The sets of accounts are finite, so that one more counts one more.
LEMMA OneMore ==
  ASSUME NEW S \in SUBSET Users, NEW u \in Users
  PROVE  /\ Cardinality(S) \in Nat
         /\ u \notin S => Cardinality(S \cup {u}) = Cardinality(S) + 1
         /\ u \in S => Cardinality(S \ {u}) = Cardinality(S) - 1
<1>1. IsFiniteSet(S)
  BY ParamAssumption, FS_Subset
<1> QED BY <1>1, FS_CardinalityType, FS_AddElement, FS_RemoveElement

\* What the steps of a user call do to the stage it is at.
LEMMA UserAdds ==
  ASSUME Typed, NEW c \in Clients, InUserCall(c), Stage(c), dict = "live", ChangeUser(c)
  PROVE  Stage(c)'
<1>1. /\ pc[c] = "adding" /\ pc'[c] = "readnum" /\ op' = op /\ mem \in Content
      /\ mem' = WithAccount(c)
  BY DEF ChangeUser, Goto, Typed, TypeOK, callVars
<1>2. op[c] \in Calls /\ op[c].kind \in {"add", "del"}
  BY NoOpAssumption DEF InUserCall, Typed, TypeOK
<1>3. op[c].user \in Users /\ mem.users \in SUBSET Users /\ mem.num \in Int
  BY <1>1, <1>2, CallFields DEF Content
<1>4. /\ mem.num = Cardinality(mem.users)
      /\ op[c].kind = "add" <=> op[c].user \notin mem.users
  BY <1>1 DEF Stage, Counts
<1>5. /\ mem'.num = mem.num
      /\ mem'.users = IF op[c].kind = "add" THEN mem.users \cup {op[c].user}
                                            ELSE mem.users \ {op[c].user}
  BY <1>1, WithAccountIsContent
<1>6. Cardinality(mem'.users) = IF op[c].kind = "add" THEN mem'.num + 1 ELSE mem'.num - 1
  <2>1. CASE op[c].kind = "add"
    BY <1>3, <1>4, <1>5, <2>1, OneMore
  <2>2. CASE op[c].kind # "add"
    BY <1>3, <1>4, <1>5, <2>2, OneMore
  <2> QED BY <2>1, <2>2
<1> QED BY <1>1, <1>6 DEF Stage

LEMMA UserSets ==
  ASSUME Typed, NEW c \in Clients, InUserCall(c), Stage(c), dict = "live", SetValue(c)
  PROVE  Stage(c)' /\ Counts(mem)'
<1>1. /\ pc[c] = "setting" /\ pc'[c] = "open" /\ op' = op /\ mem \in Content
      /\ mem' = WithSet(c) /\ op[c].kind \in {"add", "del"}
  BY DEF SetValue, Goto, Typed, TypeOK, callVars, InUserCall
<1>5. mem' = [mem EXCEPT !.num = IF op[c].kind = "add" THEN got[c] + 1 ELSE got[c] - 1]
  BY <1>1 DEF WithSet
<1>2. /\ got[c] = mem.num
      /\ Cardinality(mem.users) = IF op[c].kind = "add" THEN mem.num + 1 ELSE mem.num - 1
  BY <1>1 DEF Stage
<1>3. mem'.users = mem.users /\ mem'.num = IF op[c].kind = "add" THEN got[c] + 1 ELSE got[c] - 1
  BY <1>1, <1>5 DEF Content
<1>4. Counts(mem)'
  BY <1>2, <1>3 DEF Counts
<1> QED BY <1>1, <1>4 DEF Stage

LEMMA NextUser == Typed /\ LockInv /\ ConfInv /\ CallAt /\ UserInv /\ [Next]_vars => UserInv'
<1> SUFFICES ASSUME Typed, LockInv, ConfInv, CallAt, UserInv, [Next]_vars, Unhurt'
             PROVE  UserInv'
  BY DEF UserInv
<1> USE ParamAssumption, NoOpAssumption
<1>1. /\ pc \in [Threads -> MainPc \cup ClientPc] /\ op \in [Clients -> Calls \cup {NoOp}]
      /\ pc[Main] \in MainPc /\ \A c \in Clients : pc[c] \in ClientPc
      /\ got \in [Clients -> Int] /\ mem \in Content /\ dict \in {"null", "live", "freed"}
  BY DEF Typed, TypeOK
<1>2. pc[Main] \in {"down", "init", "first"} => \A c \in Clients : pc[c] = "idle"
  BY DEF LockInv
<1>3. \A c \in Clients : pc[c] = "idle" => ~InUserCall(c)
  BY DEF CallAt, InUserCall
<1>4. Unhurt => ~Harmed
  BY DEF Unhurt, Harmed
<1>5. Unhurt => /\ dict = "null" => pc[Main] \in {"down", "init"}
                /\ overlap = {} /\ file # Torn
                /\ dict = "live" => mem.sections
  BY <1>4 DEF ConfInv, Complete
<1> USE DEF fileVars, dictVars, callVars, boundVars, Goto
\* A step that changes neither file nor dictionary nor who is about what.
<1>6. ASSUME Unhurt, UNCHANGED <<file, dict, mem, got>>, Writers' = Writers,
             \A c \in Clients : /\ InUserCall(c)' <=> InUserCall(c)
                                /\ InUserCall(c) => op'[c] = op[c] /\ pc'[c] = pc[c]
      PROVE  UserInv'
  <2>1. NoUser' <=> NoUser
    BY <1>6 DEF NoUser
  <2>2. Counts(mem)' = Counts(mem) /\ Counts(file)' = Counts(file)
    BY <1>6 DEF Counts
  <2>3. \A c \in Clients : InUserCall(c) /\ Stage(c) => Stage(c)'
    BY <1>6, <2>2 DEF Stage
  <2> QED BY <1>6, <2>1, <2>2, <2>3 DEF UserInv
\* Steps of main that change the pc only.
<1>Main. FirstGet \/ Interrupt \/ ParamDeinit \/ DeinitLock \/ Start => UserInv'
  <2> SUFFICES ASSUME FirstGet \/ Interrupt \/ ParamDeinit \/ DeinitLock \/ Start PROVE UserInv'
    OBVIOUS
  <2>1. Unhurt /\ UNCHANGED <<file, dict, mem, got, op>>
    BY DEF FirstGet, Interrupt, ParamDeinit, DeinitLock, Start, Unhurt
  <2>2. Writers' = Writers
    BY <1>1 DEF FirstGet, Interrupt, ParamDeinit, DeinitLock, Start, Writers
  <2>3. \A c \in Clients : pc'[c] = pc[c] /\ op'[c] = op[c]
    BY <1>1, <2>1 DEF FirstGet, Interrupt, ParamDeinit, DeinitLock, Start
  <2> QED BY <1>6, <2>1, <2>2, <2>3 DEF InUserCall
<1>WriteBack. WriteBack => UserInv'
  <2> SUFFICES ASSUME WriteBack PROVE UserInv'
    OBVIOUS
  <2>1. Unhurt /\ UNCHANGED <<file, dict, mem, got, op, pc>>
    BY DEF WriteBack, Unhurt
  <2> QED BY <1>6, <2>1 DEF InUserCall, Writers
<1>ParamInit. ParamInit => UserInv'
  <2> SUFFICES ASSUME ParamInit PROVE UserInv'
    OBVIOUS
  <2>1. Unhurt /\ pc[Main] = "init" /\ NoUser /\ NoUser'
    BY <1>2, <1>3 DEF ParamInit, Unhurt, NoUser, InUserCall
  <2>2. Writers = {} /\ Writers' = {}
    BY <1>1, <1>2, <2>1 DEF ParamInit, Writers
  <2>3. Counts(file) /\ file' = file /\ mem' = file
    BY <1>5, <2>1, <2>2 DEF ParamInit, UserInv
  <2>4. Counts(file)' /\ Counts(mem)'
    BY <2>3 DEF Counts
  <2> QED BY <2>1, <2>2, <2>4 DEF UserInv, NoUser
<1>FreeDict. FreeDict => UserInv'
  <2> SUFFICES ASSUME FreeDict PROVE UserInv'
    OBVIOUS
  <2>1. Unhurt /\ dict' # "live" /\ UNCHANGED <<file, op>>
    BY <1>5 DEF FreeDict, Unhurt
  <2>2. Writers' = Writers
    BY <1>1 DEF FreeDict, Writers
  <2>3. \A c \in Clients : InUserCall(c)' <=> InUserCall(c)
    BY <2>1 DEF InUserCall
  <2>4. Counts(file)' = Counts(file)
    BY <2>1 DEF Counts
  <2> QED BY <2>1, <2>2, <2>3, <2>4 DEF UserInv, NoUser
<1>Call. ASSUME NEW c \in Clients, Call(c) PROVE UserInv'
  <2>1. PICK call \in Calls : /\ op' = [op EXCEPT ![c] = call]
                             /\ Goto(c, Entry[call.kind])
                             /\ Hurt("users", UserClash(c, call))
    BY <1>Call DEF Call
  <2>2. /\ Unhurt /\ UNCHANGED <<file, dict, mem, got>> /\ pc[c] = "idle" /\ ~InUserCall(c)
        /\ ~UserClash(c, call)
    BY <1>3, <1>Call, <2>1 DEF Call, Hurt, Unhurt
  <2>3. Entry[call.kind] \in {"get", "count", "lock", "adding", "reload", "reboot"}
    BY CallFields DEF Entry
  <2>4. Writers' = Writers
    BY <1>1, <2>1, <2>2, <2>3 DEF Writers
  <2>5. \A d \in Clients \ {c} : pc'[d] = pc[d] /\ op'[d] = op[d]
    BY <1>1, <2>1
  <2>6. op'[c] = call /\ pc'[c] = Entry[call.kind] /\ call # NoOp
    BY <1>1, <2>1
  <2>7. CASE call.kind \notin {"add", "del"}
    <3>1. ~InUserCall(c)'
      BY <2>6, <2>7 DEF InUserCall
    <3> QED BY <1>6, <2>2, <2>4, <2>5, <3>1 DEF InUserCall
  <2>8. CASE call.kind \in {"add", "del"}
    <3>1. /\ InUserCall(c)' /\ pc'[c] = "adding"
          /\ \A d \in Clients \ {c} : ~InUserCall(d) /\ ~InUserCall(d)'
          /\ call.kind = "add" <=> call.user \notin mem.users
      BY <2>2, <2>5, <2>6, <2>8 DEF UserClash, InUserCall, Entry
    <3>2. NoUser /\ ~NoUser'
      BY <2>2, <3>1 DEF NoUser
    <3>3. dict' = "live" => Stage(c)'
      <4> SUFFICES ASSUME dict = "live" PROVE Stage(c)'
        BY <2>2
      <4>1. Counts(mem)
        BY <2>2, <3>2 DEF UserInv
      <4> QED BY <2>2, <2>6, <3>1, <4>1 DEF Stage, Counts
    <3>4. \A d \in Clients : InUserCall(d)' => d = c
      BY <3>1
    <3>5. \A s, t \in Writers' : s = t
      BY <2>2, <2>4 DEF UserInv
    <3> QED BY <3>2, <3>3, <3>4, <3>5 DEF UserInv
  <2> QED BY <2>7, <2>8
<1>GetString. ASSUME NEW c \in Clients, GetString(c) PROVE UserInv'
  <2>1. Unhurt /\ UNCHANGED <<file, dict, mem>> /\ Writers' = Writers
    BY <1>1, <1>GetString DEF GetString, Hurt, Unhurt, Returns, Writers
  <2>2. ~InUserCall(c)
    BY <1>GetString DEF GetString, Typed, OpOK, InUserCall
  <2>3. ~InUserCall(c)' /\ \A d \in Clients \ {c} : /\ pc'[d] = pc[d] /\ op'[d] = op[d]
                                                   /\ got'[d] = got[d]
    BY <1>1, <1>GetString DEF GetString, Returns, InUserCall
  <2>4. \A d \in Clients : /\ InUserCall(d)' <=> InUserCall(d)
                           /\ InUserCall(d) /\ Stage(d) => Stage(d)'
    BY <2>1, <2>2, <2>3 DEF InUserCall, Stage, Counts
  <2> QED BY <2>1, <2>4 DEF UserInv, NoUser, Counts
<1>CountKeys. ASSUME NEW c \in Clients, CountKeys(c) PROVE UserInv'
  <2>1. Unhurt /\ UNCHANGED <<file, dict, mem>> /\ Writers' = Writers
    BY <1>1, <1>CountKeys DEF CountKeys, Hurt, Unhurt, Returns, Writers
  <2>2. ~InUserCall(c)
    BY <1>CountKeys DEF CountKeys, Typed, OpOK, InUserCall
  <2>3. ~InUserCall(c)' /\ \A d \in Clients \ {c} : /\ pc'[d] = pc[d] /\ op'[d] = op[d]
                                                   /\ got'[d] = got[d]
    BY <1>1, <1>CountKeys, <2>2 DEF CountKeys, Returns, InUserCall
  <2>4. \A d \in Clients : /\ InUserCall(d)' <=> InUserCall(d)
                           /\ InUserCall(d) /\ Stage(d) => Stage(d)'
    BY <2>1, <2>2, <2>3 DEF InUserCall, Stage, Counts
  <2> QED BY <2>1, <2>4 DEF UserInv, NoUser, Counts
<1>Reboot. ASSUME NEW c \in Clients, Reboot(c) PROVE UserInv'
  <2>1. Unhurt /\ UNCHANGED <<file, dict, mem>> /\ Writers' = Writers
    BY <1>1, <1>Reboot DEF Reboot, Unhurt, Returns, Writers
  <2>2. ~InUserCall(c)
    BY <1>Reboot DEF Reboot, CallAt
  <2>3. ~InUserCall(c)' /\ \A d \in Clients \ {c} : /\ pc'[d] = pc[d] /\ op'[d] = op[d]
                                                   /\ got'[d] = got[d]
    BY <1>1, <1>Reboot DEF Reboot, Returns, InUserCall
  <2>4. \A d \in Clients : /\ InUserCall(d)' <=> InUserCall(d)
                           /\ InUserCall(d) /\ Stage(d) => Stage(d)'
    BY <2>1, <2>2, <2>3 DEF InUserCall, Stage, Counts
  <2> QED BY <2>1, <2>4 DEF UserInv, NoUser, Counts
<1>Reads. ASSUME NEW c \in Clients, ReadNum(c) \/ LockForSet(c) PROVE UserInv'
  <2>1. Unhurt /\ UNCHANGED <<file, dict, mem, op>> /\ Writers' = Writers
    BY <1>1, <1>Reads DEF ReadNum, LockForSet, Hurt, Unhurt, Writers
  <2>2. \A d \in Clients \ {c} : pc'[d] = pc[d] /\ got'[d] = got[d]
    BY <1>1, <1>Reads DEF ReadNum, LockForSet
  <2>3. \/ pc[c] = "readnum" /\ pc'[c] = "lock" /\ (dict = "live" => got'[c] = mem.num)
        \/ pc[c] = "lock" /\ pc'[c] = "setting" /\ got'[c] = got[c]
    BY <1>1, <1>Reads DEF ReadNum, LockForSet
  <2>4. dict = "live" /\ Stage(c) => Stage(c)'
    BY <2>1, <2>3 DEF Stage, Counts
  <2>5. \A d \in Clients \ {c} : Stage(d) => Stage(d)'
    BY <2>1, <2>2 DEF Stage, Counts
  <2>6. \A d \in Clients : InUserCall(d)' <=> InUserCall(d)
    BY <2>1 DEF InUserCall
  <2>7. (NoUser' <=> NoUser) /\ Counts(mem)' = Counts(mem) /\ Counts(file)' = Counts(file)
    BY <2>1, <2>6 DEF NoUser, Counts
  <2> QED BY <2>1, <2>4, <2>5, <2>6, <2>7 DEF UserInv
<1>ChangeUser. ASSUME NEW c \in Clients, ChangeUser(c) PROVE UserInv'
  <2>1. Unhurt /\ UNCHANGED <<file, dict, op>> /\ Writers' = Writers /\ InUserCall(c)
    BY <1>1, <1>ChangeUser DEF ChangeUser, Unhurt, Writers, Typed, OpOK, InUserCall
  <2>2. \A d \in Clients : InUserCall(d)' => d = c
    BY <2>1 DEF UserInv, InUserCall
  <2>3. InUserCall(c)'
    BY <2>1 DEF InUserCall
  <2>4. ~NoUser' /\ ~NoUser
    BY <2>1, <2>3 DEF NoUser
  <2>5. dict' = "live" => Stage(c)'
    BY <1>ChangeUser, <2>1, UserAdds DEF UserInv
  <2>6. \A s, t \in Writers' : s = t
    BY <2>1 DEF UserInv
  <2> QED BY <2>2, <2>4, <2>5, <2>6 DEF UserInv
<1>SetValue. ASSUME NEW c \in Clients, SetValue(c) PROVE UserInv'
  <2>1. /\ Unhurt /\ UNCHANGED <<file, dict, op, got>> /\ Writers' = Writers
        /\ pc[c] = "setting" /\ pc'[c] = "open"
    BY <1>1, <1>SetValue DEF SetValue, Unhurt, Writers
  <2>2. \A d \in Clients : InUserCall(d)' <=> InUserCall(d)
    BY <2>1 DEF InUserCall
  <2>3. (NoUser' <=> NoUser) /\ Counts(file)' = Counts(file)
    BY <2>1, <2>2 DEF NoUser, Counts
  <2>4. CASE InUserCall(c)
    <3>1. dict' = "live" => Stage(c)'
      BY <1>SetValue, <2>1, <2>4, UserSets DEF UserInv
    <3>2. \A d \in Clients : InUserCall(d)' => d = c
      BY <2>1, <2>2, <2>4 DEF UserInv
    <3>3. ~NoUser /\ \A s, t \in Writers' : s = t
      BY <2>1, <2>4 DEF UserInv, NoUser
    <3> QED BY <2>3, <3>1, <3>2, <3>3 DEF UserInv
  <2>5. CASE ~InUserCall(c)
    <3>1. ~Miscounts(c)
      BY <1>SetValue DEF SetValue, If, Unhurt
    <3>2. dict = "live" => mem'.users = mem.users
      <4> SUFFICES ASSUME dict = "live" PROVE mem'.users = mem.users
        OBVIOUS
      <4>1. mem' = WithSet(c) /\ op[c].kind \in {"set", "account", "number", "add", "del"}
        BY <1>SetValue DEF SetValue, Typed, OpOK
      <4>2. \/ mem' = [mem EXCEPT !.par[op[c].key] = op[c].val]
            \/ \E k : mem' = [mem EXCEPT !.keys = k]
            \/ \E n : mem' = [mem EXCEPT !.num = n]
        BY <4>1 DEF WithSet
      <4> QED BY <1>1, <4>2 DEF Content
    <3>3. CASE op[c].kind = "number"
      <4>1. NoUser /\ NoUser' /\ op[c].num = Cardinality(mem.users)
        BY <2>3, <3>1, <3>3 DEF Miscounts, NoUser
      <4>2. dict = "live" => mem'.num = op[c].num
        BY <1>1, <1>SetValue, <3>3 DEF SetValue, WithSet, Content
      <4>3. dict = "live" => Counts(mem)'
        BY <3>2, <4>1, <4>2 DEF Counts
      <4> QED BY <2>1, <2>3, <4>1, <4>3 DEF UserInv, NoUser
    <3>4. CASE op[c].kind # "number"
      <4>1. dict = "live" => mem'.num = mem.num
        <5> SUFFICES ASSUME dict = "live" PROVE mem'.num = mem.num
          OBVIOUS
        <5>1. mem' = WithSet(c) /\ op[c].kind \in {"set", "account"}
          BY <1>SetValue, <2>5, <3>4 DEF SetValue, Typed, OpOK, InUserCall
        <5>2. \/ mem' = [mem EXCEPT !.par[op[c].key] = op[c].val]
              \/ \E k : mem' = [mem EXCEPT !.keys = k]
          BY <5>1 DEF WithSet
        <5> QED BY <1>1, <5>2 DEF Content
      <4>2. dict = "live" => Counts(mem)' = Counts(mem)
        BY <3>2, <4>1 DEF Counts
      <4>3. \A d \in Clients \ {c} : pc'[d] = pc[d]
        BY <1>1, <1>SetValue DEF SetValue
      <4>4. \A d \in Clients \ {c} : dict = "live" /\ Stage(d) => Stage(d)'
        BY <2>1, <3>2, <4>1, <4>2, <4>3 DEF Stage
      <4> QED BY <2>1, <2>2, <2>3, <2>5, <4>2, <4>4 DEF UserInv
    <3> QED BY <3>3, <3>4
  <2> QED BY <2>4, <2>5
<1>Reload. ASSUME NEW c \in Clients, Reload(c) PROVE UserInv'
  <2>1. Unhurt /\ NoUser /\ UNCHANGED <<file, op>> /\ dict' # "live"
    BY <1>1, <1>Reload DEF Reload, If, Unhurt, NoUser
  <2>2. Writers' = Writers
    BY <1>1, <1>Reload DEF Reload, Writers
  <2>3. NoUser'
    BY <2>1 DEF NoUser, InUserCall
  <2>4. Counts(file)' = Counts(file)
    BY <2>1 DEF Counts
  <2> QED BY <2>1, <2>2, <2>3, <2>4 DEF UserInv, NoUser
<1>Load. ASSUME NEW c \in Clients, Load(c) PROVE UserInv'
  <2>1. Unhurt /\ ~Unlocked(Writers) /\ NoUser /\ UNCHANGED <<file, op>>
    BY <1>1, <1>Load DEF Load, If, Unhurt, NoUser
  <2>2. \A t \in Threads : pc[t] # "write"
    BY <1>Load DEF Load, LockInv, Locked
  <2>3. Writers = {}
    BY <2>1, <2>2 DEF Writers, Unlocked
  <2>4. Writers' = {}
    BY <1>1, <1>Load, <2>3 DEF Load, Writers
  <2>5. NoUser'
    BY <2>1 DEF NoUser, InUserCall
  <2>6. Counts(file) /\ mem' = file
    BY <1>5, <1>Load, <2>1, <2>3 DEF Load, UserInv
  <2>7. Counts(file)' /\ Counts(mem)'
    BY <2>1, <2>6 DEF Counts
  <2> QED BY <2>4, <2>5, <2>7 DEF UserInv, NoUser
<1>SaveOpens. ASSUME NEW t \in Threads, SaveOpens(t) PROVE UserInv'
  <2>1. /\ Unhurt /\ UNCHANGED <<dict, mem, op, got>> /\ pc[t] \in {"open", "uopen"}
        /\ pc' = [pc EXCEPT ![t] = IF pc[t] = "open" THEN "write" ELSE "uwrite"]
    BY <1>SaveOpens DEF SaveOpens, Hurt, Unhurt
  <2>2. Writers = {}
    BY <1>SaveOpens, <2>1, TwoWriters DEF SaveOpens, Hurt, Unhurt
  <2>3. Writers' = {t}
    BY <1>1, <2>1, <2>2 DEF Writers
  <2>4. \A d \in Clients : InUserCall(d)' <=> InUserCall(d)
    BY <2>1 DEF InUserCall
  <2>5. (NoUser' <=> NoUser) /\ Counts(mem)' = Counts(mem)
    BY <2>1, <2>4 DEF NoUser, Counts
  <2>6. \A d \in Clients : Stage(d) => Stage(d)'
    <3> SUFFICES ASSUME NEW d \in Clients, Stage(d) PROVE Stage(d)'
      OBVIOUS
    <3>1. CASE d = t
      BY <1>1, <2>1, <2>5, <3>1 DEF Stage
    <3>2. CASE d # t
      <4>1. pc'[d] = pc[d]
        BY <1>1, <2>1, <3>2
      <4> QED BY <2>1, <2>5, <4>1 DEF Stage
    <3> QED BY <3>1, <3>2
  <2> QED BY <2>1, <2>3, <2>4, <2>5, <2>6 DEF UserInv
<1>SaveFails. ASSUME NEW t \in Threads, SaveFails(t) \/ SaveCut(t) PROVE UserInv'
  BY <1>SaveFails DEF SaveFails, SaveCut, Hurt, Unhurt
<1>SaveWrites. ASSUME NEW t \in Threads, SaveWrites(t) PROVE UserInv'
  <2>1. Unhurt /\ dict # "freed" /\ UNCHANGED <<dict, mem>> /\ pc[t] \in {"write", "uwrite"}
    BY <1>SaveWrites DEF SaveWrites, Hurt, Unhurt
  <2>2. dict = "live" /\ file' = Dump(mem)
    <3>1. dict # "null"
      BY <1>1, <1>2, <1>5, <2>1
    <3> QED BY <1>1, <1>5, <1>SaveWrites, <2>1, <3>1 DEF SaveWrites, Dumped
  <2>3. Counts(mem)' = Counts(mem) /\ Counts(file)' = Counts(mem)
    BY <1>1, <1>5, <2>1, <2>2, DumpFacts DEF Counts
  <2>4. AfterSave(t)
    BY <1>SaveWrites DEF SaveWrites
  <2>5. \A d \in Threads \ {t} : pc'[d] = pc[d]
    BY <1>1, <2>4 DEF AfterSave, Returns
  <2>6. \A d \in Clients \ {t} : op'[d] = op[d] /\ got'[d] = got[d]
    BY <1>1, <2>4 DEF AfterSave, Returns
  <2>7. Writers' = {}
    <3>1. pc'[t] \notin {"write", "uwrite"}
      BY <1>1, <2>4 DEF AfterSave, Returns
    <3>2. Writers = {t}
      BY <2>1 DEF UserInv, Writers
    <3> QED BY <2>5, <3>1, <3>2 DEF Writers
  <2>8. \A d \in Clients \ {t} : /\ InUserCall(d)' <=> InUserCall(d)
                               /\ Stage(d) => Stage(d)'
    BY <2>1, <2>3, <2>5, <2>6 DEF InUserCall, Stage
  <2>9. CASE t \notin Clients \/ ~InUserCall(t)
    <3>1. t \in Clients => ~InUserCall(t)'
      BY <1>1, <2>4, <2>9 DEF AfterSave, Returns, InUserCall
    <3>2. ASSUME NEW d \in Clients, InUserCall(d) \/ InUserCall(d)'
          PROVE  d # t /\ InUserCall(d) /\ InUserCall(d)' /\ (Stage(d) => Stage(d)')
      <4>1. d # t
        BY <2>9, <3>1, <3>2
      <4>2. InUserCall(d) /\ InUserCall(d)'
        BY <2>6, <3>2, <4>1 DEF InUserCall
      <4> QED BY <2>8, <4>1, <4>2
    <3>3. NoUser' => NoUser
      BY <3>2 DEF NoUser
    <3> QED BY <2>1, <2>2, <2>3, <2>7, <3>2, <3>3 DEF UserInv
  <2>10. CASE t \in Clients /\ InUserCall(t)
    <3>1. Counts(mem)
      BY <2>1, <2>2, <2>10 DEF UserInv, Stage
    <3>2. Stage(t)'
      <4>1. pc'[t] \in {"uopen", "idle"}
        BY <1>1, <2>1, <2>4, <2>10 DEF AfterSave, Returns
      <4> QED BY <2>3, <3>1, <4>1 DEF Stage
    <3>3. \A d \in Clients : InUserCall(d)' => d = t
      <4> SUFFICES ASSUME NEW d \in Clients, InUserCall(d)', d # t PROVE FALSE
        OBVIOUS
      <4>1. InUserCall(d)
        BY <2>6 DEF InUserCall
      <4> QED BY <2>1, <2>10, <4>1 DEF UserInv
    <3> QED BY <2>3, <2>7, <3>1, <3>2, <3>3 DEF UserInv
  <2> QED BY <2>9, <2>10
<1>Gone. Killed \/ PowerFails => UserInv'
  <2> SUFFICES ASSUME Killed \/ PowerFails PROVE UserInv'
    OBVIOUS
  <2>1. Unhurt /\ NoUser /\ Writers = {} /\ file' = file /\ dict' = "null"
    <3>1. \E cut : Cut(cut)
      BY DEF Killed, PowerFails
    <3>2. Unhurt /\ NoUser
      BY <3>1 DEF Cut, If, Unhurt, NoUser
    <3>3. CASE Killed
      <4>1. Writers = {}
        BY <3>3 DEF Killed, Cut, If, Unhurt
      <4> QED BY <3>2, <3>3, <4>1 DEF Killed, ProcessGone
    <3>4. CASE PowerFails
      <4>1. Writers = {} /\ synced
        BY <3>4 DEF PowerFails, Cut, If, Unhurt
      <4> QED BY <3>2, <3>4, <4>1 DEF PowerFails, ProcessGone
    <3> QED BY <3>3, <3>4
  <2>2. Writers' = {} /\ NoUser'
    BY DEF Killed, PowerFails, ProcessGone, Writers, NoUser, InUserCall
  <2>3. Counts(file)'
    BY <2>1 DEF UserInv, Counts
  <2> QED BY <2>1, <2>2, <2>3 DEF UserInv, NoUser
<1>Stutter. UNCHANGED vars => UserInv'
  BY <1>6 DEF vars, Unhurt, InUserCall, Writers
<1> QED
  BY <1>Main, <1>WriteBack, <1>ParamInit, <1>FreeDict, <1>Call, <1>GetString, <1>Reboot,
     <1>CountKeys, <1>Reads, <1>ChangeUser, <1>SetValue, <1>Reload, <1>Load, <1>SaveOpens, <1>SaveFails,
     <1>SaveWrites, <1>Gone, <1>Stutter
  DEF Next, MainStep, ClientStep, Save

LEMMA InitUser == Init => CallAt /\ UserInv
<1> SUFFICES ASSUME Init PROVE CallAt /\ UserInv
  OBVIOUS
<1>1. CallAt /\ NoUser
  BY ParamAssumption DEF Init, CallAt, NoUser, InUserCall
<1>2. Writers = {}
  BY DEF Init, Writers
<1>3. Counts(file) /\ dict = "null"
  BY ParamAssumption DEF Init, Counts
<1> QED BY <1>1, <1>2, <1>3 DEF UserInv, NoUser

\* The number of accounts is their number when no user call is in progress,
\* across kills, power failures and starts, unless user calls met, repeated
\* themselves or were cut, a client set another number or set one during a
\* user call, or the configuration was lost.
THEOREM UsersCounted == Spec => []UserCount
<1>1. Init => Typed /\ LockInv /\ ConfInv /\ CallAt /\ UserInv
  BY InitTyped, InitLock, InitConf, InitUser
<1>2. Typed /\ LockInv /\ ConfInv /\ CallAt /\ UserInv /\ [Next]_vars
        => Typed' /\ LockInv' /\ ConfInv' /\ CallAt' /\ UserInv'
  BY NextTyped, NextLock, NextConf, NextCallAt, NextUser
<1>3. UserInv => UserCount
  BY DEF UserInv, UserCount, Unhurt, NoUser, Counts
<1> QED BY <1>1, <1>2, <1>3, PTL DEF Spec
=============================================================================
