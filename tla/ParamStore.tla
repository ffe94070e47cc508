---------------------------- MODULE ParamStore -----------------------------
(***************************************************************************)
(* The parameter store, common/param/param.c: one dictionary behind one    *)
(* mutex, written to the configuration file on every change; with its      *)
(* callers that matter to it: the user calls of common/system/system.c,    *)
(* which go to the dictionary and save it without the mutex, the           *)
(* capability getters, which count the keys of a section without it, the   *)
(* import of a configuration, and main, which loads the file at start-up   *)
(* and saves and frees the dictionary on the way out while clients run.    *)
(*                                                                         *)
(* The process may be killed (killall, reboot) and the power may fail at   *)
(* any step.  What fopen(.., "w") and the dump wrote is in the page cache  *)
(* until the kernel writes it back: the code never syncs.                  *)
(***************************************************************************)
EXTENDS Integers, FiniteSets

CONSTANTS
  Clients,   \* detached threads of the socket server
  Main,      \* the thread of main()
  Keys,      \* entries of the dictionary, the user accounts apart
  SetKeys,   \* those some call sets at run time
  Vals,      \* their values
  Users,     \* identifiers of user accounts
  Nums,      \* numbers a client gives set_user_num
  Factory,   \* the configuration the product ships
  Free,      \* nobody: the mutex is free
  NoKey,     \* no string of the dictionary in hand
  Missing,   \* the value of an entry the dictionary does not have
  Torn,      \* a file iniparser_load finds a syntax error in
  NoOp,      \* no call
  MaxCalls, MaxBoots, MaxFails \* bounds: calls, starts, failing writes

Threads == Clients \cup {Main}

\* What a dictionary, or a file that can be parsed, holds.  A section is a
\* key of the dictionary as its entries are, and each is there or not.
Content == [par : [Keys -> Vals \cup {Missing}],
            sections : BOOLEAN,     \* those of par and of user_num
            users : SUBSET Users,   \* accounts whose section is there
            keys : SUBSET Users,    \* accounts whose name and password are
            num : Int]              \* user_num

\* The dictionary of an empty file: get_user_num takes 1 for a missing entry.
Empty == [par |-> [k \in Keys |-> Missing], sections |-> FALSE,
          users |-> {}, keys |-> {}, num |-> 1]

\* What iniparser_dump_ini writes, as a load finds it again: it goes from
\* section to section, and an entry whose section is not there stays behind.
Dump(m) ==
  IF m.sections
    THEN [m EXCEPT !.keys = @ \cap m.users]
    ELSE [Empty EXCEPT !.users = m.users, !.keys = m.keys \cap m.users]

ASSUME ParamAssumption ==
  /\ Main \notin Clients
  /\ Free \notin Threads
  /\ SetKeys \subseteq Keys
  /\ NoKey \notin Keys
  /\ Missing \notin Vals
  /\ Torn \notin Content
  /\ Factory \in Content
  /\ Factory.sections /\ Factory.keys \subseteq Factory.users
  /\ \A k \in Keys : Factory.par[k] \in Vals
  /\ IsFiniteSet(Users) /\ Nums \subseteq Int
  /\ Factory.num = Cardinality(Factory.users)
  /\ MaxCalls \in Nat /\ MaxBoots \in Nat /\ MaxFails \in Nat

\* get and set of an entry; a capability getter; add_user and del_user; the
\* set of an account's level, name or password; set_user_num; import_db;
\* reboot.
Calls == [kind : {"get"}, key : Keys] \cup
         [kind : {"set"}, key : SetKeys, val : Vals] \cup
         [kind : {"cap"}, key : Keys \ SetKeys] \cup
         [kind : {"add", "del", "account"}, user : Users] \cup
         [kind : {"number"}, num : Nums] \cup
         [kind : {"import", "reboot"}]

ASSUME NoOpAssumption == NoOp \notin Calls

VARIABLES
  mutex,   \* g_param_mutex: its holder, or Free
  dict,    \* g_ini_d_: "null", "live", or "freed" and still pointed to
  mem,     \* the entries of the dictionary, Empty without one
  file,    \* the configuration file, as the page cache has it
  synced,  \* the kernel has written it back
  pc,      \* each thread
  op,      \* the call each client serves
  got,     \* the user_num a user call read
  held,    \* the key of the string get_string gave out last, per client
  stale,   \* the clients whose string has been freed
  overlap, \* the saves in progress that ran into another or into a change
  harm,    \* history: what went wrong so far, see Harms
  rebooting,            \* system("reboot") was called
  calls, boots, fails   \* counters of the bounds

fileVars  == <<file, synced, overlap>>
dictVars  == <<dict, mem, stale>>
callVars  == <<op, got, held>>
boundVars == <<calls, boots, fails>>
vars == <<mutex, pc, fileVars, dictVars, callVars, harm, rebooting, boundVars>>

MainPc   == {"down", "init", "first", "up", "exit", "closing", "open", "write",
             "free", "end"}
ClientPc == {"idle", "get", "count", "lock", "setting", "open", "write", "adding",
             "readnum", "uopen", "uwrite", "reload", "loading", "reboot"}

\* The ways the store is harmed: a save that could not open or fill the file
\* ("failed"); a user call that saves or changes the dictionary while another
\* thread saves or loads, or the other way round ("overlap"); a process or
\* power cut during a save or before its write-back ("cut"); a call on a
\* dictionary that main or a reload has freed ("late"); user calls that
\* interleave or repeat themselves ("users"); a number of users that is not
\* theirs, or set in the middle of a user call ("number"); a reload ("reload").
Harms == {"failed", "overlap", "cut", "late", "users", "number", "reload"}

TypeOK ==
  /\ mutex \in Threads \cup {Free}
  /\ dict \in {"null", "live", "freed"}
  /\ mem \in Content
  /\ file \in Content \cup {Torn}
  /\ synced \in BOOLEAN
  /\ pc \in [Threads -> MainPc \cup ClientPc]
  /\ pc[Main] \in MainPc
  /\ \A c \in Clients : pc[c] \in ClientPc
  /\ op \in [Clients -> Calls \cup {NoOp}]
  /\ got \in [Clients -> Int]
  /\ held \in [Clients -> Keys \cup {NoKey}]
  /\ stale \subseteq Clients
  /\ overlap \subseteq Threads
  /\ harm \subseteq Harms
  /\ rebooting \in BOOLEAN
  /\ calls \in Nat /\ boots \in Nat /\ fails \in Nat

Init ==
  /\ mutex = Free
  /\ dict = "null"
  /\ mem = Empty
  /\ file = Factory
  /\ synced = TRUE
  /\ pc = [t \in Threads |-> IF t = Main THEN "init" ELSE "idle"]
  /\ op = [c \in Clients |-> NoOp]
  /\ got = [c \in Clients |-> 0]
  /\ held = [c \in Clients |-> NoKey]
  /\ stale = {}
  /\ overlap = {}
  /\ harm = {}
  /\ rebooting = FALSE
  /\ calls = 0 /\ boots = 0 /\ fails = 0

Goto(t, l) == pc' = [pc EXCEPT ![t] = l]

Holders == {c \in Clients : held[c] # NoKey}

\* The threads between fopen(.., "w") and fclose.
Writers == {t \in Threads : pc[t] \in {"write", "uwrite"}}

\* Some of these save without the mutex.
Unlocked(S) == \E t \in S : pc[t] \in {"uopen", "uwrite"}

InUserCall(c) == op[c] # NoOp /\ op[c].kind \in {"add", "del"}

Hurt(what, when) == harm' = IF when THEN harm \cup {what} ELSE harm
If(when, what) == IF when THEN {what} ELSE {}

-----------------------------------------------------------------------------
(* main: start-up and exit.                                                *)

\* rk_param_init.  When the file cannot be parsed it returns with the mutex.
ParamInit ==
  /\ pc[Main] = "init"
  /\ mutex = Free
  /\ IF file = Torn
       THEN mutex' = Main /\ dict' = "null" /\ UNCHANGED mem
       ELSE mutex' = Free /\ dict' = "live" /\ mem' = file
  /\ Goto(Main, "first")
  /\ UNCHANGED <<fileVars, stale, callVars, harm, rebooting, boundVars>>

\* main ignores the result of rk_param_init; its first get_int.  With all
\* modules up the socket server serves clients.
FirstGet ==
  /\ pc[Main] = "first"
  /\ mutex = Free
  /\ Goto(Main, "up")
  /\ UNCHANGED <<mutex, fileVars, dictVars, callVars, harm, rebooting, boundVars>>

\* SIGINT: main leaves its loop.
Interrupt ==
  /\ pc[Main] = "up"
  /\ Goto(Main, "exit")
  /\ UNCHANGED <<mutex, fileVars, dictVars, callVars, harm, rebooting, boundVars>>

\* rk_param_deinit tests g_ini_d_ without the mutex,
ParamDeinit ==
  /\ pc[Main] = "exit"
  /\ Goto(Main, IF dict = "null" THEN "end" ELSE "closing")
  /\ UNCHANGED <<mutex, fileVars, dictVars, callVars, harm, rebooting, boundVars>>

\* and then waits for it: by the time it saves there may be no dictionary.
DeinitLock ==
  /\ pc[Main] = "closing"
  /\ mutex = Free
  /\ mutex' = Main
  /\ Goto(Main, "open")
  /\ UNCHANGED <<fileVars, dictVars, callVars, harm, rebooting, boundVars>>

\* The rest of it: the dictionary is freed, the pointer to it stays.
FreeDict ==
  /\ pc[Main] = "free"
  /\ IF dict = "null"
       THEN UNCHANGED <<dict, stale>>
       ELSE dict' = "freed" /\ stale' = stale \cup Holders
  /\ mutex' = Free
  /\ Goto(Main, "end")
  /\ UNCHANGED <<fileVars, mem, callVars, harm, rebooting, boundVars>>

-----------------------------------------------------------------------------
(* A client's calls.  The server is never made to stop serving them.       *)

Serving == pc[Main] \in MainPc \ {"down", "init", "first"}

\* The first step of each kind of call.
Entry == [get |-> "get", cap |-> "count", set |-> "lock", account |-> "lock",
          number |-> "lock", add |-> "adding", del |-> "adding",
          import |-> "reload", reboot |-> "reboot"]

\* A user call that meets another one, or that adds an account that is there
\* or deletes one that is not.
UserClash(c, call) ==
  /\ call.kind \in {"add", "del"}
  /\ \/ \E d \in Clients \ {c} : InUserCall(d)
     \/ (call.kind = "add") = (call.user \in mem.users)

\* rec_thread reads the name of the next function and calls it.
Call(c) ==
  /\ Serving
  /\ pc[c] = "idle"
  /\ calls < MaxCalls
  /\ calls' = calls + 1
  /\ \E call \in Calls :
       /\ op' = [op EXCEPT ![c] = call]
       /\ Goto(c, Entry[call.kind])
       /\ Hurt("users", UserClash(c, call))
  /\ UNCHANGED <<mutex, fileVars, dictVars, got, held, rebooting, boots, fails>>

\* The client has its answer.
Returns(c) ==
  /\ op' = [op EXCEPT ![c] = NoOp]
  /\ got' = [got EXCEPT ![c] = 0]
  /\ Goto(c, "idle")

\* The dictionary is being changed by some other thread, or is gone.
Disturbed(c) ==
  \/ dict = "freed"
  \/ \E t \in Threads \ {c} : pc[t] \in {"setting", "adding", "free", "loading"}

\* A capability getter counts the keys of its section without the mutex; next
\* to a change it may find any number.  With none it is done, with some it
\* gets each with get_string.
CountKeys(c) ==
  /\ pc[c] = "count"
  /\ LET there == dict = "live" /\ mem.sections /\ mem.par[op[c].key] # Missing
     IN  \/ (there \/ Disturbed(c)) /\ Goto(c, "get") /\ UNCHANGED <<op, got>>
         \/ (~there \/ Disturbed(c)) /\ Returns(c)
  /\ Hurt("late", dict = "freed")
  /\ UNCHANGED <<mutex, fileVars, dictVars, held, rebooting, boundVars>>

\* rk_param_get_string: the pointer is used after the unlock.  (A capability
\* getter whose keys are gone by now dies of it: Killed.)
GetString(c) ==
  /\ pc[c] = "get"
  /\ mutex = Free
  /\ held' = [held EXCEPT ![c] = IF dict = "null" \/ mem.par[op[c].key] = Missing
                                   THEN NoKey ELSE op[c].key]
  /\ stale' = IF dict = "freed" THEN stale \cup {c} ELSE stale \ {c}
  /\ Hurt("late", dict = "freed")
  /\ Returns(c)
  /\ UNCHANGED <<mutex, fileVars, dict, mem, rebooting, boundVars>>

\* rk_param_set_int and rk_param_set_string take the mutex; account and
\* number are calls of theirs.
LockForSet(c) ==
  /\ pc[c] = "lock"
  /\ mutex = Free
  /\ mutex' = c
  /\ Goto(c, "setting")
  /\ UNCHANGED <<fileVars, dictVars, callVars, harm, rebooting, boundVars>>

\* Slip: the number that was read is written back as it is.
WithSetUncounted(c) ==
  CASE op[c].kind = "set"     -> [mem EXCEPT !.par[op[c].key] = op[c].val]
    [] op[c].kind = "account" -> [mem EXCEPT !.keys = @ \cup {op[c].user}]
    [] op[c].kind = "number"  -> [mem EXCEPT !.num = op[c].num]
    [] InUserCall(c)          -> [mem EXCEPT !.num = got[c]]

\* The dictionary with what the call sets: an entry, one of an account, which
\* need not have its section, or user_num.
WithSet(c) ==
  CASE op[c].kind = "set"     -> [mem EXCEPT !.par[op[c].key] = op[c].val]
    [] op[c].kind = "account" -> [mem EXCEPT !.keys = @ \cup {op[c].user}]
    [] op[c].kind = "number"  -> [mem EXCEPT !.num = op[c].num]
    [] op[c].kind = "add"     -> [mem EXCEPT !.num = got[c] + 1]
    [] op[c].kind = "del"     -> [mem EXCEPT !.num = got[c] - 1]

\* Slip: a set builds the dictionary anew.
FreedByRebuild(c) == Holders

\* The strings that iniparser_set frees: the old value of the entry.
FreedBySet(c) == {d \in Holders : op[c].kind = "set" /\ held[d] = op[c].key}

\* A number that is not that of the accounts, or that comes in the middle of a
\* user call.
Miscounts(c) ==
  /\ op[c].kind = "number"
  /\ \/ op[c].num # Cardinality(mem.users)
     \/ \E d \in Clients : InUserCall(d)

\* Slip: the set leaves the save to the next one.
SetUnsaved(c) ==
  /\ pc[c] = "setting"
  /\ mem' = IF dict = "live" THEN WithSet(c) ELSE mem
  /\ mutex' = Free
  /\ Returns(c)
  /\ UNCHANGED <<fileVars, dict, stale, held, harm, rebooting, boundVars>>

\* A change of the dictionary spoils the dumps that are under way, those of
\* user calls.
Spoils == dict = "live" /\ Writers # {}
SpoilDumps == overlap' = IF dict = "live" THEN overlap \cup Writers ELSE overlap

\* iniparser_set, which does nothing without a dictionary.
SetValue(c) ==
  /\ pc[c] = "setting"
  /\ IF dict = "live"
       THEN mem' = WithSet(c) /\ stale' = stale \cup FreedBySet(c)
       ELSE UNCHANGED <<mem, stale>>
  /\ SpoilDumps
  /\ harm' = harm \cup If(dict = "freed", "late") \cup If(Spoils, "overlap")
                  \cup If(Miscounts(c), "number")
  /\ Goto(c, "open")
  /\ UNCHANGED <<mutex, file, synced, dict, callVars, rebooting, boundVars>>

\* rk_system_add_user sets the section of the account and its entries, without
\* the mutex; del_user unsets the section only.
WithAccount(c) ==
  IF op[c].kind = "add"
    THEN [mem EXCEPT !.users = @ \cup {op[c].user}, !.keys = @ \cup {op[c].user}]
    ELSE [mem EXCEPT !.users = @ \ {op[c].user}]

ChangeUser(c) ==
  /\ pc[c] = "adding"
  /\ mem' = IF dict = "live" THEN WithAccount(c) ELSE mem
  /\ SpoilDumps
  /\ harm' = harm \cup If(dict = "freed", "late") \cup If(Spoils, "overlap")
  /\ Goto(c, "readnum")
  /\ UNCHANGED <<mutex, file, synced, dict, stale, callVars, rebooting, boundVars>>

\* Then they read user_num, and set it in a call of its own.
ReadNum(c) ==
  /\ pc[c] = "readnum"
  /\ mutex = Free
  /\ got' = [got EXCEPT ![c] = IF dict = "null" THEN 1 ELSE mem.num]
  /\ Hurt("late", dict = "freed")
  /\ Goto(c, "lock")
  /\ UNCHANGED <<mutex, fileVars, dictVars, op, held, rebooting, boundVars>>

-----------------------------------------------------------------------------
(* rk_param_save, of any thread; "u": called without the mutex.            *)

\* Slip: no unlock before the second save of a user call.
AfterSaveLocked(t) ==
  IF t = Main THEN Goto(t, "free") /\ UNCHANGED <<mutex, op, got>>
  ELSE IF pc[t] \in {"open", "write"} /\ InUserCall(t)
         THEN Goto(t, "uopen") /\ UNCHANGED <<mutex, op, got>>
         ELSE Returns(t) /\ mutex' = Free

\* What follows the save: main frees the dictionary before it unlocks; a user
\* call saves once more, without the mutex.
AfterSave(t) ==
  IF t = Main THEN Goto(t, "free") /\ UNCHANGED <<mutex, op, got>>
  ELSE IF pc[t] \in {"uopen", "uwrite"} THEN Returns(t) /\ UNCHANGED mutex
  ELSE /\ mutex' = Free
       /\ IF InUserCall(t) THEN Goto(t, "uopen") /\ UNCHANGED <<op, got>>
                           ELSE Returns(t)

\* fopen(.., "w") leaves the file empty.
SaveOpens(t) ==
  /\ pc[t] \in {"open", "uopen"}
  /\ file' = Empty
  /\ synced' = FALSE
  /\ overlap' = IF Writers = {} THEN overlap ELSE overlap \cup Writers \cup {t}
  /\ Hurt("overlap", Writers # {} /\ Unlocked(Writers \cup {t}))
  /\ Goto(t, IF pc[t] = "open" THEN "write" ELSE "uwrite")
  /\ UNCHANGED <<mutex, dictVars, callVars, rebooting, boundVars>>

\* fopen fails: the dictionary is given up.
SaveFails(t) ==
  /\ pc[t] \in {"open", "uopen"}
  /\ fails < MaxFails
  /\ fails' = fails + 1
  /\ dict' = "null"
  /\ mem' = Empty
  /\ stale' = stale \cup Holders
  /\ Hurt("failed", TRUE)
  /\ AfterSave(t)
  /\ UNCHANGED <<fileVars, held, rebooting, calls, boots>>

\* What the dump leaves in the file: nothing more without a dictionary, any
\* beginning of anything from a freed one, a mixture if another save or a
\* change ran meanwhile.
Dumped(t) ==
  CASE dict = "null"                     -> {file}
    [] dict = "live" /\ t \notin overlap -> {Dump(mem)}
    [] dict = "live" /\ t \in overlap    -> {Dump(mem), Torn}
    [] dict = "freed"                    -> {Dump(mem), Empty, Torn}

\* The dump, fflush and fclose.
SaveWrites(t) ==
  /\ pc[t] \in {"write", "uwrite"}
  /\ file' \in Dumped(t)
  /\ synced' = FALSE
  /\ overlap' = overlap \ {t}
  /\ Hurt("late", dict = "freed")
  /\ AfterSave(t)
  /\ UNCHANGED <<dictVars, held, rebooting, boundVars>>

\* The file system is full; the results of fprintf, fflush and fclose are not
\* looked at.
SaveCut(t) ==
  /\ pc[t] \in {"write", "uwrite"}
  /\ fails < MaxFails
  /\ fails' = fails + 1
  /\ file' \in {Empty, Torn}
  /\ synced' = FALSE
  /\ overlap' = overlap \ {t}
  /\ Hurt("failed", TRUE)
  /\ AfterSave(t)
  /\ UNCHANGED <<dictVars, held, rebooting, calls, boots>>

-----------------------------------------------------------------------------
(* Import, reboot, kill, power.                                            *)

\* Slip: the reload does not take the mutex.
ReloadUnlocked(c) ==
  /\ pc[c] = "reload"
  /\ IF dict = "null" THEN UNCHANGED <<dict, stale>>
                      ELSE dict' = "freed" /\ stale' = stale \cup Holders
  /\ SpoilDumps
  /\ harm' = harm \cup {"reload"} \cup If(dict = "freed", "late")
                  \cup If(Spoils, "overlap")
                  \cup If(\E d \in Clients : InUserCall(d), "users")
  /\ Goto(c, "loading")
  /\ UNCHANGED <<mutex, file, synced, mem, callVars, rebooting, boundVars>>

\* rk_param_reload, called by rk_system_import_db, which has copied the
\* imported file to the image's defaults, not to this file: it frees the
\* dictionary,
Reload(c) ==
  /\ pc[c] = "reload"
  /\ mutex = Free
  /\ mutex' = c
  /\ IF dict = "null" THEN UNCHANGED <<dict, stale>>
                      ELSE dict' = "freed" /\ stale' = stale \cup Holders
  /\ SpoilDumps
  /\ harm' = harm \cup {"reload"} \cup If(dict = "freed", "late")
                  \cup If(Spoils, "overlap")
                  \cup If(\E d \in Clients : InUserCall(d), "users")
  /\ Goto(c, "loading")
  /\ UNCHANGED <<file, synced, mem, callVars, rebooting, boundVars>>

\* and loads the file, maybe in the middle of a user call's save.  When it
\* cannot parse, it keeps the mutex.
Load(c) ==
  /\ pc[c] = "loading"
  /\ IF file = Torn
       THEN mutex' = mutex /\ dict' = "null" /\ mem' = Empty
       ELSE mutex' = Free /\ dict' = "live" /\ mem' = file
  /\ harm' = harm \cup If(Unlocked(Writers), "overlap")
                  \cup If(\E d \in Clients : InUserCall(d), "users")
  /\ Goto(c, "reboot")
  /\ UNCHANGED <<fileVars, stale, callVars, rebooting, boundVars>>

\* rk_system_reboot, at the end of an import and of a factory reset.
Reboot(c) ==
  /\ pc[c] = "reboot"
  /\ rebooting' = TRUE
  /\ Returns(c)
  /\ UNCHANGED <<mutex, fileVars, dictVars, held, harm, boundVars>>

\* The process is gone, with its threads and its memory.
ProcessGone ==
  /\ mutex' = Free
  /\ dict' = "null"
  /\ mem' = Empty
  /\ pc' = [t \in Threads |-> IF t = Main THEN "down" ELSE "idle"]
  /\ op' = [c \in Clients |-> NoOp]
  /\ got' = [c \in Clients |-> 0]
  /\ held' = [c \in Clients |-> NoKey]
  /\ stale' = {}
  /\ overlap' = {}
  /\ rebooting' = FALSE

\* What a process that goes away does to the history.
Cut(unsaved) ==
  harm' = harm \cup If(unsaved, "cut")
               \cup If(\E c \in Clients : InUserCall(c), "users")

\* main returns, killall, or the kill at reboot: the process stops wherever
\* it is; a save in progress stays as far as it came.
Killed ==
  /\ pc[Main] # "down"
  /\ ProcessGone
  /\ file' \in IF Writers = {} THEN {file} ELSE {file, Torn}
  /\ Cut(Writers # {})
  /\ UNCHANGED <<synced, boundVars>>

\* The power fails: what was not written back may be there in full, in part
\* or not at all.  (The previous contents, complete too, are not told apart.)
PowerFails ==
  /\ pc[Main] # "down"
  /\ ProcessGone
  /\ file' \in IF Writers = {} /\ synced THEN {file} ELSE {file, Empty, Torn}
  /\ synced' = TRUE
  /\ Cut(Writers # {} \/ ~synced)
  /\ UNCHANGED boundVars

\* The kernel writes the page cache back.
WriteBack ==
  /\ ~synced
  /\ synced' = TRUE
  /\ UNCHANGED <<mutex, pc, file, overlap, dictVars, callVars, harm, rebooting,
                 boundVars>>

\* The launch script starts the process; it copies the shipped configuration
\* only if there is no file, an empty or torn one is kept.
Start ==
  /\ pc[Main] = "down"
  /\ boots < MaxBoots
  /\ boots' = boots + 1
  /\ Goto(Main, "init")
  /\ UNCHANGED <<mutex, fileVars, dictVars, callVars, harm, rebooting, calls, fails>>

-----------------------------------------------------------------------------
Save(t) == SaveOpens(t) \/ SaveFails(t) \/ SaveWrites(t) \/ SaveCut(t)

MainStep ==
  ParamInit \/ FirstGet \/ ParamDeinit \/ DeinitLock \/ FreeDict \/ Save(Main)

ClientStep(c) ==
  \/ CountKeys(c) \/ GetString(c) \/ LockForSet(c) \/ SetValue(c)
  \/ ChangeUser(c) \/ ReadNum(c) \/ Reload(c) \/ Load(c) \/ Reboot(c) \/ Save(c)

Next ==
  \/ MainStep
  \/ Interrupt
  \/ \E c \in Clients : Call(c) \/ ClientStep(c)
  \/ Killed \/ PowerFails \/ WriteBack \/ Start

Spec == Init /\ [][Next]_vars
=============================================================================
