----------------------------- MODULE ParamProps ----------------------------
(***************************************************************************)
(* What the parameter store keeps to, and the only ways it is lost.        *)
(***************************************************************************)
EXTENDS ParamStore

\* The steps in which a thread reads or changes the dictionary, and those of
\* them the mutex covers.
Locked   == {"setting", "open", "write", "free", "loading"}
Changing == {"setting", "adding", "free", "loading"}
InDict   == {"setting", "write", "adding", "uwrite", "free", "loading", "count"}

\* One thread at most works under the mutex, and it holds it: two threads are
\* in the dictionary at once, one of them changing it, only when one of them
\* is a user call or a capability getter, the callers that go past the mutex.
\* A thread that has left the critical section has left the mutex too, unless
\* the file it loaded could not be parsed.
LockDiscipline ==
  /\ \A t \in Threads : pc[t] \in Locked => mutex = t
  /\ \A s, t \in Threads :
       s # t /\ pc[s] \in InDict /\ pc[t] \in Changing
         => {pc[s], pc[t]} \cap {"adding", "uwrite", "count"} # {}
  /\ \A t \in Threads :
       mutex = t => pc[t] \in Locked \/ (dict = "null" /\ pc[Main] # "down")

\* A string handed out for an entry that no call sets, such as the folder of
\* the photos or the recorder's file format, which threads keep for their
\* whole lives, lives as long as the dictionary: only a failed save, a reload
\* or main's exit frees it.
StringsStayLive ==
  \A c \in stale :
    held[c] \in Keys \ SetKeys =>
      harm \cap {"failed", "reload", "late"} # {} \/ dict = "freed"

\* The file can be parsed, and the dictionary has every entry and its section,
\* unless a save failed, overlapped another or a change, or was cut, or a call
\* met a dictionary that main or a reload had freed.
Complete(content) ==
  content.sections /\ \A k \in Keys : content.par[k] # Missing
KeepsConfiguration ==
  file = Torn \/ (dict = "live" /\ ~Complete(mem))
    => harm \cap {"failed", "overlap", "cut", "late"} # {}

\* When no call is in progress the file says what the dictionary says, so
\* whatever ends the process after a call has returned, and is written back,
\* the next start finds it.  It does not say what has no section: the entries
\* of an account that was deleted, or that never was added, stay in the
\* dictionary until it is loaded anew, and are gone then.
FileFollows ==
  /\ dict = "live"
  /\ \A c \in Clients : pc[c] \in {"idle", "get", "count", "lock", "reload", "reboot"}
                        /\ ~InUserCall(c)
  /\ pc[Main] \in {"first", "up", "exit", "closing", "open"}
  /\ harm \cap {"failed", "overlap", "cut", "late"} = {}
  => file = Dump(mem)

\* user_num counts the accounts when no user call is in progress, unless user
\* calls met, repeated themselves or were cut, a client set another number or
\* set one during a user call, or the configuration was lost.
UserCount ==
  /\ dict = "live"
  /\ \A c \in Clients : ~InUserCall(c)
  /\ harm \subseteq {"reload"}
  => mem.num = Cardinality(mem.users)
=============================================================================
