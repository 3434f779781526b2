---------------------------- MODULE OnDemandMutex -----------------------------
(***************************************************************************)
(* depth_ondemand._qlock and the three read-modify-writes it guards:       *)
(* request (add), take_next (take) and pending (peek).  The lock is a file *)
(* made with O_EXCL; a waiter deletes it when it looks stale, and every    *)
(* holder deletes it when done, neither looking at the pid inside.  The    *)
(* queue file is rewritten in place: truncated, then written.              *)
(*                                                                         *)
(* Time passes in ticks.  The three switches say what the environment may  *)
(* do: hold the lock past the timeout (a suspended machine), keep a waiter *)
(* from its turn past the timeout while others come and go, and crash      *)
(* between the truncation and the write.                                   *)
(*                                                                         *)
(* (The names differ from DepthControl's because the module of proofs      *)
(* DepthControl_proofs extends both.)                                      *)
(***************************************************************************)
EXTENDS Naturals, Sequences

CONSTANTS
  Clients,       \* processes that use the queue
  Stocks,
  NoClient,      \* "no lock file"
  NoStock,       \* no name, or one the precheck refuses
  Timeout,       \* the 30 s of _qlock, in ticks
  SlowHolders,   \* may a live holder keep the lock longer than Timeout?
  Starvation,    \* may a waiter wait longer than Timeout for live holders?
  TornWrites,    \* may a crash hit a half-written queue file?
  MaxAdds,       \* bound: requests added
  MaxDeaths      \* bound: crashes

ASSUME MutexAssumption ==
  /\ NoClient \notin Clients /\ NoStock \notin Stocks
  /\ Timeout \in Nat
  /\ {SlowHolders, Starvation, TornWrites} \subseteq BOOLEAN
  /\ MaxAdds \in Nat /\ MaxDeaths \in Nat

VARIABLES
  at,      \* [Clients -> label]
  op,      \* [Clients -> "add", "take" or "peek"]
  arg,     \* [Clients -> the name to add]
  buf,     \* [Clients -> what the client read from the file]
  waited,  \* [Clients -> ticks since its deadline was set]
  qlock,   \* the client whose lock file exists
  age,     \* ticks since that file was made
  file,    \* depth_ondemand.jsonl
  added,   \* history: names whose enqueue was written
  given,   \* history: names handed out
  deaths

clients   == <<at, op, arg, buf, waited>>
mutexVars == <<clients, qlock, age, file, added, given, deaths>>

Inside == {"read", "truncate", "write", "release"}

MutexTypeOK ==
  /\ at \in [Clients -> {"idle", "try", "break", "dead"} \cup Inside]
  /\ op \in [Clients -> {"add", "take", "peek"}]
  /\ arg \in [Clients -> Stocks \cup {NoStock}]
  /\ \A c \in Clients : buf[c] \in Seq(Stocks)
  /\ waited \in [Clients -> 0 .. Timeout + 1]
  /\ qlock \in Clients \cup {NoClient}
  /\ age \in 0 .. Timeout + 1
  /\ file \in Seq(Stocks)
  /\ added \in Seq(Stocks) /\ given \in Seq(Stocks)
  /\ deaths \in 0 .. MaxDeaths

MutexInit ==
  /\ at = [c \in Clients |-> "idle"]
  /\ op = [c \in Clients |-> "peek"]
  /\ arg = [c \in Clients |-> NoStock]
  /\ buf = [c \in Clients |-> <<>>]
  /\ waited = [c \in Clients |-> 0]
  /\ qlock = NoClient /\ age = 0
  /\ file = <<>> /\ added = <<>> /\ given = <<>>
  /\ deaths = 0

In(t, q) == \E i \in 1 .. Len(q) : q[i] = t

Move(c, l) == at' = [at EXCEPT ![c] = l]

-------------------------------------------------------------------------------
(* Entering the section.                                                   *)

\* request enqueues only what passes the precheck: a name with a price on file.
Begin(c, o, t) ==
  /\ at[c] = "idle"
  /\ IF o = "add" THEN t \in Stocks /\ Len(added) < MaxAdds ELSE t = NoStock
  /\ op' = [op EXCEPT ![c] = o]
  /\ arg' = [arg EXCEPT ![c] = t]
  /\ waited' = [waited EXCEPT ![c] = 0]
  /\ Move(c, "try")
  /\ UNCHANGED <<buf, qlock, age, file, added, given, deaths>>

\* Mutant: the file is opened without O_EXCL.
AcquireShared(c) ==
  /\ at[c] = "try"
  /\ qlock' = c /\ age' = 0
  /\ Move(c, "read")
  /\ UNCHANGED <<op, arg, buf, waited, file, added, given, deaths>>

\* os.open(O_CREAT | O_EXCL) succeeds.
Acquire(c) ==
  /\ at[c] = "try" /\ qlock = NoClient
  /\ qlock' = c /\ age' = 0
  /\ Move(c, "read")
  /\ UNCHANGED <<op, arg, buf, waited, file, added, given, deaths>>

\* Mutant: any lock file that is in the way counts as stale.
FindStaleAlways(c) ==
  /\ at[c] = "try" /\ qlock # NoClient
  /\ Move(c, "break")
  /\ UNCHANGED <<op, arg, buf, waited, qlock, age, file, added, given, deaths>>

\* The lock file is older than the timeout, or the caller has waited longer.
FindStale(c) ==
  /\ at[c] = "try" /\ qlock # NoClient
  /\ age > Timeout \/ waited[c] > Timeout
  /\ Move(c, "break")
  /\ UNCHANGED <<op, arg, buf, waited, qlock, age, file, added, given, deaths>>

\* Mutant: the stale file is never removed.
LeaveStale(c) ==
  /\ at[c] = "break"
  /\ Move(c, "try")
  /\ UNCHANGED <<op, arg, buf, waited, qlock, age, file, added, given, deaths>>

\* unlink(missing_ok=True): whatever lock file is there by now.
RemoveStale(c) ==
  /\ at[c] = "break"
  /\ qlock' = NoClient /\ age' = 0
  /\ Move(c, "try")
  /\ UNCHANGED <<op, arg, buf, waited, file, added, given, deaths>>

-------------------------------------------------------------------------------
(* The section: read, and rewrite the file unless there is nothing to do.  *)
NothingToDo(c, q) ==
  \/ op[c] = "peek"
  \/ op[c] = "add" /\ In(arg[c], q)
  \/ op[c] = "take" /\ q = <<>>

Read(c) ==
  /\ at[c] = "read"
  /\ buf' = [buf EXCEPT ![c] = file]
  /\ Move(c, IF NothingToDo(c, file) THEN "release" ELSE "truncate")
  /\ UNCHANGED <<op, arg, waited, qlock, age, file, added, given, deaths>>

Truncate(c) ==
  /\ at[c] = "truncate"
  /\ file' = <<>>
  /\ Move(c, "write")
  /\ UNCHANGED <<op, arg, buf, waited, qlock, age, added, given, deaths>>

\* Mutant: take_next pops the newest request.
WriteNewestFirst(c) ==
  /\ at[c] = "write"
  /\ IF op[c] = "add"
     THEN /\ file' = Append(buf[c], arg[c])
          /\ added' = Append(added, arg[c])
          /\ UNCHANGED given
     ELSE /\ file' = SubSeq(buf[c], 1, Len(buf[c]) - 1)
          /\ given' = Append(given, buf[c][Len(buf[c])])
          /\ UNCHANGED added
  /\ Move(c, "release")
  /\ UNCHANGED <<op, arg, buf, waited, qlock, age, deaths>>

\* _write_queue of the appended list, or of the list without its first row.
Write(c) ==
  /\ at[c] = "write"
  /\ IF op[c] = "add"
     THEN /\ file' = Append(buf[c], arg[c])
          /\ added' = Append(added, arg[c])
          /\ UNCHANGED given
     ELSE /\ file' = Tail(buf[c])
          /\ given' = Append(given, Head(buf[c]))
          /\ UNCHANGED added
  /\ Move(c, "release")
  /\ UNCHANGED <<op, arg, buf, waited, qlock, age, deaths>>

\* The finally block: unlink, whoever made the file.
Release(c) ==
  /\ at[c] = "release"
  /\ qlock' = NoClient /\ age' = 0
  /\ Move(c, "idle")
  /\ buf' = [buf EXCEPT ![c] = <<>>]
  /\ UNCHANGED <<op, arg, waited, file, added, given, deaths>>

-------------------------------------------------------------------------------
(* The environment.                                                        *)
Die(c) ==
  /\ at[c] \notin {"idle", "dead"} /\ deaths < MaxDeaths
  /\ at[c] = "write" => TornWrites
  /\ deaths' = deaths + 1
  /\ Move(c, "dead")
  /\ UNCHANGED <<op, arg, buf, waited, qlock, age, file, added, given>>

OwnerLives == qlock \in Clients /\ at[qlock] # "dead"
Older(n)   == IF n > Timeout THEN n ELSE n + 1

Tick ==
  /\ SlowHolders \/ (OwnerLives => age < Timeout)
  /\ Starvation \/ (OwnerLives \/ qlock = NoClient =>
                      \A c \in Clients : at[c] = "try" => waited[c] < Timeout)
  /\ age' = IF qlock = NoClient THEN 0 ELSE Older(age)
  /\ waited' = [c \in Clients |->
                  IF at[c] = "try" THEN Older(waited[c]) ELSE waited[c]]
  /\ <<age', waited'>> # <<age, waited>>
  /\ UNCHANGED <<at, op, arg, buf, qlock, file, added, given, deaths>>

-------------------------------------------------------------------------------
Enter(c) == Acquire(c) \/ FindStale(c) \/ RemoveStale(c)
Section(c) == Read(c) \/ Truncate(c) \/ Write(c) \/ Release(c)

MutexNext ==
  \/ Tick
  \/ \E c \in Clients :
       \/ Enter(c) \/ Section(c) \/ Die(c)
       \/ \E o \in {"add", "take", "peek"}, t \in Stocks \cup {NoStock} :
            Begin(c, o, t)

MutexSpec == MutexInit /\ [][MutexNext]_mutexVars

\* File operations end and the clock runs.  A client polls every 0.1 s while a
\* section lasts milliseconds, so it meets the lock free if it is free again and
\* again.
MutexFairness ==
  /\ WF_mutexVars(Tick)
  /\ \A c \in Clients :
       /\ SF_mutexVars(Acquire(c))
       /\ WF_mutexVars(FindStale(c)) /\ WF_mutexVars(RemoveStale(c))
       /\ WF_mutexVars(Section(c))

FairMutexSpec == MutexSpec /\ MutexFairness

-------------------------------------------------------------------------------
(* Properties.                                                             *)

\* One process at a time reads and rewrites the queue file.
MutualExclusion ==
  \A c, d \in Clients : at[c] \in Inside /\ at[d] \in Inside => c = d

Writer   == {c \in Clients : at[c] = "write"}
Contents == IF Writer = {} THEN file ELSE buf[CHOOSE c \in Writer : TRUE]

\* The file under its lock is the queue of OnDemandQueue: every name handed out
\* was the oldest one waiting, and a rewrite loses and repeats nothing.
Promise == INSTANCE OnDemandQueue
             WITH Tickers <- Stocks, queue <- Contents, given <- given
KeepsPromise == Promise!Spec

\* Whoever asks for the section gets it, even when its last holder died inside:
\* the stale file is removed.
EveryoneGetsIn ==
  \A c \in Clients : at[c] = "try" ~> at[c] \in Inside \cup {"dead"}

===============================================================================
