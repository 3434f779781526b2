---------------------------- MODULE OnDemandQueue -----------------------------
(***************************************************************************)
(* What the on-demand queue promises its users: requests are handed out in *)
(* the order they were made, each one once, and a name waits at most once. *)
(* Module OnDemandMutex shows under which circumstances the lock file and  *)
(* the rewritten jsonl file of depth_ondemand.py keep the promise, module  *)
(* DepthControl relies on it.                                              *)
(***************************************************************************)
EXTENDS Sequences, Naturals

CONSTANT Tickers

VARIABLES
  queue,    \* the requests that wait
  given     \* the requests handed out, oldest first

Waits(t) == \E i \in 1 .. Len(queue) : queue[i] = t

Init == queue = <<>> /\ given = <<>>

Add(t) ==
  /\ ~Waits(t)
  /\ queue' = Append(queue, t)
  /\ UNCHANGED given

Take ==
  /\ queue # <<>>
  /\ queue' = Tail(queue)
  /\ given' = Append(given, Head(queue))

Next == Take \/ \E t \in Tickers : Add(t)

Spec == Init /\ [][Next]_<<queue, given>>

===============================================================================
