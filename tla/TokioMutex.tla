------------------------------ MODULE TokioMutex ------------------------------
(***************************************************************************)
(* tokio::sync::Mutex as the metrics commands use it: `lock().await` joins *)
(* a first-in first-out queue, the head of the queue holds the lock, and   *)
(* dropping the guard hands the lock to the next in the queue, whether or  *)
(* not that task has been polled again.  A lock is therefore the sequence  *)
(* of the calls that hold or want it; the empty sequence is a free lock.   *)
(***************************************************************************)
EXTENDS Naturals, Sequences

Unlocked == <<>>

Holds(lock, caller) == lock # <<>> /\ Head(lock) = caller

(* A caller that finds the lock free joins at the head and holds it at once. *)
JoinQueue(lock, caller) == Append(lock, caller)

(* The guard goes out of scope: only its holder can do this. *)
DropGuard(lock) == Tail(lock)

Wants(lock, caller) == \E i \in DOMAIN lock : lock[i] = caller
===============================================================================
