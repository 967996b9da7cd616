---------------------------- MODULE JobLifecycle ----------------------------
(***************************************************************************)
(* What the job queue promises to the code that enqueues work, with no     *)
(* workers, locks or clocks in sight: a job is queued, run some number of  *)
(* times, and ends once; while it has not ended it holds its dedupe key,   *)
(* and no other job may hold that key.  JobQueue implements this.          *)
(***************************************************************************)

CONSTANTS Jobs,     \* ids a job row can have
          Keys,     \* dedupe keys
          NoKey     \* the dedupe key of a job that collapses nothing

VARIABLES status,   \* the status column of each row ("none": not yet inserted)
          key       \* the dedupe_key column

vars == <<status, key>>

Active == {"pending", "running"}
Ended == {"succeeded", "failed", "cancelled"}

Init == /\ status = [j \in Jobs |-> "none"]
        /\ key = [j \in Jobs |-> NoKey]

\* A producer queues j; the key is free.
Queue(j) ==
  /\ status[j] = "none"
  /\ status' = [status EXCEPT ![j] = "pending"]
  /\ \E k \in Keys \cup {NoKey} :
       /\ k # NoKey => \A i \in Jobs : key[i] # k
       /\ key' = [key EXCEPT ![j] = k]

\* A worker takes j.
Take(j) ==
  /\ status[j] = "pending"
  /\ status' = [status EXCEPT ![j] = "running"]
  /\ UNCHANGED key

\* A failed run puts j back: it keeps its key, so producers still collapse.
PutBack(j) ==
  /\ status[j] = "running"
  /\ status' = [status EXCEPT ![j] = "pending"]
  /\ UNCHANGED key

\* j ends, and its key is free again in the same step.
End(j) ==
  /\ status[j] \in Active
  /\ \E s \in Ended :
       /\ status[j] = "pending" => s = "cancelled"
       /\ status' = [status EXCEPT ![j] = s]
  /\ key' = [key EXCEPT ![j] = NoKey]

\* Retention removes an ended job.
Drop(j) ==
  /\ status[j] \in Ended
  /\ status' = [status EXCEPT ![j] = "gone"]
  /\ UNCHANGED key

Next == \E j \in Jobs : Queue(j) \/ Take(j) \/ PutBack(j) \/ End(j) \/ Drop(j)

Spec == Init /\ [][Next]_vars
=============================================================================
