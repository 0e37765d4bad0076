------------------------------ MODULE JobQueue ------------------------------
(***************************************************************************)
(* The life of one BullMQ job, as this program uses the library: jobs are  *)
(* added with JOB_OPTS (several attempts, exponential backoff, nothing     *)
(* removed on failure), taken by a worker under a lock, completed, failed  *)
(* into a backoff delay or into the failed set, declared stalled when      *)
(* their lock lapses, reprocessed or removed by the dead-letter endpoints. *)
(*                                                                         *)
(* BullMQ itself is a library (bullmq 5.78 in pnpm-lock.yaml); the         *)
(* operators below are what the code under apps/ relies on.  Each one is   *)
(* one atomic Redis script.                                                *)
(***************************************************************************)
EXTENDS Naturals

CONSTANTS
  Attempts,         \* JOB_OPTS.attempts: runs a job gets before it is failed
  MaxStalledCount   \* BullMQ's maxStalledCount, left at its default by the workers

ASSUME AttemptsAssumption == Attempts \in Nat \ {0}
ASSUME StalledAssumption  == MaxStalledCount \in Nat

JobState == {"none", "delayed", "waiting", "active", "completed", "failed", "removed"}

Job == [state : JobState, attemptsMade : Nat, stalls : Nat]

NoJob == [state |-> "none", attemptsMade |-> 0, stalls |-> 0]

\* (mutant: the row's vocabulary in the queue)
AddedJobScheduled(delayed) ==
  [state |-> IF delayed THEN "scheduled" ELSE "waiting", attemptsMade |-> 0, stalls |-> 0]

\* queue.add / queue.addBulk, with or without the `delay` option.
AddedJob(delayed) ==
  [state |-> IF delayed THEN "delayed" ELSE "waiting", attemptsMade |-> 0, stalls |-> 0]

\* The delay of a scheduled or backed-off job has elapsed.
Promoted(j) == [j EXCEPT !.state = "waiting"]

\* A worker takes the job under a fresh lock.
Taken(j) == [j EXCEPT !.state = "active"]

\* The processor returned while its lock held.
Completed(j) == [j EXCEPT !.state = "completed", !.attemptsMade = @ + 1]

\* The processor that started after `made` attempts threw while its lock held:
\* back off while attempts remain, otherwise join the failed set.
FailedAttempt(j, made) ==
  [j EXCEPT !.state = IF made + 1 < Attempts THEN "delayed" ELSE "failed",
            !.attemptsMade = @ + 1]

\* The stalled check found an active job without a lock.  It runs again from
\* the start, or fails without running once it stalled too often.
Stalled(j) ==
  [j EXCEPT !.state = IF j.stalls + 1 > MaxStalledCount THEN "failed" ELSE "waiting",
            !.stalls = @ + 1]

\* job.retry(): legal only from the failed set, keeps attemptsMade.
Reprocessed(j) == [j EXCEPT !.state = "waiting"]

\* job.remove(): legal in every state that is not locked.
Removed(j) == [j EXCEPT !.state = "removed"]
=============================================================================
