------------------------------- MODULE IoUring ------------------------------
(***************************************************************************)
(* I/O tasks over one io_uring reactor (io_uring_backend.rs), polled by    *)
(* the cooperative scheduler.  The ring itself belongs to Linux: it has a  *)
(* submission queue of Entries slots, takes what is submitted, and         *)
(* completes operations in any order, each with a byte count or -errno.    *)
(***************************************************************************)
EXTENDS Scheduler, Integers

CONSTANTS
  Length,    \* bytes a task reads or writes
  Errno,     \* a failed operation completes with -Errno
  Entries,   \* slots of the submission queue
  MaxTasks   \* bound on the tasks spawned

VARIABLES
  reactor,   \* next_op_id and the pending map, op id to outcome
  sq,        \* submission queue: operations pushed, not yet submitted
  inflight,  \* operations Linux is working on
  cq,        \* completion queue: <<op id, result>>
  sched      \* its tasks being I/O tasks

vars == <<reactor, sq, inflight, cq, sched>>

NewTask(op) == [op |-> op, phase |-> "NotSubmitted", op_id |-> -1, res |-> 0]

Init ==
  /\ reactor = [next_op_id |-> 0, pending |-> <<>>]
  /\ sq = <<>> /\ inflight = {} /\ cq = <<>>
  /\ sched = NewScheduler

\* IoReadTask::new and IoWriteTask::new, handed to spawn.
Spawn(op) ==
  /\ sched.next_id < MaxTasks
  /\ sched' = spawn(sched, NewTask(op))
  /\ UNCHANGED <<reactor, sq, inflight, cq>>

\* Linux completes an operation, in full or with an error.
Complete(op) ==
  /\ op \in inflight
  /\ inflight' = inflight \ {op}
  /\ \E res \in {Length, -Errno} : cq' = Append(cq, <<op.op_id, res>>)
  /\ UNCHANGED <<reactor, sq, sched>>

-----------------------------------------------------------------------------
\* push: submits when the queue is full, then queues the entry.
SubmittedByPush == IF Len(sq) = Entries THEN {sq[i] : i \in DOMAIN sq} ELSE {}
QueueAfterPush(op) == Append(IF Len(sq) = Entries THEN <<>> ELSE sq, op)

\* poll_completions after the queue became `queue` and the map `pending`: a
\* failed submit returns at once; else the completions are reaped, each removing
\* the entry of its operation before the outcome is marked Done.
poll_completions(ok, queue, pending) ==
  LET reaped == {cq[i][1] : i \in DOMAIN cq}
  IN  IF ok
      THEN [sq |-> <<>>, cq |-> <<>>, submitted |-> {queue[i] : i \in DOMAIN queue},
            pending |-> [id \in DOMAIN pending \ reaped |-> pending[id]]]
      ELSE [sq |-> queue, cq |-> cq, submitted |-> {}, pending |-> pending]

\* submit_read or submit_write, then poll_completions: the first poll.
SubmitAndReap(task, ok) ==
  LET op == [op |-> task.op, op_id |-> reactor.next_op_id]
      pending == [id \in DOMAIN reactor.pending \cup {op.op_id} |->
                    IF id = op.op_id THEN "Pending" ELSE reactor.pending[id]]
      r == poll_completions(ok, QueueAfterPush(op), pending)
  IN  /\ reactor' = [next_op_id |-> op.op_id + 1, pending |-> r.pending]
      /\ inflight' = inflight \cup SubmittedByPush \cup r.submitted
      /\ sq' = r.sq /\ cq' = r.cq
      /\ sched' = tick(sched, [task EXCEPT !.phase = "Submitted", !.op_id = op.op_id],
                       "Pending")

\* A later poll: poll_completions, then take_result.
ReapAndTake(task, ok) ==
  LET r == poll_completions(ok, sq, reactor.pending)
      taken == task.op_id \in DOMAIN r.pending /\ r.pending[task.op_id] # "Pending"
  IN  /\ reactor' = [reactor EXCEPT !.pending = r.pending]
      /\ inflight' = inflight \cup r.submitted
      /\ sq' = r.sq /\ cq' = r.cq
      /\ sched' = IF taken
                  THEN tick(sched, [task EXCEPT !.phase = "Done",
                                                !.res = r.pending[task.op_id]], "Ready")
                  ELSE tick(sched, task, "Pending")

\* IoReadTask::poll and IoWriteTask::poll, which ignore a failed submit.
Tick(ok) ==
  /\ task_count(sched) > 0
  /\ IF Current(sched).phase = "NotSubmitted"
     THEN SubmitAndReap(Current(sched), ok)
     ELSE ReapAndTake(Current(sched), ok)

Next == \/ \E op \in {"read", "write"} : Spawn(op)
        \/ \E op \in inflight : Complete(op)
        \/ \E ok \in BOOLEAN : Tick(ok)

\* The server loop keeps ticking, a submit fails only now and then, and Linux
\* completes what it has taken.
Fairness == WF_vars(Tick(TRUE)) /\ WF_vars(\E op \in inflight : Complete(op))

Spec == Init /\ [][Next]_vars /\ Fairness

-----------------------------------------------------------------------------
\* An I/O task leaves the scheduler in the end (io_uring_backend.rs: tasks
\* "report `Pending` until their own completion shows up"; every test of the
\* module asserts that the operation completes).  poll_completions drops the map
\* entry in which take_result looks for the outcome, so no task ever sees one.
IoTasksFinish ==
  \A id \in 0..(MaxTasks - 1) : Queued(sched, id) ~> ~Queued(sched, id)
=============================================================================
