----------------------------- MODULE Scheduler ------------------------------
(***************************************************************************)
(* The cooperative scheduler of tpt-archon-kernel (scheduler.rs) as a data *)
(* type: a queue of entries, each a task with its id.  The modules that    *)
(* schedule something (Kernel, IoUring, WireServer) say what polling one   *)
(* of their tasks does.                                                    *)
(***************************************************************************)
EXTENDS Naturals, Sequences

Poll == {"Pending", "Ready"}

NewScheduler == [ready |-> <<>>, next_id |-> 0]

spawn(s, t) == [ready |-> Append(s.ready, [id |-> s.next_id, task |-> t]),
                next_id |-> s.next_id + 1]

task_count(s) == Len(s.ready)

\* The task that the next tick polls.
Current(s) == Head(s.ready).task

tick_requeues_first(s, t, poll) ==
  [s EXCEPT !.ready = IF poll = "Pending"
                      THEN <<[id |-> Head(@).id, task |-> t]>> \o Tail(@)
                      ELSE Tail(@)]
tick_requeues_always(s, t, poll) ==
  [s EXCEPT !.ready = Append(Tail(@), [id |-> Head(@).id, task |-> t])]
\* The scheduler once polling its first entry has turned the task into t.
tick(s, t, poll) ==
  [s EXCEPT !.ready = IF poll = "Pending"
                      THEN Append(Tail(@), [id |-> Head(@).id, task |-> t])
                      ELSE Tail(@)]

Queued(s, id) == \E i \in DOMAIN s.ready : s.ready[i].id = id

\* How many entries are polled before the one with this id.
Ahead(s, id) == (CHOOSE i \in DOMAIN s.ready : s.ready[i].id = id) - 1

\* Polling the first entry moves every other one up by one; nothing else moves.
OthersMoveUp(s, t) ==
  \A i \in 2..Len(s.ready) :
    /\ Queued(t, s.ready[i].id)
    /\ Ahead(t, s.ready[i].id) = IF t.ready[1] = s.ready[1] THEN i - 1 ELSE i - 2
=============================================================================
