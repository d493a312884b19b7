---------------------------- MODULE AtomicStore ----------------------------
(***************************************************************************)
(* What a storage engine promises: the writes of a batch become durable    *)
(* all together, at one instant, and a crash takes the store back to the   *)
(* last such instant.                                                      *)
(***************************************************************************)
CONSTANTS Block, Page

VARIABLES
  view,      \* the image a reader of each block is given
  committed  \* the image each block has after a crash

vars == <<view, committed>>

Init == /\ committed \in [Block -> Page]
        /\ view = committed

Write(b, pg) == /\ view' = [view EXCEPT ![b] = pg]
                /\ UNCHANGED committed

Commit == /\ committed' = view
          /\ UNCHANGED view

Crash == /\ view' = committed
         /\ UNCHANGED committed

Next == (\E b \in Block, pg \in Page : Write(b, pg)) \/ Commit \/ Crash

Spec == Init /\ [][Next]_vars
=============================================================================
