----------------------------- MODULE PageStore -----------------------------
(***************************************************************************)
(* What a buffer pool promises its callers: one page image per block.  A   *)
(* read is given the image that was stored last, a call that fails changes *)
(* no image, and caching, eviction and flushing are invisible.             *)
(***************************************************************************)
CONSTANTS Block, Page, Corrupt

VARIABLES
  content,  \* the current image of every block; Corrupt if it is unreadable
  ret       \* what the last call gave its caller

vars == <<content, ret>>

Init == /\ content \in [Block -> Page \cup {Corrupt}]
        /\ ret = "none"

Read(b) == /\ content[b] # Corrupt
           /\ ret' = content[b]
           /\ UNCHANGED content

\* The caller is handed the current image and overwrites it.
Write(b, pg) == /\ content[b] # Corrupt
                /\ ret' = content[b]
                /\ content' = [content EXCEPT ![b] = pg]

\* A call that fails, or that gives its caller no page.
Other == /\ ret' \in {"none", "err"}
         /\ UNCHANGED content

Next == \/ \E b \in Block : Read(b)
        \/ \E b \in Block, pg \in Page : Write(b, pg)
        \/ Other

Spec == Init /\ [][Next]_vars
=============================================================================
