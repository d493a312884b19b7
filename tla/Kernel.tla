------------------------------- MODULE Kernel -------------------------------
(***************************************************************************)
(* The microkernel of tpt-archon: capability-gated channels (ipc.rs),      *)
(* driver tasks fed by mock interrupt lines (driver.rs), and pages mapped  *)
(* out of the storage engine's buffer pool (memory.rs, page_cache.rs and   *)
(* grant.rs of the bridge), all checking against one shared issuer.        *)
(*                                                                         *)
(* The host program mints, revokes, sends, receives, injects, stands       *)
(* drivers up and maps pages, in any order, between two ticks.             *)
(***************************************************************************)
EXTENDS Capability, Scheduler, BufferPoolOps

CONSTANTS
  Channel, DeviceId, Payload,
  Response,     \* the channel a driver answers on
  Grantable,    \* the <<resource, right>> pairs the host mints
  MaxCaps,      \* bound on the capabilities minted
  MaxTasks,     \* bound on the driver tasks spawned
  MaxMessages,  \* bound on the messages accepted, waiting interrupts included
  MaxMappings   \* bound on the mappings held at once

VARIABLES
  issuer,    \* the SharedIssuer
  caps,      \* every capability minted: they are Copy, nobody forgets one
  revoked,   \* history: the capabilities given back
  inboxes,   \* inboxes of the registered channels
  sources,   \* the interrupt source being filled for each device
  sched,     \* the scheduler, its tasks being driver tasks
  memory,    \* the buffer pool inside UnifiedMemory
  mapped,    \* history: per block, mappings not yet released
  sent,      \* history: per channel, what was ever accepted
  received   \* history: per channel, what receive returned

vars == <<issuer, caps, revoked, inboxes, sources, sched, memory, mapped, sent, received>>
authority == <<issuer, caps, revoked>>
cache == <<memory, mapped>>
ipc == <<inboxes, sent, received>>

DriverTask == [source : Seq(Payload), cap : caps]

Init ==
  /\ issuer = NewIssuer
  /\ caps = {}
  /\ revoked = {}
  /\ inboxes = <<>>
  /\ sources = [d \in DeviceId |-> <<>>]
  /\ sched = NewScheduler
  /\ memory = new([b \in Block |-> Zeroed])
  /\ mapped = [b \in Block |-> 0]
  /\ sent = [c \in Channel |-> <<>>]
  /\ received = [c \in Channel |-> <<>>]

\* Messages accepted so far, and interrupts that may still become one.
Traffic == FoldFunctionOnSet(LAMBDA q, n : Len(q) + n, 0, sent, Channel)
           + FoldFunctionOnSet(LAMBDA q, n : Len(q) + n, 0, sources, DeviceId)
           + FoldFunction(LAMBDA e, n : Len(e.task.source) + n, 0, sched.ready)

-----------------------------------------------------------------------------
Mint(resource, right) ==
  /\ issuer.next_serial < MaxCaps
  /\ issuer' = mint(issuer)
  /\ caps' = caps \cup {Minted(issuer, resource, right)}
  /\ UNCHANGED <<revoked, ipc, sources, sched, cache>>

Revoke(cap) ==
  /\ issuer' = revoke(issuer, cap)
  /\ revoked' = revoked \cup {cap}
  /\ UNCHANGED <<caps, ipc, sources, sched, cache>>

-----------------------------------------------------------------------------
\* The inboxes are a map with an entry for each registered channel.
register_channel_afresh(c) ==
  [x \in DOMAIN inboxes \cup {c} |-> IF x = c THEN <<>> ELSE inboxes[x]]
register_channel(c) ==
  [x \in DOMAIN inboxes \cup {c} |-> IF x \in DOMAIN inboxes THEN inboxes[x] ELSE <<>>]

RegisterChannel(c) ==
  /\ inboxes' = register_channel(c)
  /\ UNCHANGED <<authority, sources, sched, cache, sent, received>>

\* send refuses (Denied, NoSuchChannel) without touching the inbox.
MaySend(cap, c) == authorizes(issuer, cap, ChannelOf(c), "Write") /\ c \in DOMAIN inboxes

send(cap, c, m) ==
  IF MaySend(cap, c)
  THEN /\ inboxes' = [inboxes EXCEPT ![c] = Append(@, m)]
       /\ sent' = [sent EXCEPT ![c] = Append(@, m)]
       /\ UNCHANGED received
  ELSE UNCHANGED ipc

Send(cap, c, m) ==
  /\ Traffic < MaxMessages
  /\ send(cap, c, m)
  /\ UNCHANGED <<authority, sources, sched, cache>>

Receive(cap, c) ==
  /\ authorizes(issuer, cap, ChannelOf(c), "Read")
  /\ c \in DOMAIN inboxes
  /\ inboxes' = [inboxes EXCEPT ![c] = <<>>]
  /\ received' = [received EXCEPT ![c] = @ \o inboxes[c]]
  /\ UNCHANGED <<authority, sources, sched, cache, sent>>

-----------------------------------------------------------------------------
Inject(cap, d, m) ==
  /\ Traffic < MaxMessages
  /\ \/ authorizes(issuer, cap, DeviceOf(d), "Write")
     \/ authorizes(issuer, cap, DeviceOf(d), "ReadWrite")
  /\ sources' = [sources EXCEPT ![d] = Append(@, m)]
  /\ UNCHANGED <<authority, ipc, sched, cache>>

MayStandUp(cap, d) == \/ authorizes(issuer, cap, DeviceOf(d), "Read")
                      \/ authorizes(issuer, cap, DeviceOf(d), "ReadWrite")

\* stand_up takes the source by value: refused, it drops the source and the
\* interrupts in it.  A task that is stood up is spawned.
StandUp(cap, d, response_cap) ==
  /\ sched.next_id < MaxTasks
  /\ sched' = IF MayStandUp(cap, d)
              THEN spawn(sched, [source |-> sources[d], cap |-> response_cap])
              ELSE sched
  /\ sources' = [sources EXCEPT ![d] = <<>>]
  /\ UNCHANGED <<authority, ipc, cache>>

\* handle_interrupt of the driver (Driver is a trait; EchoDriver answers on its
\* response channel and ignores the result of send).
handle_interrupt(task) == send(task.cap, Response, Head(task.source))

poll_drops_when_denied(task) ==
  IF task.source # <<>> /\ MaySend(task.cap, Response)
  THEN /\ handle_interrupt(task)
       /\ sched' = tick(sched, [task EXCEPT !.source = Tail(@)], "Pending")
  ELSE /\ UNCHANGED ipc
       /\ sched' = tick(sched, task, "Ready")
\* DriverTask::poll.
poll(task) ==
  IF task.source # <<>>
  THEN /\ handle_interrupt(task)
       /\ sched' = tick(sched, [task EXCEPT !.source = Tail(@)], "Pending")
  ELSE /\ UNCHANGED ipc
       /\ sched' = tick(sched, task, "Ready")

Tick ==
  /\ task_count(sched) > 0
  /\ poll(Current(sched))
  /\ UNCHANGED <<authority, sources, cache>>

-----------------------------------------------------------------------------
\* A mapping is a call of fetch (fetch_mut to write); grant_read, grant_write
\* and UnifiedMemory forward to it.  The device is the in-memory one.
MapRead(cap, b) ==
  /\ mapped[b] < MaxMappings
  /\ authorizes(issuer, cap, PageOf(b), "Read")
  /\ LET r == fetch(memory, b, "ok", "ok") IN
     /\ memory' = r.pool
     /\ mapped' = [mapped EXCEPT ![b] = IF r.ok THEN @ + 1 ELSE @]
  /\ UNCHANGED <<authority, ipc, sources, sched>>

\* The holder stores through the page it is lent.
MapWrite(cap, b, pg) ==
  /\ mapped[b] < MaxMappings
  /\ authorizes(issuer, cap, PageOf(b), "Write")
  /\ LET r == fetch_mut(memory, b, "ok", "ok") IN
     /\ memory' = IF r.ok THEN Store(r.pool, r.idx, pg) ELSE r.pool
     /\ mapped' = [mapped EXCEPT ![b] = IF r.ok THEN @ + 1 ELSE @]
  /\ UNCHANGED <<authority, ipc, sources, sched>>

\* unmap checks no capability; a holder releases what it has mapped.
Unmap(b) ==
  /\ mapped[b] > 0
  /\ memory' = unpin(memory, b)
  /\ mapped' = [mapped EXCEPT ![b] = @ - 1]
  /\ UNCHANGED <<authority, ipc, sources, sched>>

-----------------------------------------------------------------------------
Next ==
  \/ \E g \in Grantable : Mint(g[1], g[2])
  \/ \E cap \in caps : Revoke(cap)
  \/ \E c \in Channel : RegisterChannel(c)
  \/ \E cap \in caps, c \in Channel, m \in Payload : Send(cap, c, m)
  \/ \E cap \in caps, c \in Channel : Receive(cap, c)
  \/ \E cap \in caps, d \in DeviceId, m \in Payload : Inject(cap, d, m)
  \/ \E cap, response_cap \in caps, d \in DeviceId : StandUp(cap, d, response_cap)
  \/ Tick
  \/ \E cap \in caps, b \in Block : MapRead(cap, b)
  \/ \E cap \in caps, b \in Block, pg \in Page : MapWrite(cap, b, pg)
  \/ \E b \in Block : Unmap(b)

\* run_to_completion and the server loop call tick again and again; nothing
\* obliges the host to do anything else.
Fairness == WF_vars(Tick)

Spec == Init /\ [][Next]_vars /\ Fairness

-----------------------------------------------------------------------------
\* Someone holds a capability for the resource that was never revoked.
Held(resource, right) == \E cap \in caps \ revoked : Covers(cap, resource, right)

\* No ambient authority, and revocation is final (capability.rs): a message is
\* accepted, an interrupt injected, a driver stood up or a page lent only while
\* some holder has an unrevoked capability for exactly that resource and
\* direction, however the issuer numbers and reuses its tokens.
AuthorityStep ==
  /\ \A c \in Channel : /\ sent'[c] # sent[c] => Held(ChannelOf(c), "Write")
                        /\ received'[c] # received[c] => Held(ChannelOf(c), "Read")
  /\ \A d \in DeviceId : Len(sources'[d]) > Len(sources[d]) => Held(DeviceOf(d), "Write")
  /\ sched'.next_id > sched.next_id => \E d \in DeviceId : Held(DeviceOf(d), "Read")
  /\ \A b \in Block :
       /\ mapped'[b] > mapped[b] => Held(PageOf(b), "Read") \/ Held(PageOf(b), "Write")
       /\ Logical(memory', b) # Logical(memory, b) => Held(PageOf(b), "Write")
NoAmbientAuthority == [][AuthorityStep]_vars

\* A channel loses, duplicates and reorders nothing (ipc.rs): what was received,
\* followed by what waits in the inbox, is what was accepted, also when the
\* channel is registered again and when drivers and the host send in turns.
InboxOf(c) == IF c \in DOMAIN inboxes THEN inboxes[c] ELSE <<>>
ChannelsAreFifo == \A c \in Channel : sent[c] = received[c] \o InboxOf(c)

\* Round robin (scheduler.rs: tick "Polls one task (round-robin)"): whenever
\* a task is polled all the others come one poll closer to their turn, and neither
\* a spawn nor anything else the host does sets one back.
RoundRobin == [][OthersMoveUp(sched, sched')]_vars

\* A driver task is only dropped by the scheduler once its interrupt source is
\* drained (driver.rs: "returns Ready once the queue is drained"), also when its
\* response capability has been revoked in the meantime.
LeavesDrained ==
  \A i \in DOMAIN sched.ready :
    ~Queued(sched', sched.ready[i].id) => sched.ready[i].task.source = <<>>
DriversDrainTheirSource == [][LeavesDrained]_vars

\* A page lent out stays where it is (page_cache.rs): while a holder has a block
\* mapped its frame is resident with one pin for each mapping, whatever other
\* holders map and release.
MappedPagesStay ==
  \A b \in Block :
    mapped[b] > 0 =>
      \E i \in Holding(memory, b) : memory.frames[i].pins = mapped[b]

\* Every driver task that is spawned finishes (run_to_completion: "Guaranteed to
\* terminate as long as every task eventually returns Ready"), although other
\* drivers are being stood up meanwhile.
TasksFinish ==
  \A id \in 0..(MaxTasks - 1) : Queued(sched, id) ~> ~Queued(sched, id)
=============================================================================
