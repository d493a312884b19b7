---------------------------- MODULE KernelProofs ----------------------------
(***************************************************************************)
(* Proofs about the kernel for any number of channels, devices, blocks,    *)
(* frames, capabilities, tasks and messages: nothing is done without       *)
(* authority, channels are FIFO, the scheduler is round robin and driver   *)
(* tasks drain their source.                                               *)
(***************************************************************************)
EXTENDS Kernel, BufferPoolLemmas

\* Serials are never used twice, and those of revoked capabilities are not live.
TokensOK ==
  /\ issuer \in [next_serial : Nat, live : SUBSET Nat]
  /\ revoked \subseteq caps
  /\ \A cap \in caps : cap.serial \in Nat /\ cap.serial < issuer.next_serial
  /\ \A a, b \in caps : a.serial = b.serial => a = b
  /\ \A cap \in revoked : cap.serial \notin issuer.live

ChannelsOK ==
  /\ DOMAIN inboxes \subseteq Channel
  /\ \A c \in DOMAIN inboxes : inboxes[c] \in Seq(Payload)
  /\ sent \in [Channel -> Seq(Payload)]
  /\ received \in [Channel -> Seq(Payload)]
  /\ ChannelsAreFifo

\* A scheduler of entries from E: ids are below next_id and no two are equal.
SchedulerOK(s, E) ==
  /\ s \in [ready : Seq(E), next_id : Nat]
  /\ \A i \in 1..Len(s.ready) : s.ready[i].id \in Nat /\ s.ready[i].id < s.next_id
  /\ \A i, j \in 1..Len(s.ready) : s.ready[i].id = s.ready[j].id => i = j

Entry == [id : Nat, task : DriverTask]

TasksOK ==
  /\ sources \in [DeviceId -> Seq(Payload)]
  /\ SchedulerOK(sched, Entry)

\* A block has one pin for each mapping of it.
PagesOK == /\ WellFormed(memory) /\ mapped \in [Block -> Nat]
           /\ \A b \in Block : Pins(memory, b) = mapped[b]

\* The inductive invariant.
Inv == TokensOK /\ ChannelsOK /\ TasksOK /\ PagesOK

-----------------------------------------------------------------------------
\* A capability that the issuer authorizes was never revoked.
LEMMA AuthorizedIsHeld ==
  ASSUME TokensOK, NEW cap \in caps, NEW resource, NEW right,
         authorizes(issuer, cap, resource, right)
  PROVE  Held(resource, right)
BY DEF TokensOK, authorizes, validate, Held

\* ReadWrite is both rights.
LEMMA HeldBothWays ==
  ASSUME NEW resource, Held(resource, "ReadWrite")
  PROVE  Held(resource, "Read") /\ Held(resource, "Write")
BY DEF Held, Covers

-----------------------------------------------------------------------------
\* A message appended to the inbox is appended to what was received and waits.
LEMMA AppendToConcat ==
  \A s, t \in Seq(Payload), e \in Payload : Append(s \o t, e) = s \o Append(t, e)
<1> SUFFICES ASSUME NEW s \in Seq(Payload), NEW t \in Seq(Payload), NEW e \in Payload
             PROVE  Append(s \o t, e) = s \o Append(t, e)
  BY Zenon
<1>1. s \o t \in Seq(Payload) /\ <<e>> \in Seq(Payload)
  BY ConcatProperties
<1>2. Append(s \o t, e) = (s \o t) \o <<e>>
  BY <1>1, AppendIsConcat
<1>3. Append(t, e) = t \o <<e>>
  BY AppendIsConcat
<1> QED BY <1>1, <1>2, <1>3, ConcatAssociative

\* send keeps the channels FIFO, accepted or refused.
LEMMA SendKeepsFifo ==
  ASSUME ChannelsOK, NEW cap, NEW c, NEW m \in Payload, send(cap, c, m)
  PROVE  ChannelsOK'
<1>1. CASE ~MaySend(cap, c)
  BY <1>1 DEF send, ipc, ChannelsOK, ChannelsAreFifo, InboxOf
<1>2. CASE MaySend(cap, c)
  <2>1. c \in DOMAIN inboxes /\ c \in Channel
    BY <1>2 DEF MaySend, ChannelsOK
  <2>2. /\ inboxes' = [inboxes EXCEPT ![c] = Append(@, m)]
        /\ sent' = [sent EXCEPT ![c] = Append(@, m)]
        /\ received' = received
    BY <1>2 DEF send
  <2>3. inboxes[c] \in Seq(Payload) /\ sent[c] \in Seq(Payload) /\ received[c] \in Seq(Payload)
    BY <2>1 DEF ChannelsOK
  <2>4. Append(inboxes[c], m) \in Seq(Payload) /\ Append(sent[c], m) \in Seq(Payload)
    BY <2>3, AppendProperties
  <2>5. sent[c] = received[c] \o inboxes[c]
    BY <2>1 DEF ChannelsOK, ChannelsAreFifo, InboxOf
  <2>6. Append(sent[c], m) = received[c] \o Append(inboxes[c], m)
    <3>1. Append(received[c] \o inboxes[c], m) = received[c] \o Append(inboxes[c], m)
      BY <2>3, AppendToConcat, Zenon
    <3> QED BY <2>5, <3>1, Zenon
  <2>7. /\ DOMAIN inboxes' = DOMAIN inboxes
        /\ inboxes'[c] = Append(inboxes[c], m)
        /\ \A x \in DOMAIN inboxes : x # c => inboxes'[x] = inboxes[x]
        /\ sent'[c] = Append(sent[c], m)
        /\ \A x \in Channel : x # c => sent'[x] = sent[x]
    BY <2>1, <2>2 DEF ChannelsOK
  <2>8. ChannelsAreFifo'
    BY <2>1, <2>2, <2>6, <2>7, Zenon DEF ChannelsOK, ChannelsAreFifo, InboxOf
  <2>9. sent' \in [Channel -> Seq(Payload)]
    BY <2>1, <2>2, <2>4 DEF ChannelsOK
  <2>10. \A x \in DOMAIN inboxes' : inboxes'[x] \in Seq(Payload)
    BY <2>4, <2>7, Zenon DEF ChannelsOK
  <2> QED BY <2>2, <2>7, <2>8, <2>9, <2>10 DEF ChannelsOK
<1> QED BY <1>1, <1>2

-----------------------------------------------------------------------------
\* The place of an entry, ids being unique.
LEMMA PlaceOf ==
  ASSUME NEW s, NEW E, SchedulerOK(s, E), NEW j \in 1..Len(s.ready)
  PROVE  Queued(s, s.ready[j].id) /\ Ahead(s, s.ready[j].id) = j - 1
<1>1. DOMAIN s.ready = 1..Len(s.ready)
  BY LenProperties DEF SchedulerOK
<1>2. \A i \in DOMAIN s.ready : s.ready[i].id = s.ready[j].id => i = j
  BY <1>1 DEF SchedulerOK
<1>3. (CHOOSE i \in DOMAIN s.ready : s.ready[i].id = s.ready[j].id) = j
  BY <1>1, <1>2
<1> QED BY <1>1, <1>3, Zenon DEF Queued, Ahead

\* spawn keeps every entry where it is.
LEMMA SpawnFacts ==
  ASSUME NEW s, NEW E, SchedulerOK(s, E), NEW t, [id |-> s.next_id, task |-> t] \in E
  PROVE  /\ SchedulerOK(spawn(s, t), E)
         /\ OthersMoveUp(s, spawn(s, t))
         /\ \A i \in 1..Len(s.ready) : Queued(spawn(s, t), s.ready[i].id)
<1> DEFINE e == [id |-> s.next_id, task |-> t]
           q == spawn(s, t)
<1>1. s.ready \in Seq(E) /\ s.next_id \in Nat /\ Len(s.ready) \in Nat
  BY LenProperties DEF SchedulerOK
<1>2. q.ready = Append(s.ready, e) /\ q.next_id = s.next_id + 1
  BY DEF spawn
<1>3. /\ q.ready \in Seq(E) /\ Len(q.ready) = Len(s.ready) + 1
      /\ \A i \in 1..Len(s.ready) : q.ready[i] = s.ready[i]
      /\ q.ready[Len(s.ready) + 1] = e
  BY <1>1, <1>2, AppendProperties
<1>4. e.id = s.next_id
  OBVIOUS
<1>5. q \in [ready : Seq(E), next_id : Nat]
  BY <1>1, <1>3 DEF spawn
<1> HIDE DEF q, e
<1>6. \A i \in 1..Len(q.ready) : q.ready[i].id \in Nat /\ q.ready[i].id < q.next_id
  BY <1>1, <1>2, <1>3, <1>4 DEF SchedulerOK
<1>7. \A i, j \in 1..Len(q.ready) : q.ready[i].id = q.ready[j].id => i = j
  <2>1. \A i \in 1..Len(s.ready) : q.ready[i].id = s.ready[i].id /\ s.ready[i].id # s.next_id
    BY <1>1, <1>3 DEF SchedulerOK
  <2>2. q.ready[Len(s.ready) + 1].id = s.next_id
    BY <1>3, <1>4
  <2>3. \A i \in 1..Len(q.ready) : i \in 1..Len(s.ready) \/ i = Len(s.ready) + 1
    BY <1>1, <1>3
  <2>4. \A i, j \in 1..Len(s.ready) : s.ready[i].id = s.ready[j].id => i = j
    BY DEF SchedulerOK
  <2> QED BY <2>1, <2>2, <2>3, <2>4, Zenon
<1>8. SchedulerOK(q, E)
  BY <1>5, <1>6, <1>7 DEF SchedulerOK
<1>9. \A i \in 1..Len(s.ready) : /\ Queued(q, s.ready[i].id)
                                /\ Ahead(q, s.ready[i].id) = i - 1
  <2> SUFFICES ASSUME NEW i \in 1..Len(s.ready)
               PROVE  Queued(q, s.ready[i].id) /\ Ahead(q, s.ready[i].id) = i - 1
    OBVIOUS
  <2>1. i \in 1..Len(q.ready) /\ q.ready[i] = s.ready[i]
    BY <1>1, <1>3
  <2>2. Queued(q, q.ready[i].id) /\ Ahead(q, q.ready[i].id) = i - 1
    BY <1>8, <2>1, PlaceOf
  <2> QED BY <2>1, <2>2
<1>10. OthersMoveUp(s, q)
  BY <1>1, <1>3, <1>9 DEF OthersMoveUp
<1> QED BY <1>8, <1>9, <1>10 DEF q

\* Nothing happens to the scheduler.
LEMMA IdleFacts ==
  ASSUME NEW s, NEW E, SchedulerOK(s, E)
  PROVE  /\ OthersMoveUp(s, s)
         /\ \A i \in 1..Len(s.ready) : Queued(s, s.ready[i].id)
<1>1. Len(s.ready) \in Nat
  BY LenProperties DEF SchedulerOK
<1>2. \A i \in 1..Len(s.ready) : Queued(s, s.ready[i].id) /\ Ahead(s, s.ready[i].id) = i - 1
  BY PlaceOf
<1> QED BY <1>1, <1>2 DEF OthersMoveUp

\* tick turns the queue; an entry leaves only when it is polled and Ready.
Polled(s, t) == [id |-> Head(s.ready).id, task |-> t]
Ticked(s, t, p, q) == s.ready # <<>> /\ q = tick(s, t, p)

LEMMA TickFacts ==
  ASSUME NEW s, NEW E, SchedulerOK(s, E), NEW t, NEW p, Polled(s, t) \in E,
         NEW q, Ticked(s, t, p, q)
  PROVE  /\ SchedulerOK(q, E) /\ q.next_id = s.next_id
         /\ OthersMoveUp(s, q)
         /\ \A i \in 2..Len(s.ready) : Queued(q, s.ready[i].id)
         /\ p = "Pending" => Queued(q, s.ready[1].id)
<1> DEFINE n == Len(s.ready)
           e == Polled(s, t)
<1>1. /\ s.ready \in Seq(E) /\ s.next_id \in Nat /\ n \in Nat \ {0}
      /\ Head(s.ready) = s.ready[1]
      /\ Tail(s.ready) \in Seq(E) /\ Len(Tail(s.ready)) = n - 1
      /\ \A i \in 1..(n - 1) : Tail(s.ready)[i] = s.ready[i + 1]
  BY EmptySeq, LenProperties, HeadTailProperties DEF SchedulerOK, Ticked
<1>2. /\ q.ready = IF p = "Pending" THEN Append(Tail(s.ready), e) ELSE Tail(s.ready)
      /\ q.next_id = s.next_id
      /\ q = [ready |-> q.ready, next_id |-> q.next_id]
  <2> DEFINE r == IF p = "Pending" THEN Append(Tail(s.ready), e) ELSE Tail(s.ready)
  <2>1. q = [s EXCEPT !.ready = r]
    BY DEF tick, Ticked, Polled
  <2>2. s \in [ready : Seq(E), next_id : Nat]
    BY DEF SchedulerOK
  <2> HIDE DEF r
  <2>3. q.ready = r /\ q.next_id = s.next_id /\ q = [ready |-> q.ready, next_id |-> q.next_id]
    BY <2>1, <2>2
  <2> QED BY <2>3 DEF r
<1>3. e.id = s.ready[1].id
  BY <1>1 DEF Polled
<1>4. /\ q.ready \in Seq(E)
      /\ Len(q.ready) = IF p = "Pending" THEN n ELSE n - 1
      /\ \A i \in 1..(n - 1) : q.ready[i] = s.ready[i + 1]
      /\ p = "Pending" => q.ready[n] = e
  <2>1. CASE p = "Pending"
    BY <1>1, <1>2, <2>1, AppendProperties
  <2>2. CASE p # "Pending"
    BY <1>1, <1>2, <2>2
  <2> QED BY <2>1, <2>2
<1>5. q \in [ready : Seq(E), next_id : Nat]
  BY <1>1, <1>2, <1>4, Zenon
<1> HIDE DEF e
<1>6. \A i \in 1..Len(q.ready) : q.ready[i].id = IF i = n THEN s.ready[1].id ELSE s.ready[i + 1].id
  BY <1>1, <1>3, <1>4
<1>7. \A i \in 1..Len(q.ready) : q.ready[i].id \in Nat /\ q.ready[i].id < q.next_id
  <2>1. \A i \in 1..n : s.ready[i].id \in Nat /\ s.ready[i].id < s.next_id
    BY DEF SchedulerOK
  <2>2. \A i \in 1..Len(q.ready) : i = n \/ i + 1 \in 1..n
    BY <1>1, <1>4
  <2>3. 1 \in 1..n
    BY <1>1
  <2> QED BY <1>2, <1>6, <2>1, <2>2, <2>3, Zenon
<1>8. \A i, j \in 1..Len(q.ready) : q.ready[i].id = q.ready[j].id => i = j
  BY <1>1, <1>4, <1>6 DEF SchedulerOK
<1>9. SchedulerOK(q, E)
  BY <1>5, <1>7, <1>8 DEF SchedulerOK
<1>10. \A i \in 2..n : Queued(q, s.ready[i].id) /\ Ahead(q, s.ready[i].id) = i - 2
  <2> SUFFICES ASSUME NEW i \in 2..n
               PROVE  Queued(q, s.ready[i].id) /\ Ahead(q, s.ready[i].id) = i - 2
    OBVIOUS
  <2>1. i - 1 \in 1..Len(q.ready) /\ q.ready[i - 1] = s.ready[i]
    BY <1>1, <1>4
  <2>2. Queued(q, q.ready[i - 1].id) /\ Ahead(q, q.ready[i - 1].id) = (i - 1) - 1
    BY <1>9, <2>1, PlaceOf, Zenon
  <2> QED BY <1>1, <2>1, <2>2
<1>11. n > 1 => q.ready[1] # s.ready[1]
  BY <1>1, <1>4 DEF SchedulerOK
<1>12. OthersMoveUp(s, q)
  BY <1>1, <1>10, <1>11 DEF OthersMoveUp
<1>13. p = "Pending" => Queued(q, s.ready[1].id)
  BY <1>1, <1>3, <1>4, <1>9, PlaceOf
<1> QED BY <1>2, <1>9, <1>10, <1>12, <1>13

-----------------------------------------------------------------------------
\* The clauses of AuthorityStep, and what a step is shown to do to each part.
ChannelAuthority ==
  \A c \in Channel : /\ sent'[c] # sent[c] => Held(ChannelOf(c), "Write")
                     /\ received'[c] # received[c] => Held(ChannelOf(c), "Read")
DeviceAuthority ==
  /\ \A d \in DeviceId : Len(sources'[d]) > Len(sources[d]) => Held(DeviceOf(d), "Write")
  /\ sched'.next_id > sched.next_id => \E d \in DeviceId : Held(DeviceOf(d), "Read")
PageAuthority ==
  \A b \in Block :
    /\ mapped'[b] > mapped[b] => Held(PageOf(b), "Read") \/ Held(PageOf(b), "Write")
    /\ Logical(memory', b) # Logical(memory, b) => Held(PageOf(b), "Write")

ChannelsStep == ChannelsOK' /\ ChannelAuthority
SchedulerStep == OthersMoveUp(sched, sched') /\ LeavesDrained
TasksStep == TasksOK' /\ DeviceAuthority /\ SchedulerStep
PagesStep == PagesOK' /\ PageAuthority
Step == TokensOK' /\ ChannelsStep /\ TasksStep /\ PagesStep

\* What an action does to the parts it leaves alone.
LEMMA TokensKept ==
  ASSUME Inv, UNCHANGED authority
  PROVE  TokensOK'
BY DEF Inv, TokensOK, authority

LEMMA ChannelsKept ==
  ASSUME Inv, UNCHANGED ipc
  PROVE  ChannelsStep
BY DEF Inv, ChannelsOK, ChannelsAreFifo, InboxOf, ipc, ChannelsStep, ChannelAuthority

\* A task keeps its type while more capabilities are minted.
LEMMA EntriesKept ==
  ASSUME TasksOK, caps \subseteq caps'
  PROVE  SchedulerOK(sched, Entry')
<1>1. Entry \subseteq Entry'
  BY DEF Entry, DriverTask
<1>2. sched.ready \in Seq(Entry')
  BY <1>1, SeqMonotonic DEF TasksOK, SchedulerOK
<1> QED BY <1>2 DEF TasksOK, SchedulerOK

\* A scheduler that is left alone.
LEMMA SchedulerKept ==
  ASSUME TasksOK, sched' = sched
  PROVE  SchedulerStep
<1>1. DOMAIN sched.ready = 1..Len(sched.ready)
  BY LenProperties DEF TasksOK, SchedulerOK
<1>2. SchedulerOK(sched, Entry)
  BY DEF TasksOK
<1>3. OthersMoveUp(sched, sched') /\ \A i \in DOMAIN sched.ready : Queued(sched', sched.ready[i].id)
  BY <1>1, <1>2, IdleFacts
<1> QED BY <1>3 DEF SchedulerStep, LeavesDrained

LEMMA TasksKept ==
  ASSUME Inv, UNCHANGED <<sources, sched>>, caps \subseteq caps'
  PROVE  TasksStep
<1>1. TasksOK'
  BY EntriesKept DEF Inv, TasksOK
<1>2. \A d \in DeviceId : Len(sources[d]) \in Nat
  BY LenProperties DEF Inv, TasksOK
<1>3. sched.next_id \in Nat
  BY DEF Inv, TasksOK, SchedulerOK
<1>4. DeviceAuthority
  BY <1>2, <1>3 DEF DeviceAuthority
<1> QED BY <1>1, <1>4, SchedulerKept DEF Inv, TasksStep

LEMMA PagesKept ==
  ASSUME Inv, UNCHANGED cache
  PROVE  PagesStep
<1>1. memory' = memory /\ mapped' = mapped
  BY DEF cache
<1>2. \A b \in Block : mapped[b] \in Nat
  BY DEF Inv, PagesOK
<1> QED BY <1>1, <1>2 DEF Inv, PagesOK, PagesStep, PageAuthority

-----------------------------------------------------------------------------
LEMMA MintStep ==
  ASSUME Inv, NEW resource, NEW right, Mint(resource, right)
  PROVE  Step
<1> DEFINE cap == Minted(issuer, resource, right)
           n == issuer.next_serial
<1>1. n \in Nat /\ issuer.live \subseteq Nat /\ cap.serial = n
  BY DEF Inv, TokensOK, Minted
<1>2. /\ issuer' = [next_serial |-> n + 1, live |-> issuer.live \cup {n}]
      /\ caps' = caps \cup {cap} /\ revoked' = revoked
  BY DEF Mint, mint
<1> HIDE DEF cap, n
<1>3. issuer'.next_serial = n + 1 /\ issuer'.live = issuer.live \cup {n}
  BY <1>2
<1>4. issuer' \in [next_serial : Nat, live : SUBSET Nat]
  BY <1>1, <1>2
<1>5. \A c \in caps : c.serial \in Nat /\ c.serial < n
  BY DEF Inv, TokensOK, n
<1>6. \A c \in caps' : c.serial \in Nat /\ c.serial < issuer'.next_serial
  BY <1>1, <1>2, <1>3, <1>5
<1>7. \A a, b \in caps' : a.serial = b.serial => a = b
  BY <1>1, <1>2, <1>5 DEF Inv, TokensOK
<1>8. \A c \in revoked' : c.serial \notin issuer'.live
  BY <1>1, <1>2, <1>3, <1>5 DEF Inv, TokensOK
<1>9. revoked' \subseteq caps' /\ caps \subseteq caps'
  BY <1>2 DEF Inv, TokensOK
<1>10. TokensOK'
  BY <1>4, <1>6, <1>7, <1>8, <1>9 DEF TokensOK
<1>11. UNCHANGED <<ipc, sources, sched, cache>>
  BY DEF Mint
<1> QED BY <1>9, <1>10, <1>11, ChannelsKept, TasksKept, PagesKept DEF Step

LEMMA RevokeStep ==
  ASSUME Inv, NEW cap \in caps, Revoke(cap)
  PROVE  Step
<1>1. /\ issuer' = [issuer EXCEPT !.live = @ \ {cap.serial}]
      /\ revoked' = revoked \cup {cap} /\ caps' = caps
  BY DEF Revoke, revoke
<1>2. issuer \in [next_serial : Nat, live : SUBSET Nat]
  BY DEF Inv, TokensOK
<1>3. /\ issuer' \in [next_serial : Nat, live : SUBSET Nat]
      /\ issuer'.next_serial = issuer.next_serial
      /\ issuer'.live = issuer.live \ {cap.serial}
  BY <1>1, <1>2
<1>4. TokensOK'
  BY <1>1, <1>3 DEF Inv, TokensOK
<1>5. UNCHANGED <<ipc, sources, sched, cache>>
  BY DEF Revoke
<1> QED BY <1>1, <1>4, <1>5, ChannelsKept, TasksKept, PagesKept DEF Step

LEMMA RegisterStep ==
  ASSUME Inv, NEW c \in Channel, RegisterChannel(c)
  PROVE  Step
<1>1. UNCHANGED <<authority, sources, sched, cache, sent, received>>
  BY DEF RegisterChannel
<1>2. /\ DOMAIN inboxes' = DOMAIN inboxes \cup {c}
      /\ \A x \in DOMAIN inboxes' :
           inboxes'[x] = IF x \in DOMAIN inboxes THEN inboxes[x] ELSE <<>>
  BY DEF RegisterChannel, register_channel
<1>3. <<>> \in Seq(Payload)
  BY EmptySeq
<1>4. \A x \in Channel : InboxOf(x)' = InboxOf(x)
  BY <1>2 DEF InboxOf
<1>5. ChannelsAreFifo'
  BY <1>1, <1>4, Zenon DEF Inv, ChannelsOK, ChannelsAreFifo
<1>6. ChannelsStep
  BY <1>1, <1>2, <1>3, <1>5, Zenon DEF Inv, ChannelsOK, ChannelsStep, ChannelAuthority
<1>7. caps' = caps
  BY <1>1 DEF authority
<1> QED BY <1>1, <1>6, <1>7, TokensKept, TasksKept, PagesKept DEF Step

\* What send changes, it was authorized to change.
LEMMA SendAuthority ==
  ASSUME Inv, NEW cap \in caps, NEW c, NEW m \in Payload, send(cap, c, m)
  PROVE  ChannelsStep
<1>1. ChannelsOK'
  BY SendKeepsFifo DEF Inv
<1>2. CASE ~MaySend(cap, c)
  BY <1>2, ChannelsKept DEF send
<1>3. CASE MaySend(cap, c)
  <2>1. Held(ChannelOf(c), "Write")
    BY <1>3, AuthorizedIsHeld DEF MaySend, Inv
  <2>2. received' = received /\ sent' = [sent EXCEPT ![c] = Append(@, m)]
    BY <1>3 DEF send
  <2>3. \A x \in Channel : x # c => sent'[x] = sent[x]
    BY <2>2 DEF Inv, ChannelsOK
  <2> QED BY <1>1, <2>1, <2>2, <2>3 DEF ChannelsStep, ChannelAuthority
<1> QED BY <1>2, <1>3

LEMMA SendStep ==
  ASSUME Inv, NEW cap \in caps, NEW c \in Channel, NEW m \in Payload, Send(cap, c, m)
  PROVE  Step
<1>1. UNCHANGED <<authority, sources, sched, cache>> /\ send(cap, c, m)
  BY DEF Send
<1>2. caps' = caps
  BY <1>1 DEF authority
<1> QED BY <1>1, <1>2, SendAuthority, TokensKept, TasksKept, PagesKept DEF Step

LEMMA ReceiveStep ==
  ASSUME Inv, NEW cap \in caps, NEW c \in Channel, Receive(cap, c)
  PROVE  Step
<1>1. /\ inboxes' = [inboxes EXCEPT ![c] = <<>>] /\ c \in DOMAIN inboxes
      /\ received' = [received EXCEPT ![c] = @ \o inboxes[c]]
      /\ UNCHANGED <<authority, sources, sched, cache, sent>>
  BY DEF Receive
<1>2. Held(ChannelOf(c), "Read")
  BY AuthorizedIsHeld DEF Receive, Inv
<1>3. /\ inboxes[c] \in Seq(Payload) /\ received[c] \in Seq(Payload)
      /\ sent[c] = received[c] \o inboxes[c]
  BY <1>1 DEF Inv, ChannelsOK, ChannelsAreFifo, InboxOf
<1>4. sent[c] \in Seq(Payload) /\ <<>> \in Seq(Payload)
  BY EmptySeq DEF Inv, ChannelsOK
<1>5. sent[c] \o <<>> = sent[c]
  BY <1>4, ConcatEmptySeq
<1>6. /\ DOMAIN inboxes' = DOMAIN inboxes /\ inboxes'[c] = <<>>
      /\ \A x \in DOMAIN inboxes : x # c => inboxes'[x] = inboxes[x]
      /\ received'[c] = sent[c]
      /\ \A x \in Channel : x # c => received'[x] = received[x]
      /\ received' \in [Channel -> Seq(Payload)]
  BY <1>1, <1>3, <1>4 DEF Inv, ChannelsOK
<1>7. ChannelsAreFifo'
  BY <1>1, <1>5, <1>6, Zenon DEF Inv, ChannelsOK, ChannelsAreFifo, InboxOf
<1>8. ChannelsOK'
  BY <1>1, <1>4, <1>6, <1>7 DEF Inv, ChannelsOK
<1>9. ChannelsStep
  BY <1>1, <1>2, <1>6, <1>8 DEF ChannelsStep, ChannelAuthority
<1>10. caps' = caps
  BY <1>1 DEF authority
<1> QED BY <1>1, <1>9, <1>10, TokensKept, TasksKept, PagesKept DEF Step

LEMMA InjectStep ==
  ASSUME Inv, NEW cap \in caps, NEW d \in DeviceId, NEW m \in Payload, Inject(cap, d, m)
  PROVE  Step
<1>1. /\ sources' = [sources EXCEPT ![d] = Append(@, m)]
      /\ UNCHANGED <<authority, ipc, sched, cache>>
  BY DEF Inject
<1>2. Held(DeviceOf(d), "Write")
  BY AuthorizedIsHeld, HeldBothWays DEF Inject, Inv
<1>3. sources \in [DeviceId -> Seq(Payload)]
  BY DEF Inv, TasksOK
<1>4. Append(sources[d], m) \in Seq(Payload)
  BY <1>3, AppendProperties
<1>5. sources' \in [DeviceId -> Seq(Payload)] /\ \A x \in DeviceId : x # d => sources'[x] = sources[x]
  BY <1>1, <1>3, <1>4
<1>6. caps' = caps
  BY <1>1 DEF authority
<1>7. SchedulerOK(sched', Entry')
  BY <1>1, <1>6, EntriesKept DEF Inv
<1>8. TasksOK'
  BY <1>5, <1>7 DEF TasksOK
<1>9. sched.next_id \in Nat /\ \A x \in DeviceId : Len(sources[x]) \in Nat
  BY <1>3, LenProperties DEF Inv, TasksOK, SchedulerOK
<1>10. DeviceAuthority
  BY <1>1, <1>2, <1>5, <1>9 DEF DeviceAuthority
<1>11. TasksStep
  BY <1>1, <1>8, <1>10, SchedulerKept DEF Inv, TasksStep
<1> QED BY <1>1, <1>11, TokensKept, ChannelsKept, PagesKept DEF Step

LEMMA StandUpStep ==
  ASSUME Inv, NEW cap \in caps, NEW d \in DeviceId, NEW response_cap \in caps,
         StandUp(cap, d, response_cap)
  PROVE  Step
<1> DEFINE task == [source |-> sources[d], cap |-> response_cap]
<1>1. /\ sched' = IF MayStandUp(cap, d) THEN spawn(sched, task) ELSE sched
      /\ sources' = [sources EXCEPT ![d] = <<>>]
      /\ UNCHANGED <<authority, ipc, cache>>
  BY DEF StandUp
<1>2. sources \in [DeviceId -> Seq(Payload)] /\ SchedulerOK(sched, Entry)
  BY DEF Inv, TasksOK
<1>3. <<>> \in Seq(Payload) /\ Len(<<>>) = 0
  BY EmptySeq
<1>4. /\ sources' \in [DeviceId -> Seq(Payload)]
      /\ \A x \in DeviceId : Len(sources[x]) \in Nat
      /\ \A x \in DeviceId : Len(sources'[x]) \in {0, Len(sources[x])}
  BY <1>1, <1>2, <1>3, LenProperties
<1>5. sched.next_id \in Nat
  BY <1>2 DEF SchedulerOK
<1>6. task \in DriverTask
  BY <1>2 DEF DriverTask
<1>7. [id |-> sched.next_id, task |-> task] \in Entry
  BY <1>5, <1>6 DEF Entry
<1> HIDE DEF task
<1>8. Entry' = Entry
  BY <1>1 DEF authority, Entry, DriverTask
<1>9. DOMAIN sched.ready = 1..Len(sched.ready)
  BY <1>2, LenProperties DEF SchedulerOK
<1>10. CASE MayStandUp(cap, d)
  <2>1. Held(DeviceOf(d), "Read")
    BY <1>10, AuthorizedIsHeld, HeldBothWays DEF MayStandUp, Inv
  <2>2. /\ SchedulerOK(sched', Entry) /\ OthersMoveUp(sched, sched')
        /\ \A i \in DOMAIN sched.ready : Queued(sched', sched.ready[i].id)
    BY <1>1, <1>2, <1>7, <1>9, <1>10, SpawnFacts
  <2>3. TasksOK'
    BY <1>4, <1>8, <2>2 DEF TasksOK
  <2>4. DeviceAuthority
    BY <1>4, <2>1 DEF DeviceAuthority
  <2> QED BY <1>1, <2>2, <2>3, <2>4, TokensKept, ChannelsKept, PagesKept
          DEF Step, TasksStep, SchedulerStep, LeavesDrained
<1>11. CASE ~MayStandUp(cap, d)
  <2>1. sched' = sched
    BY <1>1, <1>11
  <2>2. TasksOK'
    BY <1>2, <1>4, <1>8, <2>1 DEF TasksOK
  <2>3. DeviceAuthority
    BY <1>4, <1>5, <2>1 DEF DeviceAuthority
  <2> QED BY <1>1, <2>1, <2>2, <2>3, SchedulerKept, TokensKept, ChannelsKept, PagesKept
          DEF Inv, Step, TasksStep
<1> QED BY <1>10, <1>11

LEMMA TickStep ==
  ASSUME Inv, Tick
  PROVE  Step
<1> DEFINE task == Current(sched)
           next == [task EXCEPT !.source = Tail(@)]
<1>1. Len(sched.ready) > 0 /\ poll(task) /\ UNCHANGED <<authority, sources, cache>>
  BY DEF Tick, task_count
<1>2. sources \in [DeviceId -> Seq(Payload)] /\ SchedulerOK(sched, Entry)
  BY DEF Inv, TasksOK
<1>3. sched.ready \in Seq(Entry) /\ sched.next_id \in Nat
  BY <1>2 DEF SchedulerOK
<1>4. /\ sched.ready # <<>> /\ Len(sched.ready) \in Nat
      /\ DOMAIN sched.ready = 1..Len(sched.ready)
  BY <1>1, <1>3, EmptySeq, LenProperties
<1>5. Head(sched.ready) \in Entry /\ Head(sched.ready) = sched.ready[1]
  BY <1>3, <1>4, HeadTailProperties
<1>6. /\ task \in DriverTask /\ Head(sched.ready).id \in Nat
      /\ task = sched.ready[1].task
  BY <1>5 DEF Entry, Current
<1>7. task.source \in Seq(Payload) /\ task.cap \in caps
  BY <1>6 DEF DriverTask
<1>8. Entry' = Entry
  BY <1>1 DEF authority, Entry, DriverTask
<1>9. \A d \in DeviceId : Len(sources[d]) \in Nat
  BY <1>2, LenProperties
<1>10. CASE task.source # <<>>
  <2>1. /\ send(task.cap, Response, Head(task.source))
        /\ sched' = tick(sched, next, "Pending")
    BY <1>1, <1>10 DEF poll, handle_interrupt
  <2>2. Head(task.source) \in Payload /\ Tail(task.source) \in Seq(Payload)
    BY <1>7, <1>10, HeadTailProperties
  <2>3. next \in DriverTask
    BY <1>6, <2>2, Zenon DEF DriverTask
  <2>4. Polled(sched, next) \in Entry
    BY <1>6, <2>3 DEF Entry, Polled
  <2>5. Ticked(sched, next, "Pending", sched')
    BY <1>4, <2>1 DEF Ticked
  <2>6. ChannelsStep
    BY <1>7, <2>1, <2>2, SendAuthority
  <2> HIDE DEF next, task
  <2>7. /\ SchedulerOK(sched', Entry) /\ sched'.next_id = sched.next_id
        /\ OthersMoveUp(sched, sched')
        /\ \A i \in 2..Len(sched.ready) : Queued(sched', sched.ready[i].id)
        /\ Queued(sched', sched.ready[1].id)
    BY <1>2, <2>4, <2>5, TickFacts, Zenon
  <2>8. SchedulerStep
    <3>1. \A i \in DOMAIN sched.ready : i = 1 \/ i \in 2..Len(sched.ready)
      BY <1>4
    <3>2. \A i \in DOMAIN sched.ready : Queued(sched', sched.ready[i].id)
      BY <2>7, <3>1, Zenon
    <3> QED BY <2>7, <3>2, Zenon DEF SchedulerStep, LeavesDrained
  <2>9. TasksOK' /\ DeviceAuthority
    BY <1>1, <1>2, <1>3, <1>8, <1>9, <2>7 DEF TasksOK, DeviceAuthority
  <2> QED BY <1>1, <2>6, <2>8, <2>9, TokensKept, PagesKept DEF Step, TasksStep
<1>11. CASE task.source = <<>>
  <2>1. UNCHANGED ipc /\ sched' = tick(sched, task, "Ready")
    BY <1>1, <1>11 DEF poll
  <2>2. Polled(sched, task) \in Entry /\ Ticked(sched, task, "Ready", sched')
    BY <1>4, <1>6, <2>1 DEF Entry, Polled, Ticked
  <2> HIDE DEF task
  <2>3. /\ SchedulerOK(sched', Entry) /\ sched'.next_id = sched.next_id
        /\ OthersMoveUp(sched, sched')
        /\ \A i \in 2..Len(sched.ready) : Queued(sched', sched.ready[i].id)
    BY <1>2, <2>2, TickFacts, Zenon
  <2>4. SchedulerStep
    <3>1. \A i \in DOMAIN sched.ready : i = 1 \/ i \in 2..Len(sched.ready)
      BY <1>4
    <3>2. sched.ready[1].task.source = <<>>
      BY <1>6, <1>11, Zenon
    <3> QED BY <2>3, <3>1, <3>2, Zenon DEF SchedulerStep, LeavesDrained
  <2>5. TasksOK' /\ DeviceAuthority
    BY <1>1, <1>2, <1>3, <1>8, <1>9, <2>3 DEF TasksOK, DeviceAuthority
  <2> QED BY <1>1, <2>1, <2>4, <2>5, TokensKept, ChannelsKept, PagesKept DEF Step, TasksStep
<1> QED BY <1>10, <1>11

LEMMA MapReadStep ==
  ASSUME Inv, NEW cap \in caps, NEW b \in Block, MapRead(cap, b)
  PROVE  Step
<1> DEFINE r == fetch(memory, b, "ok", "ok")
<1>1. /\ memory' = r.pool
      /\ mapped' = [mapped EXCEPT ![b] = IF r.ok THEN @ + 1 ELSE @]
      /\ UNCHANGED <<authority, ipc, sources, sched>>
  BY DEF MapRead
<1>2. WellFormed(memory) /\ mapped \in [Block -> Nat]
  BY DEF Inv, PagesOK
<1>3. WellFormed(r.pool) /\ SameImages(memory, r.pool)
  BY <1>2, FetchFacts, Zenon
<1>4. Held(PageOf(b), "Read")
  BY AuthorizedIsHeld DEF MapRead, Inv
<1> HIDE DEF r
<1>5. mapped' \in [Block -> Nat] /\ \A x \in Block : x # b => mapped'[x] = mapped[x]
  BY <1>1, <1>2
<1>8. \A x \in Block : Pins(memory', x) = mapped'[x]
  <2>1. Fetched(memory, r, b)
    BY <1>2, FetchLedger DEF r
  <2>2. \A x \in Block : Pins(memory, x) = mapped[x]
    BY DEF Inv, PagesOK
  <2> QED BY <1>1, <1>2, <2>1, <2>2 DEF Fetched, Repinned
<1>6. PagesStep
  BY <1>1, <1>2, <1>3, <1>4, <1>5, <1>8 DEF PagesStep, PagesOK, PageAuthority, SameImages
<1>7. caps' = caps
  BY <1>1 DEF authority
<1> QED BY <1>1, <1>6, <1>7, TokensKept, ChannelsKept, TasksKept DEF Step

LEMMA MapWriteStep ==
  ASSUME Inv, NEW cap \in caps, NEW b \in Block, NEW pg \in Page, MapWrite(cap, b, pg)
  PROVE  Step
<1> DEFINE r == fetch_mut(memory, b, "ok", "ok")
           q == StoreThrough(r, pg)
<1>1. /\ memory' = q
      /\ mapped' = [mapped EXCEPT ![b] = IF r.ok THEN @ + 1 ELSE @]
      /\ UNCHANGED <<authority, ipc, sources, sched>>
  BY DEF MapWrite, StoreThrough
<1>2. WellFormed(memory) /\ mapped \in [Block -> Nat]
  BY DEF Inv, PagesOK
<1>3. /\ WellFormed(q)
      /\ \A c \in Block : c # b => Logical(q, c) = Logical(memory, c)
  <2>1. /\ WellFormed(q)
        /\ r.ok \in BOOLEAN
        /\ r.ok => \A c \in Block : Logical(q, c) = IF c = b THEN pg ELSE Logical(memory, c)
        /\ ~r.ok => SameImages(memory, q)
    BY <1>2, FetchMutFacts, Zenon
  <2> HIDE DEF r, q
  <2> QED BY <2>1 DEF SameImages
<1>4. Held(PageOf(b), "Write")
  BY AuthorizedIsHeld DEF MapWrite, Inv
<1> HIDE DEF r, q
<1>5. mapped' \in [Block -> Nat] /\ \A x \in Block : x # b => mapped'[x] = mapped[x]
  BY <1>1, <1>2
<1>8. \A x \in Block : Pins(memory', x) = mapped'[x]
  <2>1. FetchedMut(memory, q, b, r.ok)
    BY <1>2, FetchMutLedger DEF r, q
  <2>2. \A x \in Block : Pins(memory, x) = mapped[x]
    BY DEF Inv, PagesOK
  <2> QED BY <1>1, <1>2, <2>1, <2>2 DEF FetchedMut, Repinned
<1>6. PagesStep
  BY <1>1, <1>2, <1>3, <1>4, <1>5, <1>8 DEF PagesStep, PagesOK, PageAuthority
<1>7. caps' = caps
  BY <1>1 DEF authority
<1> QED BY <1>1, <1>6, <1>7, TokensKept, ChannelsKept, TasksKept DEF Step

LEMMA UnmapStep ==
  ASSUME Inv, NEW b \in Block, Unmap(b)
  PROVE  Step
<1>1. /\ memory' = unpin(memory, b) /\ mapped[b] > 0
      /\ mapped' = [mapped EXCEPT ![b] = @ - 1]
      /\ UNCHANGED <<authority, ipc, sources, sched>>
  BY DEF Unmap
<1>2. WellFormed(memory) /\ mapped \in [Block -> Nat]
  BY DEF Inv, PagesOK
<1>3. WellFormed(memory') /\ SameImages(memory, memory')
  BY <1>1, <1>2, UnpinFacts
<1>4. /\ mapped' \in [Block -> Nat]
      /\ \A x \in Block : mapped[x] \in Nat /\ mapped'[x] <= mapped[x]
  BY <1>1, <1>2
<1>7. \A x \in Block : Pins(memory', x) = mapped'[x]
  <2>1. Repinned(memory, memory', b, IF Pins(memory, b) > 0 THEN Pins(memory, b) - 1 ELSE 0)
    BY <1>1, <1>2, UnpinLedger
  <2>2. \A x \in Block : Pins(memory, x) = mapped[x]
    BY DEF Inv, PagesOK
  <2> QED BY <1>1, <1>2, <2>1, <2>2 DEF Repinned
<1>5. PagesStep
  BY <1>3, <1>4, <1>7 DEF PagesStep, PagesOK, PageAuthority, SameImages
<1>6. caps' = caps
  BY <1>1 DEF authority
<1> QED BY <1>1, <1>5, <1>6, TokensKept, ChannelsKept, TasksKept DEF Step

-----------------------------------------------------------------------------
LEMMA InitInv == Init => Inv
<1> SUFFICES ASSUME Init PROVE Inv
  OBVIOUS
<1>1. <<>> \in Seq(Payload) /\ <<>> \in Seq(Entry) /\ Len(<<>>) = 0 /\ DOMAIN <<>> = {}
  BY EmptySeq
<1>2. TokensOK
  BY DEF Init, NewIssuer, TokensOK
<1>3. <<>> \o <<>> = <<>>
  BY <1>1, ConcatEmptySeq
<1>4. ChannelsOK
  BY <1>1, <1>3, Zenon DEF Init, ChannelsOK, ChannelsAreFifo, InboxOf
<1>5. sched.ready = <<>> /\ sched.next_id = 0 /\ sched = [ready |-> <<>>, next_id |-> 0]
  BY DEF Init, NewScheduler
<1>6. sched \in [ready : Seq(Entry), next_id : Nat]
  BY <1>1, <1>5
<1>7. SchedulerOK(sched, Entry)
  BY <1>1, <1>5, <1>6 DEF SchedulerOK
<1>8. sources \in [DeviceId -> Seq(Payload)]
  BY <1>1 DEF Init
<1>9. WellFormed(memory) /\ \A b \in Block : Pins(memory, b) = 0
  <2> DEFINE device == [b \in Block |-> Zeroed]
  <2>1. memory = [device |-> device, frames |-> <<>>, lru |-> <<>>, steal |-> TRUE]
    BY Zenon DEF Init, new
  <2>2. device \in Device
    BY ZeroedAssumption DEF Device, Content
  <2> HIDE DEF device
  <2>3. memory \in Pool /\ memory.frames = <<>> /\ memory.lru = <<>>
    BY <2>1, <2>2, EmptySeq DEF Pool
  <2> QED BY <2>3, EmptyPoolFacts
<1>10. mapped \in [Block -> Nat] /\ \A b \in Block : mapped[b] = 0
  BY DEF Init
<1> QED BY <1>2, <1>4, <1>7, <1>8, <1>9, <1>10 DEF Inv, TasksOK, PagesOK

\* Every action does what Step says.
LEMMA NextStep ==
  ASSUME Inv, Next
  PROVE  Step
<1>1. CASE \E g \in Grantable : Mint(g[1], g[2])
  BY <1>1, MintStep
<1>2. CASE \E cap \in caps : Revoke(cap)
  BY <1>2, RevokeStep
<1>3. CASE \E c \in Channel : RegisterChannel(c)
  BY <1>3, RegisterStep
<1>4. CASE \E cap \in caps, c \in Channel, m \in Payload : Send(cap, c, m)
  BY <1>4, SendStep
<1>5. CASE \E cap \in caps, c \in Channel : Receive(cap, c)
  BY <1>5, ReceiveStep
<1>6. CASE \E cap \in caps, d \in DeviceId, m \in Payload : Inject(cap, d, m)
  BY <1>6, InjectStep
<1>7. CASE \E cap, response_cap \in caps, d \in DeviceId : StandUp(cap, d, response_cap)
  BY <1>7, StandUpStep
<1>8. CASE Tick
  BY <1>8, TickStep
<1>9. CASE \E cap \in caps, b \in Block : MapRead(cap, b)
  BY <1>9, MapReadStep
<1>10. CASE \E cap \in caps, b \in Block, pg \in Page : MapWrite(cap, b, pg)
  BY <1>10, MapWriteStep
<1>11. CASE \E b \in Block : Unmap(b)
  BY <1>11, UnmapStep
<1> QED BY <1>1, <1>2, <1>3, <1>4, <1>5, <1>6, <1>7, <1>8, <1>9, <1>10, <1>11 DEF Next

\* The invariant is inductive.
THEOREM Invariance == Spec => []Inv
<1>1. Inv /\ [Next]_vars => Inv'
  <2> SUFFICES ASSUME Inv, [Next]_vars PROVE Inv'
    OBVIOUS
  <2>1. CASE Next
    BY <2>1, NextStep DEF Step, ChannelsStep, TasksStep, PagesStep, Inv
  <2>2. CASE UNCHANGED vars
    <3>1. UNCHANGED <<authority, ipc, sources, sched, cache>> /\ caps' = caps
      BY <2>2 DEF vars, authority, ipc, cache
    <3> QED BY <3>1, TokensKept, ChannelsKept, TasksKept, PagesKept
            DEF ChannelsStep, TasksStep, PagesStep, Inv
  <2> QED BY <2>1, <2>2
<1> QED BY <1>1, InitInv, PTL DEF Spec

\* Channels lose, duplicate and reorder nothing (ipc.rs), with any number of
\* senders, receivers and registrations.
THEOREM ChannelsFifo == Spec => []ChannelsAreFifo
<1>1. Inv => ChannelsAreFifo
  BY DEF Inv, ChannelsOK
<1> QED BY <1>1, Invariance, PTL

\* Nothing is sent, received, injected, stood up, lent or written without an
\* unrevoked capability for it (capability.rs), however many are minted.
THEOREM AuthorityHolds == Spec => NoAmbientAuthority
<1>1. Inv /\ [Next]_vars => [AuthorityStep]_vars
  BY NextStep, Zenon DEF Step, ChannelsStep, TasksStep, PagesStep,
                  ChannelAuthority, DeviceAuthority, PageAuthority, AuthorityStep
<1> QED BY <1>1, Invariance, PTL DEF Spec, NoAmbientAuthority

\* A poll brings every other task one place closer to its own, and nothing sets
\* one back (scheduler.rs), with any number of tasks.
THEOREM RoundRobinHolds == Spec => RoundRobin
<1>1. Inv /\ [Next]_vars => [OthersMoveUp(sched, sched')]_vars
  BY NextStep DEF Step, TasksStep, SchedulerStep
<1> QED BY <1>1, Invariance, PTL DEF Spec, RoundRobin

\* A driver task leaves the scheduler only with its source drained (driver.rs),
\* whatever becomes of its capability.
THEOREM DriversDrain == Spec => DriversDrainTheirSource
<1>1. Inv /\ [Next]_vars => [LeavesDrained]_vars
  BY NextStep DEF Step, TasksStep, SchedulerStep
<1> QED BY <1>1, Invariance, PTL DEF Spec, DriversDrainTheirSource

\* A page that is lent out stays resident, with one pin for each mapping of it
\* (page_cache.rs), however many holders map and release it and others.
THEOREM MappedPagesAreStable == Spec => []MappedPagesStay
<1>1. Inv => MappedPagesStay
  <2> SUFFICES ASSUME Inv, NEW b \in Block, mapped[b] > 0
               PROVE  \E i \in Holding(memory, b) : memory.frames[i].pins = mapped[b]
    BY DEF MappedPagesStay
  <2>1. WellFormed(memory) /\ Pins(memory, b) > 0 /\ Pins(memory, b) = mapped[b]
    BY DEF Inv, PagesOK
  <2>2. Holding(memory, b) # {}
    BY <2>1 DEF Pins
  <2>3. find(memory, b) \in DOMAIN memory.frames /\ memory.frames[find(memory, b)].block = b
    BY <2>1, <2>2, FindFacts DEF WellFormed
  <2>4. memory.frames[find(memory, b)].pins = mapped[b]
    BY <2>1, <2>2 DEF Pins
  <2> QED BY <2>3, <2>4 DEF Holding
<1> QED BY <1>1, Invariance, PTL
=============================================================================
