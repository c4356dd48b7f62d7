------------------------------ MODULE Pipeline ------------------------------
(***************************************************************************)
(* The engine's data path (src/engine.rs): inputs send events through a    *)
(* channel bounded by a byte budget, the pipeline transforms each and      *)
(* fans it out to one router per destination, the router pushes it into    *)
(* the destination's queue, and a worker (src/outputs/worker.rs) empties   *)
(* the queue and reports the destination's health, which decides whether   *)
(* a standby receives anything.  Every task runs on its own; cancelling    *)
(* stops them in no fixed order.  The queue is its promise here, one       *)
(* bounded sequence: DiskQueue has its files.                              *)
(***************************************************************************)
EXTENDS Naturals, Sequences, FiniteSets

CONSTANTS
  Senders,           (* inputs that await (EventSender::send)              *)
  BlockingSenders,   (* inputs on a thread (EventSender::blocking_send)    *)
  Events,            (* numbered; each input reads its own in this order   *)
  Reader,            (* [Events -> the input that reads it]                *)
  Size,              (* [Events -> permits an event costs]                 *)
  Dests,             (* outputs                                            *)
  Order,             (* the same, in the order of the configuration        *)
  Setups,            (* configurations: the events the transformer cuts;   *)
                     (* the events a queue has room for; per output those  *)
                     (* its `when` accepts, its full policy, and the       *)
                     (* primary it stands by for                           *)
  None,
  Budget,            (* CHANNEL_BYTES                                      *)
  ChannelCapacity, RouterCapacity,
  UnhealthyAfter,
  MaxFaults          (* bound: writes to a queue that fail                 *)

In(s) == {s[i] : i \in DOMAIN s}
Distinct(s) == \A i, j \in DOMAIN s : s[i] = s[j] => i = j

AllSenders == Senders \cup BlockingSenders
Policies == {"block", "drop_oldest", "drop_newest"}

ASSUME SendersAssumption == Senders \cap BlockingSenders = {}
ASSUME EventsAssumption ==
  /\ IsFiniteSet(Events) /\ Events = 1..Cardinality(Events) /\ None \notin Events
  /\ Size \in [Events -> 1..Budget] /\ Reader \in [Events -> AllSenders]
ASSUME DestsAssumption ==
  /\ IsFiniteSet(Dests) /\ None \notin Dests
  /\ Order \in Seq(Dests) /\ In(Order) = Dests /\ Distinct(Order)
  /\ Setups \subseteq [cut : SUBSET Events, capacity : Nat \ {0},
                       when : [Dests -> SUBSET Events], policy : [Dests -> Policies],
                       failover_for : [Dests -> Dests \cup {None}]]
ASSUME CapacitiesAssumption ==
  /\ {Budget, ChannelCapacity, RouterCapacity, UnhealthyAfter} \subseteq Nat \ {0}
  /\ MaxFaults \in Nat

VARIABLES
  conf,        (* the configuration the engine was built with              *)
  cancelled,
  sender,      (* what each input does: [pc, ev, paid]                     *)
  waiters,     (* async senders waiting for permits, first come first      *)
  permits,     (* of the semaphore                                         *)
  gauge,       (* metrics.channel_bytes                                    *)
  channel,     (* the input channel                                        *)
  pipeline, handling, todo,   (* run_pipeline: phase, event, routers left  *)
  router,      (* [Dests -> the router's channel, with the event that it   *)
               (* has in hand]                                             *)
  queue,       (* [Dests -> events in the persistent queue]                *)
  failures, healthy,          (* StatusRegistry, per destination           *)
  dropped,     (* metrics.events_dropped                                   *)
  \* for the properties
  fate,        (* [Events -> [Dests -> what became of it there]]           *)
  accepted,    (* events whose send returned Ok                            *)
  early,       (* those of them accepted before the cancellation           *)
  gone,        (* those that were dropped with the channel                 *)
  overcounted, (* <<event, destination>> that a failed push counted as     *)
               (* dropped and left in the queue                            *)
  faults

inputv == <<sender, waiters>>
channelv == <<permits, gauge, channel>>
pipelinev == <<pipeline, handling, todo>>
destv == <<router, queue>>
healthv == <<failures, healthy>>
entryv == <<accepted, early>>
faultv == <<faults, overcounted>>
vars == <<conf, cancelled, inputv, channelv, pipelinev, destv, healthv, dropped, fate, entryv,
          gone, faultv>>

QueueCapacity == conf.capacity

Fates == {"none", "cut", "filtered", "withheld", "stored", "lost", "destroyed", "delivered"}

TypeOK ==
  /\ conf \in Setups /\ cancelled \in BOOLEAN
  /\ sender \in [AllSenders -> [pc : {"idle", "acquire", "sending", "ended"},
                                ev : Events \cup {None}, paid : BOOLEAN]]
  /\ waiters \in Seq(Senders)
  /\ permits \in Nat /\ gauge \in Nat
  /\ channel \in Seq(Events) /\ Len(channel) <= ChannelCapacity
  /\ pipeline \in {"running", "drain", "closing", "done"}
  /\ handling \in Events \cup {None} /\ todo \in Seq(Dests)
  /\ router \in [Dests -> Seq(Events)] /\ \A d \in Dests : Len(router[d]) <= RouterCapacity
  /\ queue \in [Dests -> Seq(Events)] /\ \A d \in Dests : Len(queue[d]) <= QueueCapacity
  /\ failures \in [Dests -> 0..UnhealthyAfter] /\ healthy \in [Dests -> BOOLEAN]
  /\ dropped \in Nat
  /\ fate \in [Events -> [Dests -> Fates]]
  /\ early \subseteq accepted /\ accepted \subseteq Events
  /\ gone \subseteq accepted
  /\ overcounted \subseteq Events \X Dests /\ faults \in 0..MaxFaults

----------------------------------------------------------------------------
Idle == [pc |-> "idle", ev |-> None, paid |-> FALSE]

Init ==
  /\ conf \in Setups /\ cancelled = FALSE
  /\ sender = [p \in AllSenders |-> Idle] /\ waiters = <<>>
  /\ permits = Budget /\ gauge = 0 /\ channel = <<>>
  /\ pipeline = "running" /\ handling = None /\ todo = <<>>
  /\ router = [d \in Dests |-> <<>>]
  /\ queue = [d \in Dests |-> <<>>]
  /\ failures = [d \in Dests |-> 0] /\ healthy = [d \in Dests |-> TRUE]
  /\ dropped = 0
  /\ fate = [e \in Events |-> [d \in Dests |-> "none"]]
  /\ accepted = {} /\ early = {} /\ gone = {}
  /\ overcounted = {} /\ faults = 0

----------------------------------------------------------------------------
(* EventSender::send and blocking_send.                                    *)

Seen == accepted \cup ({sender[p].ev : p \in AllSenders} \ {None})
NextOf(p, e) ==
  Reader[e] = p /\ e \notin Seen /\ \A f \in 1..(e - 1) : Reader[f] = p => f \in Seen

(* An input has an event: it asks for its permits.                         *)
Read(p) ==
  /\ sender[p].pc = "idle"
  /\ \E e \in Events :
       /\ NextOf(p, e)
       /\ sender' = [sender EXCEPT ![p] = [pc |-> "acquire", ev |-> e, paid |-> FALSE]]
  /\ waiters' = IF p \in Senders THEN Append(waiters, p) ELSE waiters
  /\ UNCHANGED <<conf, cancelled, channelv, pipelinev, destv, healthv, dropped, fate, entryv,
                 gone, faultv>>

Cost(p) == Size[sender[p].ev]

(* The gauge is credited before the event can be taken out again.          *)
Admit(p, paid) ==
  /\ sender' = [sender EXCEPT ![p].pc = "sending", ![p].paid = paid]
  /\ gauge' = gauge + Cost(p)
  /\ permits' = IF paid THEN permits - Cost(p) ELSE permits

(* The semaphore is fair to those who await it.                            *)
Acquire(p) ==
  /\ waiters # <<>> /\ p = Head(waiters) /\ permits >= Cost(p)
  /\ waiters' = Tail(waiters)
  /\ Admit(p, TRUE)
  /\ UNCHANGED <<conf, cancelled, channel, pipelinev, destv, healthv, dropped, fate, entryv,
                 gone, faultv>>

(* A thread only tries, between sleeps: whoever awaits comes first.        *)
TryAcquire(p) ==
  /\ p \in BlockingSenders /\ sender[p].pc = "acquire"
  /\ waiters = <<>> /\ permits >= Cost(p)
  /\ Admit(p, TRUE)
  /\ UNCHANGED <<conf, cancelled, waiters, channel, pipelinev, destv, healthv, dropped, fate,
                 entryv, gone, faultv>>

GoesWithout(p) ==
  /\ p \in BlockingSenders /\ sender[p].pc = "acquire" /\ cancelled
  /\ ~(waiters = <<>> /\ permits >= Cost(p))
  /\ Admit(p, FALSE)
  /\ UNCHANGED <<conf, cancelled, waiters, channel, pipelinev, destv, healthv, dropped, fate,
                 entryv, gone, faultv>>

(* Variant: the permit of a queued event goes back at once.                *)
ReleasedOnSend(p) == permits + Cost(p)

(* tx.send: Ok once the channel has room; the permit is then forgotten,    *)
(* for whoever takes the event out to give back.                           *)
HeldAfterSend(p) == permits
PermitsBack(p) == permits + (IF sender[p].paid THEN Cost(p) ELSE 0)

Send(p) ==
  /\ sender[p].pc = "sending" /\ pipeline # "done" /\ Len(channel) < ChannelCapacity
  /\ channel' = Append(channel, sender[p].ev)
  /\ permits' = HeldAfterSend(p)
  /\ accepted' = accepted \cup {sender[p].ev}
  /\ early' = IF cancelled THEN early ELSE early \cup {sender[p].ev}
  /\ sender' = [sender EXCEPT ![p] = Idle]
  /\ UNCHANGED <<conf, cancelled, waiters, gauge, pipelinev, destv, healthv, dropped, fate,
                 gone, faultv>>

(* The receiver is gone: the permit drops, the gauge is undone, the input  *)
(* ends.                                                                   *)
SendFails(p) ==
  /\ sender[p].pc = "sending" /\ pipeline = "done"
  /\ permits' = PermitsBack(p)
  /\ gauge' = gauge - Cost(p)
  /\ sender' = [sender EXCEPT ![p].pc = "ended"]
  /\ UNCHANGED <<conf, cancelled, waiters, channel, pipelinev, destv, healthv, dropped, fate,
                 entryv, gone, faultv>>

----------------------------------------------------------------------------
(* run_pipeline and route_event.                                           *)

(* ChannelBudget::release: the raw event's size, before it is transformed. *)
Released(e) == Size[e]

Take ==
  /\ pipeline \in {"running", "drain"} /\ handling = None /\ channel # <<>>
  /\ LET e == Head(channel) IN
       /\ channel' = Tail(channel)
       /\ permits' = permits + Released(e)
       /\ gauge' = gauge - (IF Released(e) < gauge THEN Released(e) ELSE gauge)
       /\ IF e \in conf.cut
            THEN /\ fate' = [fate EXCEPT ![e] = [d \in Dests |-> "cut"]]
                 /\ dropped' = dropped + 1
                 /\ UNCHANGED <<handling, todo>>
            ELSE /\ todo' = Order
                 /\ handling' = IF Order = <<>> THEN None ELSE e
                 /\ UNCHANGED <<fate, dropped>>
  /\ UNCHANGED <<conf, cancelled, inputv, pipeline, destv, healthv, entryv, gone, faultv>>

Standby(d) == conf.failover_for[d] # None /\ healthy[conf.failover_for[d]]

Advance == todo' = Tail(todo) /\ handling' = IF Len(todo) = 1 THEN None ELSE handling
Becomes(d, f) == fate' = [fate EXCEPT ![handling][d] = f]

Skip ==
  /\ handling # None
  /\ LET d == Head(todo) IN
       \/ Standby(d) /\ Becomes(d, "withheld")
       \/ ~Standby(d) /\ handling \notin conf.when[d] /\ Becomes(d, "filtered")
  /\ Advance
  /\ UNCHANGED <<conf, cancelled, inputv, channelv, pipeline, destv, healthv, dropped, entryv,
                 gone, faultv>>

Offered(d) == handling # None /\ d = Head(todo) /\ ~Standby(d) /\ handling \in conf.when[d]

Room(d) == Len(router[d]) < RouterCapacity

Route ==
  /\ \E d \in Dests :
       /\ Offered(d) /\ Room(d)
       /\ router' = [router EXCEPT ![d] = Append(@, handling)]
  /\ Advance
  /\ UNCHANGED <<conf, cancelled, inputv, channelv, pipeline, queue, healthv, dropped,
                 fate, entryv, gone, faultv>>

(* Variant: a full router is waited for.                                   *)
WaitsAlways == FALSE

(* try_send: a full router costs its own destination the event, and nobody *)
(* a wait.  Only the drain waits.                                          *)
NeverWaits == pipeline = "running"

Shed ==
  /\ \E d \in Dests : Offered(d) /\ ~Room(d) /\ Becomes(d, "lost")
  /\ NeverWaits
  /\ dropped' = dropped + 1
  /\ Advance
  /\ UNCHANGED <<conf, cancelled, inputv, channelv, pipeline, destv, healthv, entryv, gone,
                 faultv>>

(* Variant: the pipeline ends without a drain.                             *)
LeavesAtOnce == "closing"

(* The cancellation is noticed between two events; or every input ended,   *)
(* as it does when it is cancelled and has nothing to send.                *)
DrainsFirst == "drain"

StartDrain ==
  /\ pipeline = "running" /\ handling = None /\ cancelled
  /\ pipeline' = DrainsFirst
  /\ UNCHANGED <<conf, cancelled, inputv, channelv, handling, todo, destv, healthv, dropped,
                 fate, entryv, gone, faultv>>

Drained ==
  /\ pipeline = "drain" /\ handling = None /\ channel = <<>>
  /\ pipeline' = "closing"
  /\ UNCHANGED <<conf, cancelled, inputv, channelv, handling, todo, destv, healthv, dropped,
                 fate, entryv, gone, faultv>>

(* The receiver is dropped, with what was sent since try_recv found        *)
(* nothing: neither routed nor counted, and its permits never come back.   *)
Return ==
  /\ \/ pipeline = "closing"
     \/ /\ pipeline = "running" /\ handling = None /\ channel = <<>>
        /\ cancelled /\ \A p \in AllSenders : sender[p].pc \in {"idle", "ended"}
  /\ pipeline' = "done"
  /\ gone' = gone \cup In(channel) /\ channel' = <<>>
  /\ UNCHANGED <<conf, cancelled, inputv, permits, gauge, handling, todo, destv, healthv,
                 dropped, fate, entryv, faultv>>

----------------------------------------------------------------------------
(* run_router.                                                             *)

Pushes(d) == router[d] # <<>>

Pushed(d, f) ==
  /\ fate' = [fate EXCEPT ![Head(router[d])][d] = f]
  /\ router' = [router EXCEPT ![d] = Tail(@)]
  /\ UNCHANGED <<conf, cancelled, inputv, channelv, pipelinev, healthv, entryv, gone>>

Store(d) ==
  /\ Pushes(d) /\ Len(queue[d]) < QueueCapacity
  /\ queue' = [queue EXCEPT ![d] = Append(@, Head(router[d]))]
  /\ Pushed(d, "stored")
  /\ UNCHANGED <<dropped, faultv>>

Counted == dropped + 1

(* drop_oldest: the oldest makes room, and counts as dropped.              *)
Evict(d) ==
  /\ Pushes(d) /\ Len(queue[d]) = QueueCapacity
  /\ conf.policy[d] = "drop_oldest"
  /\ queue' = [queue EXCEPT ![d] = Append(Tail(@), Head(router[d]))]
  /\ fate' = [fate EXCEPT ![Head(queue[d])][d] = "lost", ![Head(router[d])][d] = "stored"]
  /\ router' = [router EXCEPT ![d] = Tail(@)]
  /\ dropped' = Counted
  /\ UNCHANGED <<conf, cancelled, inputv, channelv, pipelinev, healthv, entryv, gone,
                 faultv>>

(* Variant: block waits for room and nothing else.                         *)
WaitsForRoomOnly == FALSE

(* drop_newest; block, which waits for room until it is cancelled; and a   *)
(* write that fails.                                                       *)
StopsWaiting == cancelled

Refuse(d) ==
  /\ Pushes(d) /\ Len(queue[d]) = QueueCapacity
  /\ \/ conf.policy[d] = "drop_newest"
     \/ conf.policy[d] = "block" /\ StopsWaiting
  /\ Pushed(d, "lost")
  /\ dropped' = dropped + 1
  /\ UNCHANGED <<queue, faultv>>

(* DiskQueue::push returns an error: the record could not be written, and  *)
(* with it go the last records before it that were still in the writer's   *)
(* buffer (reconcile_write_segment); or it was written, and the segment    *)
(* could not be rolled after it.  What drop_oldest had evicted before that *)
(* is gone, and its number with the error.                                 *)
EvictsFirst(d) == conf.policy[d] = "drop_oldest" /\ Len(queue[d]) = QueueCapacity

Left(d) ==
  {SubSeq(queue[d], i, n) : i \in 1..(IF EvictsFirst(d) THEN 2 ELSE 1), n \in 0..Len(queue[d])}

LeftWhole(d) == IF EvictsFirst(d) THEN Tail(queue[d]) ELSE queue[d]

(* In the queue there is left what is left, and the event in hand gets f.  *)
Ruins(d, left, f) ==
  fate' = [e \in Events |-> [fate[e] EXCEPT ![d] =
             CASE e = Head(router[d])            -> f
               [] e \in In(queue[d]) \ In(left)  -> "destroyed"
               [] OTHER                          -> @]]

WriteFails(d) ==
  /\ \E left \in Left(d) :
       queue' = [queue EXCEPT ![d] = left] /\ Ruins(d, left, "lost")
  /\ UNCHANGED overcounted

RollFails(d) ==
  /\ queue' = [queue EXCEPT ![d] = Append(LeftWhole(d), Head(router[d]))]
  /\ Ruins(d, LeftWhole(d), "stored")
  /\ overcounted' = overcounted \cup {<<Head(router[d]), d>>}

PushFails(d) ==
  /\ Pushes(d) /\ (Len(queue[d]) < QueueCapacity \/ EvictsFirst(d))
  /\ faults < MaxFaults /\ faults' = faults + 1
  /\ WriteFails(d) \/ RollFails(d)
  /\ router' = [router EXCEPT ![d] = Tail(@)]
  /\ dropped' = Counted
  /\ UNCHANGED <<conf, cancelled, inputv, channelv, pipelinev, healthv, entryv, gone>>

----------------------------------------------------------------------------
(* The worker: a batch is accepted, or fails and is tried again.  Stopped, *)
(* it tries once more (DiskQueue).                                         *)

Healthy(n) == n < UnhealthyAfter

Sent(d) ==
  /\ queue' = [queue EXCEPT ![d] = <<>>]
  /\ fate' = [e \in Events |->
                [fate[e] EXCEPT ![d] = IF e \in In(queue[d]) THEN "delivered" ELSE @]]

Deliver(d) ==
  /\ queue[d] # <<>>
  /\ Sent(d)
  /\ failures' = [failures EXCEPT ![d] = 0]
  /\ healthy' = [healthy EXCEPT ![d] = TRUE]
  /\ UNCHANGED <<conf, cancelled, inputv, channelv, pipelinev, router, dropped,
                 entryv, gone, faultv>>

DeliveryFails(d) ==
  /\ queue[d] # <<>> /\ failures[d] < UnhealthyAfter
  /\ failures' = [failures EXCEPT ![d] = @ + 1]
  /\ healthy' = [healthy EXCEPT ![d] = Healthy(failures'[d])]
  /\ UNCHANGED <<conf, cancelled, inputv, channelv, pipelinev, destv, dropped, fate,
                 entryv, gone, faultv>>

----------------------------------------------------------------------------
(* Engine::stop.                                                           *)
Cancel ==
  /\ ~cancelled /\ cancelled' = TRUE
  /\ UNCHANGED <<conf, inputv, channelv, pipelinev, destv, healthv, dropped, fate, entryv, gone,
                 faultv>>

Sending(p) == Acquire(p) \/ TryAcquire(p) \/ GoesWithout(p) \/ Send(p) \/ SendFails(p)
Piping == Take \/ Skip \/ Route \/ Shed \/ StartDrain \/ Drained \/ Return
Routing(d) == Store(d) \/ Evict(d) \/ Refuse(d)

Next ==
  \/ \E p \in AllSenders : Read(p) \/ Sending(p)
  \/ Piping
  \/ \E d \in Dests : \/ Routing(d) \/ PushFails(d)
                      \/ Deliver(d) \/ DeliveryFails(d)
  \/ Cancel

Spec == Init /\ [][Next]_vars

(* The tasks run when they can.  Nothing is assumed of a destination: a    *)
(* worker may sit in a send for ever.                                      *)
FairSpec ==
  /\ Spec
  /\ WF_vars(Piping)
  /\ \A p \in AllSenders : WF_vars(Sending(p))
  /\ \A d \in Dests : WF_vars(Routing(d))

----------------------------------------------------------------------------
Bytes(S) == Cardinality(UNION {{e} \X (1..Size[e]) : e \in S})
Holding == {p \in AllSenders : sender[p].pc = "sending"}

(* The byte budget neither leaks nor grows while the engine runs: permits  *)
(* are with the semaphore, with an event in the channel, or with the       *)
(* sender that is putting it there (EventSender, ChannelBudget::release),  *)
(* and the gauge of /metrics shows the same bytes.                         *)
BudgetConserved ==
  LET inside == In(channel) \cup {sender[p].ev : p \in Holding} IN
    pipeline # "done" =>
      /\ gauge = Bytes(inside)
      /\ ~cancelled => permits + Bytes(inside) = Budget

(* Every event that was accepted is, for each destination, in exactly one  *)
(* place, or its fate is known.  Shedding, eviction and refusal are each   *)
(* counted in events_dropped, once (run_router, route_event); a push that  *)
(* fails counts its own event, which may be in the queue all the same, and *)
(* only such a push destroys events that nobody counts.  What was in the   *)
(* channel when the engine was stopped is routed, not dropped with it (the *)
(* drain of run_pipeline).                                                 *)
Pending(e, d) ==
  \/ e \in In(channel) \cup gone
  \/ handling = e /\ d \in In(todo)
  \/ e \in In(router[d])

Lost == {x \in Events \X Dests : fate[x[1]][x[2]] = "lost"}
Destroyed == {x \in Events \X Dests : fate[x[1]][x[2]] = "destroyed"}
Taken == accepted \ (In(channel) \cup gone)

Accounted ==
  /\ \A e \in accepted, d \in Dests :
       /\ fate[e][d] = "none" <=> Pending(e, d)
       /\ fate[e][d] = "stored" <=> e \in In(queue[d])
  /\ dropped = Cardinality(Lost) + Cardinality(conf.cut \cap Taken) + Cardinality(overcounted)
  /\ Cardinality(overcounted) <= faults /\ (faults = 0 => Destroyed = {})
  /\ gone \cap early = {}

(* A destination that never accepts anything and whose queue blocks stalls *)
(* nobody else: what was accepted is settled at every destination that     *)
(* does not block, and an input that waits gets its event in.              *)
Unsettled(e, d) == e \in accepted \ gone /\ fate[e][d] = "none"
Stalled == \E e \in Events, d \in Dests : Unsettled(e, d) /\ conf.policy[d] # "block"

OthersKeepFlowing ==
  /\ Stalled ~> ~Stalled
  /\ \A p \in Senders : sender[p].pc \in {"acquire", "sending"}
                         ~> sender[p].pc \notin {"acquire", "sending"} \/ pipeline = "done"

(* A stop ends: the pipeline drains and returns, and the routers empty     *)
(* their channels, whatever the destinations do.                           *)
StopEnds ==
  cancelled ~> pipeline = "done" /\ \A d \in Dests : router[d] = <<>>
=============================================================================
