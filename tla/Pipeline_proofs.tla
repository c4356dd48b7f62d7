-------------------------- MODULE Pipeline_proofs --------------------------
(***************************************************************************)
(* Pipeline keeps its byte budget and accounts for every event, for any    *)
(* inputs, outputs, sizes and capacities, with no output at all as well.   *)
(*                                                                         *)
(* Both need the same two facts.  An input holds an event that nobody else *)
(* holds and that is in no channel yet, and holds the permits it paid for: *)
(* so the bytes inside the engine change by that event's size.  And an     *)
(* event is for one destination in one place at a time: so what is taken   *)
(* out of a place is gone from it, and a loss is counted once.  A push     *)
(* that fails is the exception: it may leave what it counted in the queue, *)
(* and destroy what was in the queue before.                               *)
(***************************************************************************)
EXTENDS Pipeline, FiniteSetTheorems, TLAPS

-----------------------------------------------------------------------------
(* The inductive invariant.                                                *)

(* What an input holds is its own, and was not sent; and whoever waits for *)
(* permits waits once.                                                     *)
Inputs ==
  /\ \A p \in AllSenders :
       /\ sender[p].pc = "idle" => sender[p].ev = None
       /\ sender[p].pc # "idle" => /\ sender[p].ev \in Events \ accepted
                                   /\ Reader[sender[p].ev] = p
       /\ sender[p].pc = "sending" /\ ~cancelled => sender[p].paid
  /\ Distinct(waiters)
  /\ \A p \in In(waiters) : sender[p].pc = "acquire"

(* The gauge also counts what was dropped with the channel.                *)
Inside == In(channel) \cup {sender[p].ev : p \in Holding}

Budgeted ==
  /\ gauge = Bytes(Inside \cup gone)
  /\ ~cancelled => permits + Bytes(Inside) = Budget

(* The channel and what was dropped with it, the pipeline's hands and each *)
(* router: an event is in one of them, and accepted, if it is in any.      *)
Dropped(e) == e \in In(channel) \cup gone
InHand(e, d) == handling = e /\ d \in In(todo)

Places ==
  /\ Distinct(channel) /\ Distinct(todo)
  /\ \A d \in Dests : Distinct(router[d]) /\ Distinct(queue[d])
  /\ handling = None <=> todo = <<>>
  /\ In(channel) \subseteq accepted
  /\ handling \in accepted \cup {None} /\ ~Dropped(handling)
  /\ \A d \in Dests : /\ In(router[d]) \subseteq accepted
                      /\ \A e \in In(router[d]) : ~Dropped(e) /\ ~InHand(e, d)

Fated ==
  \A e \in Events, d \in Dests :
    /\ fate[e][d] = "none" <=> e \notin accepted \/ Pending(e, d)
    /\ fate[e][d] = "stored" <=> e \in In(queue[d])

Counts ==
  dropped = Cardinality(Lost) + Cardinality(conf.cut \cap Taken) + Cardinality(overcounted)

(* The channel is dropped after the drain, when all that was accepted      *)
(* before the cancellation is out of it.                                   *)
Ending ==
  /\ pipeline \in {"drain", "closing", "done"} => cancelled
  /\ pipeline = "closing" => In(channel) \cap early = {}
  /\ pipeline = "done" => channel = <<>>
  /\ pipeline # "done" => gone = {}
  /\ gone \cap early = {}

IInv == TypeOK /\ Inputs /\ Budgeted /\ Places /\ Fated /\ Counts /\ Ending

(* A push that fails leaves one event at most in the queue that it counted *)
(* as dropped, an event that it took out of the router; and nothing is     *)
(* destroyed without it.                                                   *)
Faulted ==
  /\ Cardinality(overcounted) <= faults
  /\ \A x \in overcounted : fate[x[1]][x[2]] # "none"
  /\ faults = 0 => Destroyed = {}

-----------------------------------------------------------------------------
(* Sequences without repetition, by what is in them.                       *)

LEMMA InEmpty == In(<<>>) = {} /\ Distinct(<<>>)
  BY DEF In, Distinct

LEMMA InType ==
  ASSUME NEW S, NEW s \in Seq(S)
  PROVE  In(s) \subseteq S
  BY DEF In

LEMMA InAppend ==
  ASSUME NEW S, NEW s \in Seq(S), NEW x \in S
  PROVE  /\ Append(s, x) \in Seq(S) /\ Len(Append(s, x)) = Len(s) + 1
         /\ In(Append(s, x)) = In(s) \cup {x}
         /\ Distinct(s) /\ x \notin In(s) => Distinct(Append(s, x))
<1>1. In(Append(s, x)) \subseteq In(s) \cup {x}
  BY DEF In
<1>2. In(s) \cup {x} \subseteq In(Append(s, x))
  <2>1. ASSUME NEW i \in DOMAIN s PROVE s[i] \in In(Append(s, x))
    <3>1. i \in DOMAIN Append(s, x) /\ Append(s, x)[i] = s[i]
      OBVIOUS
    <3>2. QED
      BY <3>1, Zenon DEF In
  <2>2. x \in In(Append(s, x))
    <3>1. Len(s) + 1 \in DOMAIN Append(s, x) /\ Append(s, x)[Len(s) + 1] = x
      OBVIOUS
    <3>2. QED
      BY <3>1, Zenon DEF In
  <2>3. QED
    BY <2>1, <2>2, Zenon DEF In
<1>3. Distinct(s) /\ x \notin In(s) => Distinct(Append(s, x))
  BY DEF In, Distinct
<1>4. QED
  BY <1>1, <1>2, <1>3

LEMMA InTail ==
  ASSUME NEW S, NEW s \in Seq(S), s # <<>>
  PROVE  /\ Tail(s) \in Seq(S) /\ Len(Tail(s)) = Len(s) - 1
         /\ Head(s) \in S /\ Head(s) \in In(s)
         /\ Distinct(s) => Distinct(Tail(s)) /\ In(Tail(s)) = In(s) \ {Head(s)}
         /\ Tail(s) = <<>> <=> Len(s) = 1
<1>1. Tail(s) \in Seq(S) /\ Len(Tail(s)) = Len(s) - 1 /\ Head(s) \in S
  OBVIOUS
<1>2. 1 \in DOMAIN s /\ s[1] = Head(s)
  OBVIOUS
<1>3. Head(s) \in In(s)
  BY <1>2, Zenon DEF In
<1>4. ASSUME Distinct(s)
      PROVE  Distinct(Tail(s)) /\ In(Tail(s)) = In(s) \ {Head(s)}
  <2>1. \A i \in DOMAIN Tail(s) : i + 1 \in DOMAIN s /\ Tail(s)[i] = s[i + 1]
    OBVIOUS
  <2>2. Distinct(Tail(s))
    BY <1>4, <2>1 DEF Distinct
  <2>3. In(Tail(s)) \subseteq In(s) \ {Head(s)}
    <3>1. SUFFICES ASSUME NEW i \in DOMAIN Tail(s)
                   PROVE  Tail(s)[i] \in In(s) /\ Tail(s)[i] # Head(s)
      BY Zenon DEF In
    <3>2. i + 1 \in DOMAIN s /\ i + 1 # 1 /\ Tail(s)[i] = s[i + 1]
      BY <2>1
    <3>3. QED
      BY <1>2, <1>4, <3>2, Zenon DEF In, Distinct
  <2>4. In(s) \ {Head(s)} \subseteq In(Tail(s))
    <3>1. SUFFICES ASSUME NEW i \in DOMAIN s, s[i] # Head(s)
                   PROVE  s[i] \in In(Tail(s))
      BY Zenon DEF In
    <3>2. i - 1 \in DOMAIN Tail(s) /\ Tail(s)[i - 1] = s[i]
      BY <3>1
    <3>3. QED
      BY <3>2, Zenon DEF In
  <2>5. QED
    BY <2>2, <2>3, <2>4, Zenon
<1>5. Tail(s) = <<>> <=> Len(s) = 1
  <2> DEFINE t == Tail(s)
  <2>1. t \in Seq(S) /\ Len(t) = Len(s) - 1 /\ Len(s) \in Nat
    BY <1>1
  <2> HIDE DEF t
  <2>2. t = <<>> <=> Len(t) = 0
    BY <2>1
  <2>3. QED
    BY <2>1, <2>2 DEF t
<1>6. QED
  BY <1>1, <1>3, <1>4, <1>5, Zenon

-----------------------------------------------------------------------------
(* The bytes of a set of events are the sum of their sizes.                *)

LEMMA Constants ==
  /\ IsFiniteSet(Events) /\ Size \in [Events -> Nat \ {0}] /\ Reader \in [Events -> AllSenders]
  /\ None \notin Events /\ None \notin Dests /\ IsFiniteSet(Dests)
  /\ Order \in Seq(Dests) /\ In(Order) = Dests /\ Distinct(Order)
  /\ Budget \in Nat \ {0} /\ RouterCapacity \in Nat \ {0}
  /\ ChannelCapacity \in Nat \ {0} /\ UnhealthyAfter \in Nat \ {0} /\ MaxFaults \in Nat
<1>1. Budget \in Nat \ {0} /\ RouterCapacity \in Nat \ {0}
      /\ ChannelCapacity \in Nat \ {0} /\ UnhealthyAfter \in Nat \ {0} /\ MaxFaults \in Nat
  BY CapacitiesAssumption
<1>2. Size \in [Events -> Nat \ {0}]
  BY <1>1, EventsAssumption
<1>3. QED
  BY <1>1, <1>2, EventsAssumption, DestsAssumption, Zenon

(* The configuration gives a queue some room.                              *)
LEMMA QueueRoom ==
  ASSUME conf \in Setups
  PROVE  QueueCapacity \in Nat \ {0}
  BY DestsAssumption DEF QueueCapacity

Bit(e) == {e} \X (1 .. Size[e])

LEMMA BitCount ==
  ASSUME NEW e \in Events
  PROVE  IsFiniteSet(Bit(e)) /\ Cardinality(Bit(e)) = Size[e] /\ Size[e] \in Nat \ {0}
<1>1. IsFiniteSet({e}) /\ Cardinality({e}) = 1
  BY FS_Singleton
<1> DEFINE T == 1 .. Size[e]
<1>2. Size[e] \in Nat \ {0}
  BY Constants
<1>3. IsFiniteSet(T) /\ Cardinality(T) = Size[e]
  BY <1>2, FS_Interval
<1> HIDE DEF T
<1>4. IsFiniteSet({e} \X T) /\ Cardinality({e} \X T) = Cardinality({e}) * Cardinality(T)
  BY <1>1, <1>3, FS_Product, Zenon
<1>5. Cardinality({e}) * Cardinality(T) = Size[e]
  BY <1>1, <1>2, <1>3
<1>6. QED
  BY <1>2, <1>4, <1>5 DEF Bit, T

LEMMA BytesFinite ==
  ASSUME NEW S \in SUBSET Events
  PROVE  /\ IsFiniteSet(UNION {Bit(e) : e \in S})
         /\ Bytes(S) = Cardinality(UNION {Bit(e) : e \in S}) /\ Bytes(S) \in Nat
<1> DEFINE T == {Bit(e) : e \in S}
           g == [e \in S |-> Bit(e)]
<1>1. IsFiniteSet(S)
  BY Constants, FS_Subset
<1>2. IsFiniteSet(T)
  <2>1. g \in Surjection(S, T)
    BY DEF Surjection
  <2>2. QED
    BY <1>1, <2>1, FS_Surjection
<1>3. \A t \in T : IsFiniteSet(t)
  BY BitCount
<1>4. IsFiniteSet(UNION T)
  BY <1>2, <1>3, FS_UNION
<1>5. Bytes(S) = Cardinality(UNION T)
  BY DEF Bytes, Bit
<1>6. QED
  BY <1>4, <1>5, FS_CardinalityType

LEMMA BytesEmpty == Bytes({}) = 0
<1>1. UNION {{e} \X (1 .. Size[e]) : e \in {}} = {}
  OBVIOUS
<1>2. QED
  BY <1>1, FS_EmptySet, Zenon DEF Bytes

LEMMA BytesAdd ==
  ASSUME NEW S \in SUBSET Events, NEW e \in Events, e \notin S
  PROVE  Bytes(S \cup {e}) = Bytes(S) + Size[e]
<1> DEFINE A == UNION {Bit(f) : f \in S}
           B == Bit(e)
<1>1. UNION {Bit(f) : f \in S \cup {e}} = A \cup B
  OBVIOUS
<1>2. A \cap B = {}
  BY DEF Bit
<1>3. IsFiniteSet(A) /\ Cardinality(A) = Bytes(S) /\ Bytes(S) \in Nat
  BY BytesFinite
<1>4. IsFiniteSet(B) /\ Cardinality(B) = Size[e] /\ Size[e] \in Nat
  BY BitCount
<1>5. Bytes(S \cup {e}) = Cardinality(A \cup B)
  <2>1. S \cup {e} \in SUBSET Events
    OBVIOUS
  <2>2. QED
    BY <1>1, <2>1, BytesFinite, Zenon
<1> HIDE DEF A, B
<1>6. Cardinality(A \cup B) = Cardinality(A) + Cardinality(B) - Cardinality({})
  BY <1>2, <1>3, <1>4, FS_Union
<1>7. Cardinality({}) = 0
  BY FS_EmptySet
<1>8. QED
  BY <1>3, <1>4, <1>5, <1>6, <1>7
-----------------------------------------------------------------------------
(* What an input holds.                                                    *)

Held == {sender[p].ev : p \in Holding}

LEMMA HoldsItsOwn ==
  ASSUME IInv, NEW p \in AllSenders, sender[p].pc # "idle"
  PROVE  /\ sender[p].ev \in Events /\ sender[p].ev \notin accepted
         /\ Cost(p) = Size[sender[p].ev] /\ Cost(p) \in Nat \ {0}
         /\ \A q \in AllSenders : sender[q].ev = sender[p].ev => q = p
<1>1. sender[p].ev \in Events /\ sender[p].ev \notin accepted
  BY DEF IInv, Inputs
<1>2. \A q \in AllSenders : sender[q].ev = sender[p].ev => q = p
  <2> SUFFICES ASSUME NEW q \in AllSenders, sender[q].ev = sender[p].ev PROVE q = p
    OBVIOUS
  <2>1. sender[q].pc # "idle"
    BY <1>1, Constants DEF IInv, Inputs
  <2>2. QED
    BY <2>1 DEF IInv, Inputs
<1>3. QED
  BY <1>1, <1>2, Constants DEF Cost

LEMMA InsideType ==
  ASSUME IInv
  PROVE  /\ Held \subseteq Events /\ Inside = In(channel) \cup Held
         /\ In(channel) \subseteq accepted /\ gone \subseteq accepted /\ accepted \subseteq Events
         /\ Held \cap accepted = {}
         /\ Inside \cup gone \in SUBSET Events /\ Inside \in SUBSET Events
         /\ Bytes(Inside) \in Nat /\ Bytes(Inside \cup gone) \in Nat
<1>1. Held \subseteq Events /\ Held \cap accepted = {}
  BY HoldsItsOwn DEF Held, Holding
<1>2. In(channel) \subseteq accepted /\ gone \subseteq accepted /\ accepted \subseteq Events
  BY DEF IInv, Places, TypeOK
<1>3. Inside = In(channel) \cup Held
  BY DEF Inside, Held
<1>4. Inside \cup gone \in SUBSET Events /\ Inside \in SUBSET Events
  BY <1>1, <1>2, <1>3
<1>5. Bytes(Inside) \in Nat /\ Bytes(Inside \cup gone) \in Nat
  BY <1>4, BytesFinite
<1>6. QED
  BY <1>1, <1>2, <1>3, <1>4, <1>5

LEMMA SenderType ==
  ASSUME TypeOK
  PROVE  sender \in [AllSenders -> [pc : {"idle", "acquire", "sending", "ended"},
                                    ev : Events \cup {None}, paid : BOOLEAN]]
  BY DEF TypeOK

(* What inputs do on their own says nothing of the rest of the engine.     *)
LEMMA ElsewhereUnchanged ==
  ASSUME IInv, UNCHANGED <<conf, cancelled, channel, pipelinev, destv, healthv, dropped, fate,
                           entryv, gone, faultv>>
  PROVE  Places' /\ Fated' /\ Counts' /\ Ending'
<1> USE DEF pipelinev, destv, healthv, entryv, faultv
<1>1. Places'
  BY Zenon DEF IInv, Places, Dropped, InHand
<1>2. Fated'
  BY Zenon DEF IInv, Fated, Pending
<1>3. Counts'
  BY Zenon DEF IInv, Counts, Lost, Taken
<1>4. Ending'
  BY Zenon DEF IInv, Ending
<1>5. QED
  BY <1>1, <1>2, <1>3, <1>4

(* An input that takes a step leaves the others what they hold.            *)
LEMMA InputsStep ==
  ASSUME IInv, NEW p \in AllSenders, \A q \in AllSenders \ {p} : sender'[q] = sender[q],
         cancelled' = cancelled, waiters' \in Seq(Senders), Distinct(waiters'),
         \A q \in In(waiters') : IF q = p THEN sender'[p].pc = "acquire" ELSE q \in In(waiters),
         \A q \in AllSenders \ {p} : sender[q].pc # "idle" => sender[q].ev \notin accepted',
         sender'[p].pc = "idle" => sender'[p].ev = None,
         sender'[p].pc # "idle" => /\ sender'[p].ev \in Events \ accepted'
                                   /\ Reader[sender'[p].ev] = p,
         sender'[p].pc = "sending" /\ ~cancelled => sender'[p].paid
  PROVE  Inputs'
<1>1. \A q \in AllSenders :
        /\ sender'[q].pc = "idle" => sender'[q].ev = None
        /\ sender'[q].pc # "idle" => /\ sender'[q].ev \in Events \ accepted'
                                     /\ Reader[sender'[q].ev] = q
        /\ sender'[q].pc = "sending" /\ ~cancelled' => sender'[q].paid
  <2> SUFFICES ASSUME NEW q \in AllSenders
               PROVE  /\ sender'[q].pc = "idle" => sender'[q].ev = None
                      /\ sender'[q].pc # "idle" => /\ sender'[q].ev \in Events \ accepted'
                                                   /\ Reader[sender'[q].ev] = q
                      /\ sender'[q].pc = "sending" /\ ~cancelled' => sender'[q].paid
    OBVIOUS
  <2>1. CASE q = p
    BY <2>1
  <2>2. CASE q # p
    BY <2>2 DEF IInv, Inputs
  <2>3. QED
    BY <2>1, <2>2
<1>2. \A q \in In(waiters') : sender'[q].pc = "acquire"
  <2>1. In(waiters') \subseteq AllSenders
    BY InType DEF AllSenders
  <2>2. QED
    BY <2>1 DEF IInv, Inputs
<1>3. QED
  BY <1>1, <1>2 DEF Inputs

LEMMA ReadStep ==
  ASSUME IInv, NEW p \in AllSenders, Read(p)
  PROVE  IInv'
<1> USE DEF inputv, channelv, faultv
<1>1. PICK e \in Events :
        /\ NextOf(p, e)
        /\ sender' = [sender EXCEPT ![p] = [pc |-> "acquire", ev |-> e, paid |-> FALSE]]
  BY DEF Read
<1>2. UNCHANGED <<conf, cancelled, channelv, pipelinev, destv, healthv, dropped, fate, entryv,
                  gone, faultv>>
  BY DEF Read
<1>3. sender[p].pc = "idle" /\ e \notin accepted /\ Reader[e] = p
  BY <1>1 DEF Read, NextOf, Seen
<1>4. waiters \in Seq(Senders) /\ In(waiters) \subseteq Senders
  BY InType DEF IInv, TypeOK
<1>5. p \notin In(waiters)
  BY <1>3 DEF IInv, Inputs
<1>6. waiters' \in Seq(Senders) /\ Distinct(waiters') /\ In(waiters') \subseteq In(waiters) \cup {p}
  <2>1. CASE p \in Senders
    <3>1. waiters' = Append(waiters, p)
      BY <2>1 DEF Read
    <3>2. QED
      BY <2>1, <3>1, <1>4, <1>5, InAppend DEF IInv, Inputs
  <2>2. CASE p \notin Senders
    <3>1. waiters' = waiters
      BY <2>2 DEF Read
    <3>2. QED
      BY <3>1, <1>4 DEF IInv, Inputs
  <2>3. QED
    BY <2>1, <2>2
<1>7. sender' \in [AllSenders -> [pc : {"idle", "acquire", "sending", "ended"},
                                  ev : Events \cup {None}, paid : BOOLEAN]]
      /\ sender'[p] = [pc |-> "acquire", ev |-> e, paid |-> FALSE]
      /\ \A q \in AllSenders \ {p} : sender'[q] = sender[q]
  BY <1>1, SenderType DEF IInv
<1>8. TypeOK'
  BY <1>2, <1>6, <1>7, Zenon DEF IInv, TypeOK, pipelinev, destv, healthv, entryv, QueueCapacity
<1>9. Inputs'
  <2>1. \A q \in In(waiters') : IF q = p THEN sender'[p].pc = "acquire" ELSE q \in In(waiters)
    BY <1>6, <1>7
  <2>2. accepted' = accepted /\ cancelled' = cancelled
    BY <1>2 DEF entryv
  <2>3. \A q \in AllSenders \ {p} : sender[q].pc # "idle" => sender[q].ev \notin accepted'
    BY <2>2 DEF IInv, Inputs
  <2>4. QED
    BY <2>1, <2>2, <2>3, <1>3, <1>6, <1>7, InputsStep
<1>10. Budgeted'
  <2>1. Holding' = Holding
    BY <1>3, <1>7 DEF Holding
  <2>2. Held' = Held
    <3>1. \A q \in Holding : q \in AllSenders \ {p}
      BY <1>3 DEF Holding
    <3>2. QED
      BY <2>1, <3>1, <1>7 DEF Held
  <2>3. Inside' = Inside /\ gone' = gone
    BY <2>2, <1>2, Zenon DEF Inside, Held
  <2>4. QED
    BY <2>3, <1>2, Zenon DEF IInv, Budgeted, Bytes
<1>11. QED
  BY <1>2, <1>8, <1>9, <1>10, ElsewhereUnchanged, Zenon DEF IInv
(* An input that changes keeps its event, or drops it as it becomes idle.  *)
LEMMA OneInput ==
  ASSUME IInv, NEW p \in AllSenders, sender[p].pc # "idle", NEW r,
         r \in [pc : {"idle", "acquire", "sending", "ended"},
                ev : Events \cup {None}, paid : BOOLEAN],
         sender' = [sender EXCEPT ![p] = r],
         r.pc # "idle" => r.ev = sender[p].ev,
         r.pc = "sending" <=> sender[p].pc = "acquire"
  PROVE  /\ sender' \in [AllSenders -> [pc : {"idle", "acquire", "sending", "ended"},
                                        ev : Events \cup {None}, paid : BOOLEAN]]
         /\ sender'[p] = r /\ \A q \in AllSenders \ {p} : sender'[q] = sender[q]
         /\ sender[p].pc = "acquire" =>
              Held' = Held \cup {sender[p].ev} /\ sender[p].ev \notin Held
         /\ sender[p].pc = "sending" =>
              Held' = Held \ {sender[p].ev} /\ sender[p].ev \in Held
<1>1. sender' \in [AllSenders -> [pc : {"idle", "acquire", "sending", "ended"},
                                  ev : Events \cup {None}, paid : BOOLEAN]]
      /\ sender'[p] = r /\ \A q \in AllSenders \ {p} : sender'[q] = sender[q]
  BY SenderType DEF IInv
<1>2. \A q \in AllSenders : sender[q].ev = sender[p].ev => q = p
  BY HoldsItsOwn
<1>3. \A q \in AllSenders \ {p} : q \in Holding' <=> q \in Holding
  BY <1>1 DEF Holding
<1>4. ASSUME sender[p].pc = "acquire"
      PROVE  Held' = Held \cup {sender[p].ev} /\ sender[p].ev \notin Held
  <2>1. p \notin Holding /\ p \in Holding' /\ sender'[p].ev = sender[p].ev
    BY <1>1, <1>4 DEF Holding
  <2>2. Holding \subseteq AllSenders /\ Holding' \subseteq AllSenders
    BY DEF Holding
  <2>3. QED
    BY <1>1, <1>2, <1>3, <2>1, <2>2 DEF Held
<1>5. ASSUME sender[p].pc = "sending"
      PROVE  Held' = Held \ {sender[p].ev} /\ sender[p].ev \in Held
  <2>1. p \in Holding /\ p \notin Holding'
    BY <1>1, <1>5 DEF Holding
  <2>2. Holding \subseteq AllSenders /\ Holding' \subseteq AllSenders
    BY DEF Holding
  <2>3. QED
    BY <1>1, <1>2, <1>3, <2>1, <2>2 DEF Held
<1>6. QED
  BY <1>1, <1>4, <1>5

LEMMA Admitted ==
  ASSUME IInv, NEW p \in AllSenders, sender[p].pc = "acquire", NEW paid \in BOOLEAN,
         Admit(p, paid), paid \/ cancelled, paid => permits >= Cost(p),
         waiters' \in Seq(Senders), Distinct(waiters'), In(waiters') \subseteq In(waiters) \ {p},
         UNCHANGED <<conf, cancelled, channel, pipelinev, destv, healthv, dropped, fate, entryv,
                     gone, faultv>>
  PROVE  IInv'
<1> DEFINE r == [sender[p] EXCEPT !.pc = "sending", !.paid = paid]
           ev == sender[p].ev
<1>1. /\ ev \in Events /\ ev \notin accepted /\ Reader[ev] = p
      /\ Cost(p) = Size[ev] /\ Cost(p) \in Nat \ {0}
  BY HoldsItsOwn DEF IInv, Inputs
<1>2. r \in [pc : {"idle", "acquire", "sending", "ended"},
             ev : Events \cup {None}, paid : BOOLEAN]
      /\ r.ev = ev /\ r.pc = "sending" /\ r.paid = paid
  BY SenderType DEF IInv
<1>3. sender' = [sender EXCEPT ![p] = r]
  <2>1. sender' = [sender EXCEPT ![p].pc = "sending", ![p].paid = paid]
    BY DEF Admit
  <2>2. QED
    BY <2>1, SenderType DEF IInv
<1> HIDE DEF r
<1>4. /\ sender' \in [AllSenders -> [pc : {"idle", "acquire", "sending", "ended"},
                                     ev : Events \cup {None}, paid : BOOLEAN]]
      /\ sender'[p] = r /\ \A q \in AllSenders \ {p} : sender'[q] = sender[q]
      /\ Held' = Held \cup {ev} /\ ev \notin Held
  BY <1>2, <1>3, OneInput
<1>5. /\ permits' \in Nat /\ gauge' = gauge + Size[ev] /\ gauge' \in Nat
      /\ paid => permits' = permits - Size[ev]
  BY <1>1 DEF Admit, IInv, TypeOK
<1>6. TypeOK'
  BY <1>4, <1>5, Zenon DEF IInv, TypeOK, pipelinev, destv, healthv, entryv, faultv, QueueCapacity
<1>7. Inputs'
  <2>1. \A q \in In(waiters') : IF q = p THEN sender'[p].pc = "acquire" ELSE q \in In(waiters)
    OBVIOUS
  <2>2. accepted' = accepted /\ cancelled' = cancelled
    BY DEF entryv
  <2>3. \A q \in AllSenders \ {p} : sender[q].pc # "idle" => sender[q].ev \notin accepted'
    BY <2>2 DEF IInv, Inputs
  <2>4. sender'[p].pc = "sending" /\ sender'[p].ev = ev /\ (~cancelled => sender'[p].paid)
    BY <1>2, <1>4
  <2>5. QED
    BY <2>1, <2>2, <2>3, <2>4, <1>1, <1>4, InputsStep
<1>8. Budgeted'
  <2>1. ev \notin Inside \cup gone /\ Inside' = Inside \cup {ev}
        /\ Inside \in SUBSET Events /\ Inside \cup gone \in SUBSET Events
        /\ Inside' \cup gone' = (Inside \cup gone) \cup {ev}
    BY <1>1, <1>4, InsideType DEF Inside, Held
  <2>2. Bytes(Inside') = Bytes(Inside) + Size[ev] /\ Bytes(Inside) \in Nat
    BY <2>1, <1>1, BytesAdd, InsideType
  <2>3. Bytes(Inside' \cup gone') = Bytes(Inside \cup gone) + Size[ev]
    BY <2>1, <1>1, BytesAdd
  <2>4. gauge = Bytes(Inside \cup gone) /\ (~cancelled => permits + Bytes(Inside) = Budget)
    BY DEF IInv, Budgeted
  <2>5. gauge' = Bytes(Inside' \cup gone')
    BY <2>3, <2>4, <1>5, Zenon
  <2>6. ~cancelled' => permits' + Bytes(Inside') = Budget
    <3> SUFFICES ASSUME ~cancelled PROVE permits' + Bytes(Inside') = Budget
      BY Zenon
    <3>1. permits \in Nat /\ Size[ev] \in Nat
      BY <1>1 DEF IInv, TypeOK
    <3>2. permits' = permits - Size[ev]
      BY <1>5, Zenon
    <3>3. permits + Bytes(Inside) = Budget
      BY <2>4, Zenon
    <3>4. QED
      BY <3>1, <3>2, <3>3, <2>2
  <2>7. QED
    BY <2>5, <2>6, Zenon DEF Budgeted, Bytes
<1>9. Places' /\ Fated' /\ Counts' /\ Ending'
  BY ElsewhereUnchanged
<1>10. QED
  BY <1>6, <1>7, <1>8, <1>9 DEF IInv

LEMMA WaitersType ==
  ASSUME IInv
  PROVE  waiters \in Seq(Senders) /\ Distinct(waiters) /\ In(waiters) \subseteq Senders
  BY InType DEF IInv, TypeOK, Inputs

LEMMA AcquireStep ==
  ASSUME IInv, NEW p \in AllSenders, Acquire(p)
  PROVE  IInv'
<1>1. /\ waiters # <<>> /\ p = Head(waiters) /\ permits >= Cost(p)
      /\ waiters' = Tail(waiters) /\ Admit(p, TRUE)
      /\ UNCHANGED <<conf, cancelled, channel, pipelinev, destv, healthv, dropped, fate, entryv,
                     gone, faultv>>
  BY DEF Acquire
<1>2. p \in In(waiters) /\ waiters' \in Seq(Senders) /\ Distinct(waiters')
      /\ In(waiters') = In(waiters) \ {p}
  BY <1>1, WaitersType, InTail
<1>3. sender[p].pc = "acquire"
  BY <1>2 DEF IInv, Inputs
<1>4. QED
  BY <1>1, <1>2, <1>3, Admitted

LEMMA TryAcquireStep ==
  ASSUME IInv, NEW p \in AllSenders, TryAcquire(p) \/ GoesWithout(p)
  PROVE  IInv'
<1>1. p \notin In(waiters)
  BY WaitersType, SendersAssumption DEF TryAcquire, GoesWithout
<1>2. sender[p].pc = "acquire" /\ waiters' = waiters
      /\ UNCHANGED <<conf, cancelled, channel, pipelinev, destv, healthv, dropped, fate, entryv,
                     gone, faultv>>
  BY DEF TryAcquire, GoesWithout
<1>3. waiters' \in Seq(Senders) /\ Distinct(waiters') /\ In(waiters') \subseteq In(waiters) \ {p}
  BY <1>1, <1>2, WaitersType
<1>4. CASE TryAcquire(p)
  <2>1. Admit(p, TRUE) /\ permits >= Cost(p)
    BY <1>4 DEF TryAcquire
  <2>2. QED
    BY <1>2, <1>3, <2>1, Admitted
<1>5. CASE GoesWithout(p)
  <2>1. Admit(p, FALSE) /\ cancelled
    BY <1>5 DEF GoesWithout
  <2>2. QED
    BY <1>2, <1>3, <2>1, Admitted
<1>6. QED
  BY <1>4, <1>5
(* An input that is done with its event, sent or not.                      *)
LEMMA WaiterStays ==
  ASSUME IInv, NEW p \in AllSenders, sender[p].pc = "sending", waiters' = waiters
  PROVE  /\ waiters' \in Seq(Senders) /\ Distinct(waiters')
         /\ \A q \in In(waiters') : IF q = p THEN sender'[p].pc = "acquire" ELSE q \in In(waiters)
<1>1. p \notin In(waiters)
  BY DEF IInv, Inputs
<1>2. QED
  BY <1>1, WaitersType

LEMMA SendStep ==
  ASSUME IInv, NEW p \in AllSenders, Send(p)
  PROVE  IInv'
<1> DEFINE ev == sender[p].ev
<1>1. /\ sender[p].pc = "sending" /\ pipeline # "done" /\ Len(channel) < ChannelCapacity
      /\ channel' = Append(channel, ev) /\ permits' = permits
      /\ accepted' = accepted \cup {ev}
      /\ early' = IF cancelled THEN early ELSE early \cup {ev}
      /\ sender' = [sender EXCEPT ![p] = Idle]
      /\ UNCHANGED <<conf, cancelled, waiters, gauge, pipeline, handling, todo, router, queue,
                     failures, healthy, dropped, fate, gone, faultv>>
  BY DEF Send, HeldAfterSend, pipelinev, destv, healthv
<1>2. /\ ev \in Events /\ ev \notin accepted
      /\ \A q \in AllSenders : sender[q].ev = ev => q = p
  BY <1>1, HoldsItsOwn
<1>3. Idle \in [pc : {"idle", "acquire", "sending", "ended"},
                ev : Events \cup {None}, paid : BOOLEAN]
      /\ Idle.pc = "idle" /\ Idle.ev = None
  BY DEF Idle
<1>4. /\ sender' \in [AllSenders -> [pc : {"idle", "acquire", "sending", "ended"},
                                     ev : Events \cup {None}, paid : BOOLEAN]]
      /\ sender'[p] = Idle /\ \A q \in AllSenders \ {p} : sender'[q] = sender[q]
      /\ Held' = Held \ {ev} /\ ev \in Held
  BY <1>1, <1>3, OneInput
<1>5. channel \in Seq(Events) /\ Len(channel) \in Nat /\ Distinct(channel)
      /\ In(channel) \subseteq accepted /\ early \subseteq accepted /\ gone \subseteq accepted
  BY DEF IInv, TypeOK, Places
<1>6. /\ channel' \in Seq(Events) /\ Len(channel') <= ChannelCapacity /\ Distinct(channel')
      /\ In(channel') = In(channel) \cup {ev}
  BY <1>1, <1>2, <1>5, InAppend, Constants
<1>7. TypeOK'
  <2>1. early' \subseteq accepted' /\ accepted' \subseteq Events /\ gone' \subseteq accepted'
    BY <1>1, <1>2, <1>5 DEF IInv, TypeOK
  <2>2. QED
    BY <1>1, <1>4, <1>6, <2>1, Zenon DEF IInv, TypeOK, faultv, QueueCapacity
<1>8. Inputs'
  <2>1. \A q \in AllSenders \ {p} : sender[q].pc # "idle" => sender[q].ev \notin accepted'
    BY <1>1, <1>2, HoldsItsOwn
  <2>2. QED
    BY <2>1, <1>1, <1>3, <1>4, WaiterStays, InputsStep
<1>9. Budgeted'
  <2>1. Inside' = Inside
    BY <1>4, <1>6 DEF Inside, Held
  <2>2. QED
    BY <2>1, <1>1, Zenon DEF IInv, Budgeted, Bytes
<1>10. Places'
  <2>1. handling \in accepted \cup {None} /\ ~Dropped(handling) /\ handling # ev
        /\ handling' \in accepted' \cup {None} /\ ~Dropped(handling)'
    BY <1>1, <1>2, <1>6, Constants DEF IInv, Places, Dropped
  <2>2. ASSUME NEW d \in Dests
        PROVE  /\ In(router'[d]) \subseteq accepted'
               /\ \A e \in In(router'[d]) : ~Dropped(e)' /\ ~InHand(e, d)'
    BY <1>1, <1>2, <1>6 DEF IInv, Places, Dropped, InHand
  <2>3. In(channel') \subseteq accepted'
    BY <1>1, <1>5, <1>6
  <2>4. Distinct(todo') /\ (\A d \in Dests : Distinct(router'[d]) /\ Distinct(queue'[d]))
        /\ (handling' = None <=> todo' = <<>>)
    BY <1>1, Zenon DEF IInv, Places
  <2>5. QED
    BY <1>6, <2>1, <2>2, <2>3, <2>4, Zenon DEF Places
<1>11. Fated'
  <2> SUFFICES ASSUME NEW e \in Events, NEW d \in Dests
               PROVE  /\ fate[e][d] = "none" <=> e \notin accepted' \/ Pending(e, d)'
                      /\ fate[e][d] = "stored" <=> e \in In(queue[d])
    BY <1>1 DEF Fated
  <2>1. /\ fate[e][d] = "none" <=> e \notin accepted \/ Pending(e, d)
        /\ fate[e][d] = "stored" <=> e \in In(queue[d])
    BY DEF IInv, Fated
  <2>2. Pending(e, d)' <=> Pending(e, d) \/ e = ev
    BY <1>1, <1>6 DEF Pending
  <2>3. QED
    BY <1>1, <1>2, <2>1, <2>2, Zenon
<1>12. Counts'
  <2>1. Lost' = Lost
    BY <1>1, Zenon DEF Lost
  <2>2. Taken' = Taken
    BY <1>1, <1>2, <1>5, <1>6 DEF Taken
  <2>3. QED
    BY <1>1, <2>1, <2>2, Zenon DEF IInv, Counts, faultv
<1>13. Ending'
  <2>1. gone = {} /\ gone' = {} /\ ev \notin early
    BY <1>1, <1>2, <1>5 DEF IInv, Ending
  <2>2. pipeline = "closing" => In(channel') \cap early' = {}
    BY <1>1, <1>6, <2>1 DEF IInv, Ending
  <2>3. QED
    BY <1>1, <2>1, <2>2 DEF IInv, Ending
<1>14. QED
  BY <1>7, <1>8, <1>9, <1>10, <1>11, <1>12, <1>13 DEF IInv

LEMMA SendFailsStep ==
  ASSUME IInv, NEW p \in AllSenders, SendFails(p)
  PROVE  IInv'
<1> DEFINE ev == sender[p].ev
           r == [sender[p] EXCEPT !.pc = "ended"]
<1>1. /\ sender[p].pc = "sending" /\ pipeline = "done"
      /\ permits' = PermitsBack(p) /\ gauge' = gauge - Cost(p)
      /\ sender' = [sender EXCEPT ![p].pc = "ended"]
      /\ waiters' = waiters
      /\ UNCHANGED <<conf, cancelled, channel, pipelinev, destv, healthv, dropped, fate, entryv,
                     gone, faultv>>
  BY DEF SendFails
<1>2. /\ ev \in Events /\ ev \notin accepted /\ Reader[ev] = p
      /\ Cost(p) = Size[ev] /\ Size[ev] \in Nat
      /\ \A q \in AllSenders : sender[q].ev = ev => q = p
  BY <1>1, HoldsItsOwn DEF IInv, Inputs
<1>3. r \in [pc : {"idle", "acquire", "sending", "ended"}, ev : Events \cup {None}, paid : BOOLEAN]
      /\ r.ev = ev /\ r.pc = "ended" /\ sender' = [sender EXCEPT ![p] = r]
  BY <1>1, SenderType DEF IInv
<1> HIDE DEF r
<1>4. /\ sender' \in [AllSenders -> [pc : {"idle", "acquire", "sending", "ended"},
                                     ev : Events \cup {None}, paid : BOOLEAN]]
      /\ sender'[p] = r /\ \A q \in AllSenders \ {p} : sender'[q] = sender[q]
      /\ Held' = Held \ {ev} /\ ev \in Held
  BY <1>1, <1>3, OneInput
<1>5. gauge = Bytes(Inside' \cup gone') + Size[ev] /\ Bytes(Inside' \cup gone') \in Nat
  <2>1. ev \notin Inside' \cup gone' /\ Inside' \cup gone' \in SUBSET Events
        /\ (Inside' \cup gone') \cup {ev} = Inside \cup gone
    <3>1. Inside' = In(channel) \cup Held' /\ gone' = gone
      BY <1>1 DEF Inside, Held
    <3>2. Inside = In(channel) \cup Held /\ In(channel) \subseteq accepted /\ gone \subseteq accepted
          /\ Inside \cup gone \in SUBSET Events
      BY InsideType
    <3>3. QED
      BY <3>1, <3>2, <1>2, <1>4
  <2>2. Bytes((Inside' \cup gone') \cup {ev}) = Bytes(Inside' \cup gone') + Size[ev]
        /\ Bytes(Inside' \cup gone') \in Nat
    BY <2>1, <1>2, BytesAdd, BytesFinite
  <2>3. QED
    BY <2>1, <2>2, Zenon DEF IInv, Budgeted
<1>6. gauge' \in Nat /\ gauge' = Bytes(Inside' \cup gone')
  BY <1>1, <1>2, <1>5
<1>7. permits' \in Nat
  BY <1>1, <1>2 DEF PermitsBack, IInv, TypeOK
<1>8. TypeOK'
  BY <1>1, <1>4, <1>6, <1>7, Zenon DEF IInv, TypeOK, pipelinev, destv, healthv, entryv, faultv, QueueCapacity
<1>9. Inputs'
  <2>1. accepted' = accepted /\ cancelled' = cancelled
    BY <1>1 DEF entryv
  <2>2. \A q \in AllSenders \ {p} : sender[q].pc # "idle" => sender[q].ev \notin accepted'
    BY <2>1, HoldsItsOwn
  <2>3. sender'[p].pc = "ended" /\ sender'[p].ev = ev
    BY <1>3, <1>4
  <2>4. QED
    BY <2>1, <2>2, <2>3, <1>1, <1>2, <1>4, WaiterStays, InputsStep
<1>10. Budgeted'
  <2>1. cancelled'
    BY <1>1 DEF IInv, Ending
  <2>2. QED
    BY <2>1, <1>6, Zenon DEF Budgeted, Bytes
<1>11. Places' /\ Fated' /\ Counts' /\ Ending'
  BY <1>1, ElsewhereUnchanged
<1>12. QED
  BY <1>8, <1>9, <1>10, <1>11 DEF IInv
-----------------------------------------------------------------------------
(* What becomes of an event at a destination.                              *)

LEMMA InputsUnchanged ==
  ASSUME IInv, UNCHANGED <<sender, waiters, accepted, cancelled>>
  PROVE  Inputs'
  BY Zenon DEF IInv, Inputs

LEMMA BudgetUnchanged ==
  ASSUME IInv, UNCHANGED <<sender, channel, gone, gauge, permits, cancelled>>
  PROVE  Budgeted'
  BY Zenon DEF IInv, Budgeted, Bytes, Inside, Holding

LEMMA LostFinite == IsFiniteSet(Lost) /\ Cardinality(Lost) \in Nat
<1>1. IsFiniteSet(Events \X Dests)
  BY Constants, FS_Product
<1>2. Lost \subseteq Events \X Dests
  BY DEF Lost
<1>3. QED
  BY <1>1, <1>2, FS_Subset, FS_CardinalityType

LEMMA TakenCutFinite ==
  ASSUME IInv
  PROVE  /\ IsFiniteSet(conf.cut \cap Taken) /\ Cardinality(conf.cut \cap Taken) \in Nat
<1>1. conf.cut \cap Taken \subseteq Events
  BY DEF IInv, TypeOK, Taken
<1>2. QED
  BY <1>1, Constants, FS_Subset, FS_CardinalityType

LEMMA OvercountedFinite ==
  ASSUME IInv
  PROVE  IsFiniteSet(overcounted) /\ Cardinality(overcounted) \in Nat
<1>1. IsFiniteSet(Events \X Dests) /\ overcounted \subseteq Events \X Dests
  BY Constants, FS_Product DEF IInv, TypeOK
<1>2. QED
  BY <1>1, FS_Subset, FS_CardinalityType

LEMMA OneMore ==
  ASSUME IInv, NEW z
  PROVE  /\ Cardinality(overcounted \cup {z}) \in Nat
         /\ Cardinality(overcounted \cup {z})
              = Cardinality(overcounted) + (IF z \in overcounted THEN 0 ELSE 1)
<1> DEFINE o == overcounted \cup {z}
<1>1. /\ IsFiniteSet(o)
      /\ Cardinality(o) = IF z \in overcounted THEN Cardinality(overcounted)
                                              ELSE Cardinality(overcounted) + 1
  BY OvercountedFinite, FS_AddElement
<1>2. Cardinality(o) \in Nat
  BY <1>1, FS_CardinalityType
<1> HIDE DEF o
<1>3. Cardinality(o) = Cardinality(overcounted) + (IF z \in overcounted THEN 0 ELSE 1)
  BY <1>1, OvercountedFinite
<1> QED
  BY <1>2, <1>3 DEF o

LEMMA FateType ==
  ASSUME IInv
  PROVE  fate \in [Events -> [Dests -> Fates]]
  BY DEF IInv, TypeOK

(* What was pending at one destination has its fate there.                 *)
LEMMA Settled ==
  ASSUME IInv, NEW e \in Events, NEW d \in Dests, NEW f \in Fates \ {"none"},
         e \in accepted, Pending(e, d), fate' = [fate EXCEPT ![e][d] = f], accepted' = accepted,
         \A x \in Events, c \in Dests : Pending(x, c)' <=> Pending(x, c) /\ <<x, c>> # <<e, d>>,
         \A x \in Events, c \in Dests :
           x \in In(queue'[c]) <=> \/ x \in In(queue[c])
                                   \/ f = "stored" /\ <<x, c>> = <<e, d>>
  PROVE  /\ fate' \in [Events -> [Dests -> Fates]] /\ Fated'
         /\ f # "lost" => Lost' = Lost
         /\ f = "lost" => Cardinality(Lost') = Cardinality(Lost) + 1
<1>1. fate' \in [Events -> [Dests -> Fates]] /\ fate'[e][d] = f
      /\ \A x \in Events, c \in Dests : <<x, c>> # <<e, d>> => fate'[x][c] = fate[x][c]
  BY FateType
<1>2. fate[e][d] = "none" /\ e \notin In(queue[d])
  BY DEF IInv, Fated
<1>3. Fated'
  <2> SUFFICES ASSUME NEW x \in Events, NEW c \in Dests
               PROVE  /\ fate'[x][c] = "none" <=> x \notin accepted \/ Pending(x, c)'
                      /\ fate'[x][c] = "stored" <=> x \in In(queue'[c])
    BY DEF Fated
  <2>1. /\ fate[x][c] = "none" <=> x \notin accepted \/ Pending(x, c)
        /\ fate[x][c] = "stored" <=> x \in In(queue[c])
    BY DEF IInv, Fated
  <2>2. Pending(x, c)' <=> Pending(x, c) /\ <<x, c>> # <<e, d>>
    OBVIOUS
  <2>3. x \in In(queue'[c]) <=> x \in In(queue[c]) \/ (f = "stored" /\ <<x, c>> = <<e, d>>)
    OBVIOUS
  <2>4. CASE <<x, c>> = <<e, d>>
    <3>1. x = e /\ c = d
      BY <2>4
    <3>2. QED
      BY <3>1, <2>2, <2>3, <2>4, <1>1, <1>2
  <2>5. CASE <<x, c>> # <<e, d>>
    <3>1. fate'[x][c] = fate[x][c]
      BY <2>5, <1>1
    <3>2. QED
      BY <3>1, <2>1, <2>2, <2>3, <2>5, Zenon
  <2>6. QED
    BY <2>4, <2>5, Zenon
<1>4. f # "lost" => Lost' = Lost
  BY <1>1, <1>2 DEF Lost
<1>5. ASSUME f = "lost" PROVE Cardinality(Lost') = Cardinality(Lost) + 1
  <2>1. Lost' = Lost \cup {<<e, d>>} /\ <<e, d>> \notin Lost
    <3>1. \A z \in Events \X Dests : z = <<z[1], z[2]>> /\ z[1] \in Events /\ z[2] \in Dests
      OBVIOUS
    <3>2. <<e, d>> \notin Lost
      BY <1>2 DEF Lost
    <3>3. \A z \in Events \X Dests : z \in Lost' <=> z \in Lost \/ z = <<e, d>>
      BY <3>1, <1>1, <1>5 DEF Lost
    <3>4. QED
      BY <3>2, <3>3 DEF Lost
  <2>2. QED
    BY <2>1, LostFinite, FS_AddElement
<1>6. QED
  BY <1>1, <1>3, <1>4, <1>5

LEMMA TakenUnchanged ==
  ASSUME IInv, UNCHANGED <<conf, channel, gone, accepted>>
  PROVE  (conf.cut \cap Taken)' = conf.cut \cap Taken
  BY Zenon DEF Taken
-----------------------------------------------------------------------------
(* The pipeline takes an event out of the channel: its bytes are back.     *)

LEMMA TakeStep ==
  ASSUME IInv, Take
  PROVE  IInv'
<1> DEFINE e == Head(channel)
<1>1. /\ pipeline \in {"running", "drain"} /\ handling = None /\ channel # <<>>
      /\ channel' = Tail(channel) /\ permits' = permits + Size[e]
      /\ gauge' = gauge - (IF Size[e] < gauge THEN Size[e] ELSE gauge)
      /\ UNCHANGED <<conf, cancelled, sender, waiters, pipeline, router, queue, failures, healthy,
                     accepted, early, gone, faultv>>
  BY DEF Take, Released, inputv, destv, healthv, entryv, faultv
<1>2. /\ e \in Events /\ e \in In(channel) /\ e \in accepted /\ Size[e] \in Nat
      /\ channel' \in Seq(Events) /\ Len(channel') <= ChannelCapacity /\ Distinct(channel')
      /\ In(channel') = In(channel) \ {e}
  <2>1. channel \in Seq(Events) /\ Len(channel) \in Nat /\ Len(channel) <= ChannelCapacity
        /\ Distinct(channel) /\ In(channel) \subseteq accepted
    BY DEF IInv, TypeOK, Places
  <2>2. QED
    BY <1>1, <2>1, InTail, Constants
<1>3. gone = {} /\ gone' = {}
  BY <1>1 DEF IInv, Ending
<1>4. Inputs'
  BY <1>1, InputsUnchanged
<1>5. /\ gauge' = Bytes(Inside' \cup gone') /\ gauge' \in Nat /\ permits' \in Nat
      /\ Bytes(Inside) = Bytes(Inside') + Size[e] /\ Bytes(Inside') \in Nat
  <2>1. Inside' = Inside \ {e} /\ e \in Inside /\ Inside \in SUBSET Events
    <3>1. Held' = Held
      BY <1>1 DEF Held, Holding
    <3>2. Inside = In(channel) \cup Held /\ Held \cap accepted = {} /\ Inside \in SUBSET Events
      BY InsideType
    <3>3. Inside' = In(channel') \cup Held'
      BY DEF Inside, Held
    <3>4. QED
      BY <3>1, <3>2, <3>3, <1>2
  <2>2. Bytes(Inside' \cup {e}) = Bytes(Inside') + Size[e] /\ Bytes(Inside') \in Nat
    BY <2>1, <1>2, BytesAdd, BytesFinite
  <2>3. Inside' \cup {e} = Inside /\ Inside \cup gone = Inside /\ Inside' \cup gone' = Inside'
    BY <2>1, <1>3
  <2>4. gauge = Bytes(Inside) /\ permits \in Nat
    BY <2>3 DEF IInv, Budgeted, TypeOK
  <2>5. Bytes(Inside) = Bytes(Inside') + Size[e]
    BY <2>2, <2>3, Zenon
  <2>6. gauge' = Bytes(Inside')
    BY <1>1, <1>2, <2>2, <2>4, <2>5
  <2>7. gauge' = Bytes(Inside' \cup gone')
    BY <2>3, <2>6, Zenon
  <2>8. gauge' \in Nat /\ permits' \in Nat
    BY <1>1, <1>2, <2>2, <2>4, <2>6
  <2>9. QED
    BY <2>2, <2>5, <2>7, <2>8
<1>6. Budgeted'
  <2>1. ~cancelled => permits + Bytes(Inside) = Budget
    BY DEF IInv, Budgeted
  <2>2. ~cancelled' => permits' + Bytes(Inside') = Budget
    <3> SUFFICES ASSUME ~cancelled PROVE permits' + Bytes(Inside') = Budget
      BY <1>1, Zenon
    <3>1. permits + Bytes(Inside) = Budget
      BY <2>1, Zenon
    <3>2. permits \in Nat
      BY DEF IInv, TypeOK
    <3>3. QED
      BY <1>1, <1>2, <1>5, <3>1, <3>2
  <2>3. QED
    BY <1>5, <2>2, Zenon DEF Budgeted, Bytes
<1>7. /\ todo = <<>> /\ In(todo) = {}
      /\ \A d \in Dests : e \notin In(router[d]) /\ In(router[d]) \subseteq accepted
  BY <1>1, <1>2, InEmpty DEF IInv, Places, Dropped
<1>8. \A d \in Dests : fate[e][d] = "none"
  BY <1>2 DEF IInv, Fated, Pending
<1>9. /\ \A x : Dropped(x)' <=> Dropped(x) /\ x # e
      /\ \A x \in Events, d \in Dests : ~InHand(x, d)
  BY <1>2, <1>3, <1>7 DEF Dropped, InHand
<1>10. Taken' = Taken \cup {e} /\ e \notin Taken
  BY <1>1, <1>2, <1>3 DEF Taken
<1>11. CASE e \in conf.cut
  <2>1. fate' = [fate EXCEPT ![e] = [d \in Dests |-> "cut"]] /\ dropped' = dropped + 1
        /\ handling' = handling /\ todo' = todo
    BY <1>11 DEF Take
  <2>2. /\ fate' \in [Events -> [Dests -> Fates]] /\ \A d \in Dests : fate'[e][d] = "cut"
        /\ \A x \in Events \ {e} : fate'[x] = fate[x]
    BY <1>2, <2>1, FateType DEF Fates
  <2>3. TypeOK'
    <3>1. dropped' \in Nat
      BY <2>1 DEF IInv, TypeOK
    <3>2. QED
      BY <1>1, <1>2, <1>5, <2>1, <2>2, <3>1, Zenon DEF IInv, TypeOK, faultv, QueueCapacity
  <2>4. Places'
    <3>1. In(channel') \subseteq accepted
      BY <1>2 DEF IInv, Places
    <3>2. ~Dropped(handling)'
      BY <1>9, <2>1, Zenon DEF IInv, Places, Dropped
    <3>3. \A d \in Dests : /\ In(router'[d]) \subseteq accepted
                           /\ \A x \in In(router'[d]) : ~Dropped(x)' /\ ~InHand(x, d)'
      <4>1. ASSUME NEW d \in Dests, NEW x \in In(router[d]) PROVE ~Dropped(x)' /\ ~InHand(x, d)'
        BY <1>7, <1>9, <2>1, Zenon DEF IInv, Places, InHand
      <4>2. QED
        BY <1>1, <1>7, <4>1, Zenon
    <3>4. QED
      BY <1>1, <1>2, <2>1, <3>1, <3>2, <3>3, Zenon DEF IInv, Places
  <2>5. Fated'
    <3> SUFFICES ASSUME NEW x \in Events, NEW d \in Dests
                 PROVE  /\ fate'[x][d] = "none" <=> x \notin accepted \/ Pending(x, d)'
                        /\ fate'[x][d] = "stored" <=> x \in In(queue[d])
      BY <1>1 DEF Fated
    <3>1. /\ fate[x][d] = "none" <=> x \notin accepted \/ Pending(x, d)
          /\ fate[x][d] = "stored" <=> x \in In(queue[d])
      BY DEF IInv, Fated
    <3>2. Pending(x, d) <=> Dropped(x) \/ x \in In(router[d])
      BY <1>9 DEF Pending, Dropped, InHand
    <3>3. Pending(x, d)' <=> Dropped(x)' \/ x \in In(router[d])
      BY <1>1, <1>7, <2>1 DEF Pending, Dropped
    <3>4. CASE x = e
      <4>1. ~Pending(x, d)' /\ fate'[x][d] = "cut" /\ fate[x][d] = "none"
        BY <3>3, <3>4, <1>7, <1>8, <1>9, <2>2
      <4>2. QED
        BY <3>1, <3>4, <4>1, <1>2
    <3>5. CASE x # e
      BY <3>1, <3>2, <3>3, <3>5, <1>9, <2>2
    <3>6. QED
      BY <3>4, <3>5
  <2>6. Counts'
    <3>1. Lost' = Lost
      BY <1>8, <2>2 DEF Lost
    <3>2. conf'.cut \cap Taken' = (conf.cut \cap Taken) \cup {e} /\ e \notin conf.cut \cap Taken
      BY <1>1, <1>10, <1>11
    <3>3. Cardinality(conf'.cut \cap Taken') = Cardinality(conf.cut \cap Taken) + 1
      BY <3>2, TakenCutFinite, FS_AddElement
    <3>4. QED
      BY <1>1, <2>1, <3>1, <3>3, LostFinite, TakenCutFinite, OvercountedFinite DEF IInv, Counts, faultv
  <2>7. Ending'
    BY <1>1, <1>3 DEF IInv, Ending
  <2>8. QED
    BY <1>4, <1>6, <2>3, <2>4, <2>5, <2>6, <2>7 DEF IInv
<1>12. CASE e \notin conf.cut
  <2>1. fate' = fate /\ dropped' = dropped /\ todo' = Order
        /\ handling' = IF Order = <<>> THEN None ELSE e
    BY <1>12 DEF Take
  <2>2. \A d \in Dests : Order # <<>>
    BY Constants, InEmpty
  <2>3. TypeOK'
    <3>1. handling' \in Events \cup {None} /\ todo' \in Seq(Dests)
      BY <1>2, <2>1, Constants
    <3>2. QED
      BY <1>1, <1>2, <1>5, <2>1, <3>1, Zenon DEF IInv, TypeOK, faultv, QueueCapacity
  <2>4. Places'
    <3>1. In(channel') \subseteq accepted
      BY <1>2 DEF IInv, Places
    <3>2. handling' \in accepted \cup {None} /\ handling' \notin In(channel') \cup gone'
      <4>1. None \notin In(channel) \cup gone
        BY <1>1 DEF IInv, Places, Dropped
      <4>2. QED
        BY <4>1, <1>2, <1>3, <2>1
    <3>3. \A d \in Dests : /\ In(router'[d]) \subseteq accepted
                           /\ \A x \in In(router'[d]) : ~Dropped(x)' /\ ~InHand(x, d)'
      <4>1. ASSUME NEW d \in Dests, NEW x \in In(router[d]) PROVE ~Dropped(x)' /\ ~InHand(x, d)'
        <5>1. ~Dropped(x)
          BY Zenon DEF IInv, Places
        <5>2. x # e
          BY <1>7
        <5>3. handling' = e
          BY <2>1, <2>2
        <5>4. QED
          BY <5>1, <5>2, <5>3, <1>9, Zenon DEF InHand
      <4>2. QED
        BY <1>1, <1>7, <4>1, Zenon
    <3>4. handling' = None <=> todo' = <<>>
      BY <2>1, <1>2, Constants
    <3>5. Distinct(todo')
      BY <2>1, Constants
    <3>6. \A d \in Dests : Distinct(router'[d]) /\ Distinct(queue'[d])
      BY <1>1 DEF IInv, Places
    <3>7. QED
      BY <1>1, <1>2, <3>1, <3>2, <3>3, <3>4, <3>5, <3>6, Zenon DEF Places, Dropped
  <2>5. Fated'
    <3> SUFFICES ASSUME NEW x \in Events, NEW d \in Dests
                 PROVE  /\ fate[x][d] = "none" <=> x \notin accepted \/ Pending(x, d)'
                        /\ fate[x][d] = "stored" <=> x \in In(queue[d])
      BY <1>1, <2>1 DEF Fated
    <3>1. /\ fate[x][d] = "none" <=> x \notin accepted \/ Pending(x, d)
          /\ fate[x][d] = "stored" <=> x \in In(queue[d])
      BY DEF IInv, Fated
    <3>2. Pending(x, d) <=> Dropped(x) \/ x \in In(router[d])
      BY <1>9 DEF Pending, Dropped, InHand
    <3>3. handling' = e /\ d \in In(todo')
      BY <2>1, <2>2, Constants
    <3>4. Pending(x, d)' <=> Dropped(x)' \/ x = e \/ x \in In(router[d])
      BY <1>1, <3>3 DEF Pending, Dropped
    <3>5. Dropped(e)
      BY <1>2 DEF Dropped
    <3>6. QED
      BY <3>1, <3>2, <3>4, <3>5, <1>9
  <2>6. Counts'
    <3>1. Lost' = Lost
      BY <2>1, Zenon DEF Lost
    <3>2. conf'.cut \cap Taken' = conf.cut \cap Taken
      BY <1>1, <1>10, <1>12
    <3>3. QED
      BY <1>1, <2>1, <3>1, <3>2, Zenon DEF IInv, Counts, faultv
  <2>7. Ending'
    BY <1>1, <1>3 DEF IInv, Ending
  <2>8. QED
    BY <1>4, <1>6, <2>3, <2>4, <2>5, <2>6, <2>7 DEF IInv
<1>13. QED
  BY <1>11, <1>12
-----------------------------------------------------------------------------
(* The pipeline is done with one router.                                   *)

LEMMA Advanced ==
  ASSUME IInv, handling # None, Advance, UNCHANGED <<channel, gone, accepted>>
  PROVE  /\ Head(todo) \in Dests /\ handling \in Events /\ handling \in accepted
         /\ todo' \in Seq(Dests) /\ Distinct(todo') /\ handling' \in {handling, None}
         /\ handling' = None <=> todo' = <<>>
         /\ ~Dropped(handling)' /\ InHand(handling, Head(todo))
         /\ \A x \in Events, d \in Dests :
              InHand(x, d)' <=> InHand(x, d) /\ <<x, d>> # <<handling, Head(todo)>>
         /\ \A x : Dropped(x)' <=> Dropped(x)
<1>1. todo \in Seq(Dests) /\ Distinct(todo) /\ todo # <<>>
      /\ handling \in accepted \cup {None} /\ ~Dropped(handling) /\ accepted \subseteq Events
  BY DEF IInv, Places, TypeOK
<1>2. /\ Head(todo) \in Dests /\ Head(todo) \in In(todo)
      /\ todo' \in Seq(Dests) /\ Distinct(todo') /\ In(todo') = In(todo) \ {Head(todo)}
      /\ todo' = <<>> <=> Len(todo) = 1
  BY <1>1, InTail DEF Advance
<1>3. handling' = IF todo' = <<>> THEN None ELSE handling
  BY <1>2, Zenon DEF Advance
<1>4. None \notin Events
  BY Constants
<1>5. \A x : Dropped(x)' <=> Dropped(x)
  BY Zenon DEF Dropped
<1>6. ~Dropped(handling)'
  <2>1. In(channel') \cup gone' = In(channel) \cup gone
    BY Zenon
  <2>2. None \notin In(channel) \cup gone
    BY <1>4 DEF IInv, Places, TypeOK
  <2>3. handling' \notin In(channel) \cup gone
    BY <2>2, <1>1, <1>3 DEF Dropped
  <2>4. QED
    BY <2>1, <2>3, Zenon DEF Dropped
<1>7. ASSUME NEW x \in Events, NEW d \in Dests
      PROVE  InHand(x, d)' <=> InHand(x, d) /\ <<x, d>> # <<handling, Head(todo)>>
  <2>1. CASE todo' = <<>>
    <3>1. In(todo) = {Head(todo)} /\ handling' # x
      BY <2>1, <1>2, <1>3, <1>4, InEmpty
    <3>2. QED
      BY <3>1 DEF InHand
  <2>2. CASE todo' # <<>>
    <3>1. handling' = handling
      BY <2>2, <1>3
    <3>2. QED
      BY <3>1, <1>2 DEF InHand
  <2>3. QED
    BY <2>1, <2>2
<1>8. QED
  BY <1>1, <1>2, <1>3, <1>4, <1>5, <1>6, <1>7 DEF InHand

LEMMA AdvancedPlaces ==
  ASSUME IInv, handling # None, Advance, UNCHANGED <<channel, gone, accepted, queue>>,
         NEW d \in Dests, d = Head(todo), router' \in [Dests -> Seq(Events)],
         \A c \in Dests \ {d} : router'[c] = router[c],
         Distinct(router'[d]), In(router'[d]) \subseteq In(router[d]) \cup {handling}
  PROVE  Places'
<1>1. ASSUME NEW c \in Dests
      PROVE  /\ Distinct(router'[c]) /\ In(router'[c]) \subseteq accepted
             /\ \A x \in In(router'[c]) : ~Dropped(x)' /\ ~InHand(x, c)'
  <2>1. /\ Distinct(router[c]) /\ In(router[c]) \subseteq accepted /\ accepted \subseteq Events
        /\ \A x \in In(router[c]) : ~Dropped(x) /\ ~InHand(x, c)
    BY DEF IInv, Places, TypeOK
  <2>2. CASE c = d
    <3>1. \A x \in In(router'[c]) : x \in In(router[c]) \/ x = handling
      BY <2>2
    <3>2. handling \in accepted /\ handling \in Events /\ ~Dropped(handling)
      BY Advanced DEF IInv, Places
    <3>3. \A x \in Events : Dropped(x)' <=> Dropped(x)
      BY Advanced
    <3>4. \A x \in Events : InHand(x, c)' <=> InHand(x, c) /\ <<x, c>> # <<handling, Head(todo)>>
      BY Advanced
    <3>5. QED
      BY <2>1, <2>2, <3>1, <3>2, <3>3, <3>4
  <2>3. CASE c # d
    <3>1. router'[c] = router[c]
      BY <2>3
    <3>2. \A x \in Events : Dropped(x)' <=> Dropped(x)
      BY Advanced
    <3>3. \A x \in Events : InHand(x, c)' => InHand(x, c)
      BY Advanced
    <3>4. QED
      BY <2>1, <3>1, <3>2, <3>3
  <2>4. QED
    BY <2>2, <2>3
<1>2. /\ Distinct(todo') /\ handling' \in accepted \cup {None} /\ ~Dropped(handling)'
      /\ handling' = None <=> todo' = <<>>
  BY Advanced
<1>3. Distinct(channel) /\ In(channel) \subseteq accepted
      /\ \A c \in Dests : Distinct(queue[c])
  BY DEF IInv, Places
<1>4. QED
  BY <1>1, <1>2, <1>3, Zenon DEF Places

(* Withheld, filtered or shed: it is settled at this destination.          *)
LEMMA SettledInHand ==
  ASSUME IInv, handling # None, Advance, NEW f \in Fates \ {"none", "stored"},
         Becomes(Head(todo), f), dropped' = IF f = "lost" THEN dropped + 1 ELSE dropped,
         UNCHANGED <<conf, cancelled, inputv, channelv, pipeline, destv, healthv, entryv, gone,
                     faultv>>
  PROVE  IInv'
<1> DEFINE d == Head(todo)
<1> USE DEF inputv, channelv, destv, healthv, entryv, faultv
<1>1. /\ d \in Dests /\ handling \in Events /\ handling \in accepted
      /\ todo' \in Seq(Dests) /\ handling' \in {handling, None} /\ InHand(handling, d)
      /\ \A x : Dropped(x)' <=> Dropped(x)
  BY Advanced
<1>2. Inputs' /\ Budgeted'
  BY InputsUnchanged, BudgetUnchanged
<1>3. Places'
  <2>1. router \in [Dests -> Seq(Events)] /\ Distinct(router[d])
    BY <1>1 DEF IInv, TypeOK, Places
  <2>2. QED
    BY <1>1, <2>1, AdvancedPlaces
<1>4. /\ fate' \in [Events -> [Dests -> Fates]] /\ Fated'
      /\ f # "lost" => Lost' = Lost
      /\ f = "lost" => Cardinality(Lost') = Cardinality(Lost) + 1
  <2>1. ASSUME NEW x \in Events, NEW c \in Dests
        PROVE  Pending(x, c)' <=> Pending(x, c) /\ <<x, c>> # <<handling, d>>
    <3>1. InHand(x, c)' <=> InHand(x, c) /\ <<x, c>> # <<handling, d>>
      BY Advanced
    <3>2. Pending(x, c) <=> Dropped(x) \/ InHand(x, c) \/ x \in In(router[c])
      BY Zenon DEF Pending, Dropped, InHand
    <3>3. Pending(x, c)' <=> Dropped(x)' \/ InHand(x, c)' \/ x \in In(router[c])
      BY Zenon DEF Pending, Dropped, InHand
    <3>4. InHand(x, c) /\ <<x, c>> = <<handling, d>> => ~Dropped(x) /\ x \notin In(router[c])
      BY DEF IInv, Places
    <3>5. <<x, c>> = <<handling, d>> => InHand(x, c)
      BY <1>1
    <3>6. QED
      BY <1>1, <3>1, <3>2, <3>3, <3>4, <3>5, Zenon
  <2>2. Pending(handling, d)
    BY <1>1 DEF Pending, InHand
  <2>3. \A x \in Events, c \in Dests :
          x \in In(queue'[c]) <=> \/ x \in In(queue[c])
                                  \/ f = "stored" /\ <<x, c>> = <<handling, d>>
    OBVIOUS
  <2>4. fate' = [fate EXCEPT ![handling][d] = f] /\ accepted' = accepted
    BY DEF Becomes
  <2>5. QED
    BY <1>1, <2>1, <2>2, <2>3, <2>4, Settled
<1>5. Counts'
  <2>1. (conf.cut \cap Taken)' = conf.cut \cap Taken
    BY TakenUnchanged
  <2>2. CASE f = "lost"
    <3>1. dropped' = dropped + 1 /\ Cardinality(Lost') = Cardinality(Lost) + 1
      BY <2>2, <1>4
    <3>2. dropped = Cardinality(Lost) + Cardinality(conf.cut \cap Taken)
                      + Cardinality(overcounted)
      BY DEF IInv, Counts
    <3>3. dropped' = Cardinality(Lost') + Cardinality(conf.cut \cap Taken)
                       + Cardinality(overcounted')
      BY <3>1, <3>2, LostFinite, TakenCutFinite, OvercountedFinite
    <3>4. QED
      BY <2>1, <3>3, Zenon DEF Counts
  <2>3. CASE f # "lost"
    <3>1. dropped' = dropped /\ Lost' = Lost
      BY <2>3, <1>4
    <3>2. QED
      BY <2>1, <3>1, Zenon DEF IInv, Counts
  <2>4. QED
    BY <2>2, <2>3
<1>6. TypeOK'
  <2>1. dropped' \in Nat
    BY DEF IInv, TypeOK
  <2>2. handling' \in Events \cup {None}
    BY <1>1
  <2>3. QED
    BY <1>1, <1>4, <2>1, <2>2, Zenon DEF IInv, TypeOK, QueueCapacity
<1>7. Ending'
  BY Zenon DEF IInv, Ending
<1>8. QED
  BY <1>2, <1>3, <1>4, <1>5, <1>6, <1>7 DEF IInv

LEMMA SkipStep ==
  ASSUME IInv, Skip
  PROVE  IInv'
<1>1. handling # None /\ Advance /\ dropped' = dropped
      /\ UNCHANGED <<conf, cancelled, inputv, channelv, pipeline, destv, healthv, entryv, gone,
                     faultv>>
  BY DEF Skip
<1>2. PICK f \in {"withheld", "filtered"} : Becomes(Head(todo), f)
  BY Zenon DEF Skip
<1>3. f \in Fates \ {"none", "stored"} /\ f # "lost"
  BY DEF Fates
<1>4. dropped' = IF f = "lost" THEN dropped + 1 ELSE dropped
  BY <1>1, <1>3
<1>5. QED
  BY <1>1, <1>2, <1>3, <1>4, SettledInHand

LEMMA ShedStep ==
  ASSUME IInv, Shed
  PROVE  IInv'
<1>1. handling # None /\ Advance /\ dropped' = dropped + 1 /\ Becomes(Head(todo), "lost")
      /\ UNCHANGED <<conf, cancelled, inputv, channelv, pipeline, destv, healthv, entryv, gone,
                     faultv>>
  BY DEF Shed, Offered
<1>2. "lost" \in Fates \ {"none", "stored"}
  BY DEF Fates
<1>3. QED
  BY <1>1, <1>2, SettledInHand

LEMMA RouteStep ==
  ASSUME IInv, Route
  PROVE  IInv'
<1> USE DEF inputv, channelv, healthv, entryv, faultv
<1>1. PICK d \in Dests : /\ Offered(d) /\ Room(d)
                         /\ router' = [router EXCEPT ![d] = Append(@, handling)]
  BY DEF Route
<1>2. /\ handling # None /\ d = Head(todo) /\ Advance
      /\ UNCHANGED <<conf, cancelled, inputv, channelv, pipeline, queue, healthv, dropped, fate,
                     entryv, gone, faultv>>
  BY <1>1 DEF Route, Offered
<1>3. /\ handling \in Events /\ handling \in accepted
      /\ todo' \in Seq(Dests) /\ handling' \in {handling, None} /\ InHand(handling, d)
      /\ \A x : Dropped(x)' <=> Dropped(x)
  BY <1>2, Advanced
<1>4. router \in [Dests -> Seq(Events)] /\ Distinct(router[d]) /\ handling \notin In(router[d])
      /\ \A c \in Dests : Len(router[c]) <= RouterCapacity
  BY <1>3 DEF IInv, TypeOK, Places
<1>5. /\ router'[d] = Append(router[d], handling)
      /\ router'[d] \in Seq(Events) /\ Distinct(router'[d])
      /\ In(router'[d]) = In(router[d]) \cup {handling}
      /\ \A c \in Dests \ {d} : router'[c] = router[c]
      /\ Len(router'[d]) = Len(router[d]) + 1
  BY <1>1, <1>3, <1>4, InAppend
<1>6. router' \in [Dests -> Seq(Events)] /\ \A c \in Dests : Len(router'[c]) <= RouterCapacity
  <2>1. router' \in [Dests -> Seq(Events)]
    BY <1>1, <1>3, <1>4, <1>5
  <2>2. Len(router'[d]) <= RouterCapacity
    BY <1>1, <1>4, <1>5, Constants DEF Room
  <2>3. QED
    BY <1>4, <1>5, <2>1, <2>2
<1>7. Inputs' /\ Budgeted'
  BY <1>2, InputsUnchanged, BudgetUnchanged
<1>8. Places'
  BY <1>2, <1>5, <1>6, AdvancedPlaces
<1>9. Fated'
  <2> SUFFICES ASSUME NEW x \in Events, NEW c \in Dests PROVE Pending(x, c)' <=> Pending(x, c)
    BY <1>2, Zenon DEF IInv, Fated
  <2>1. InHand(x, c)' <=> InHand(x, c) /\ <<x, c>> # <<handling, d>>
    BY <1>2, Advanced
  <2>2. Pending(x, c) <=> Dropped(x) \/ InHand(x, c) \/ x \in In(router[c])
    BY Zenon DEF Pending, Dropped, InHand
  <2>3. Pending(x, c)' <=> Dropped(x)' \/ InHand(x, c)' \/ x \in In(router'[c])
    BY Zenon DEF Pending, Dropped, InHand
  <2>4. x \in In(router'[c]) <=> x \in In(router[c]) \/ <<x, c>> = <<handling, d>>
    BY <1>5
  <2>5. <<x, c>> = <<handling, d>> => InHand(x, c)
    BY <1>3
  <2>6. QED
    BY <1>3, <2>1, <2>2, <2>3, <2>4, <2>5, Zenon
<1>10. Counts'
  <2>1. Lost' = Lost /\ (conf.cut \cap Taken)' = conf.cut \cap Taken /\ dropped' = dropped
    BY <1>2, TakenUnchanged, Zenon DEF Lost
  <2>2. QED
    BY <1>1, <1>2, <2>1, Zenon DEF IInv, Counts, faultv
<1>11. TypeOK'
  <2>1. handling' \in Events \cup {None}
    BY <1>3
  <2>2. QED
    BY <1>2, <1>3, <1>6, <2>1, Zenon DEF IInv, TypeOK, QueueCapacity
<1>12. Ending'
  BY <1>2, Zenon DEF IInv, Ending
<1>13. QED
  BY <1>7, <1>8, <1>9, <1>10, <1>11, <1>12 DEF IInv
-----------------------------------------------------------------------------
(* The end of the pipeline.                                                *)

(* Where the events are is not touched.                                    *)
LEMMA EventsStay ==
  ASSUME IInv, UNCHANGED <<conf, sender, waiters, channelv, handling, todo, destv, dropped, fate,
                           entryv, gone, overcounted>>
  PROVE  Places' /\ Fated' /\ Counts'
<1> USE DEF channelv, destv, entryv
<1>1. Places'
  BY Zenon DEF IInv, Places, Dropped, InHand
<1>2. Fated'
  BY Zenon DEF IInv, Fated, Pending
<1>3. Counts'
  BY Zenon DEF IInv, Counts, Lost, Taken
<1>4. QED
  BY <1>1, <1>2, <1>3

LEMMA DrainStep ==
  ASSUME IInv, StartDrain \/ Drained
  PROVE  IInv'
<1> USE DEF inputv, channelv, destv, healthv, entryv, faultv
<1>1. /\ \/ pipeline = "running" /\ cancelled /\ pipeline' = "drain"
         \/ pipeline = "drain" /\ channel = <<>> /\ pipeline' = "closing"
      /\ UNCHANGED <<conf, cancelled, inputv, channelv, handling, todo, destv, healthv, dropped,
                     fate, entryv, gone, faultv>>
  BY DEF StartDrain, Drained, DrainsFirst
<1>2. Inputs' /\ Budgeted' /\ Places' /\ Fated' /\ Counts'
  BY <1>1, InputsUnchanged, BudgetUnchanged, EventsStay
<1>3. TypeOK'
  <2>1. pipeline' \in {"running", "drain", "closing", "done"}
    BY <1>1
  <2>2. QED
    BY <1>1, <2>1, Zenon DEF IInv, TypeOK, QueueCapacity
<1>4. Ending'
  BY <1>1, InEmpty DEF IInv, Ending
<1>5. QED
  BY <1>2, <1>3, <1>4 DEF IInv

LEMMA CancelStep ==
  ASSUME IInv, Cancel
  PROVE  IInv'
<1> USE DEF inputv, channelv, pipelinev, destv, healthv, entryv, faultv
<1>1. /\ cancelled' = TRUE
      /\ UNCHANGED <<conf, inputv, channelv, pipelinev, destv, healthv, dropped, fate, entryv,
                     gone, faultv>>
  BY DEF Cancel
<1>2. Places' /\ Fated' /\ Counts'
  BY <1>1, EventsStay
<1>3. TypeOK'
  BY <1>1, Zenon DEF IInv, TypeOK, QueueCapacity
<1>4. Inputs'
  BY <1>1, Zenon DEF IInv, Inputs
<1>5. Budgeted'
  <2>1. Inside' = Inside
    BY <1>1, Zenon DEF Inside, Holding
  <2>2. QED
    BY <1>1, <2>1, Zenon DEF IInv, Budgeted, Bytes
<1>6. Ending'
  BY <1>1, Zenon DEF IInv, Ending
<1>7. QED
  BY <1>2, <1>3, <1>4, <1>5, <1>6 DEF IInv

LEMMA ReturnStep ==
  ASSUME IInv, Return
  PROVE  IInv'
<1> USE DEF inputv, destv, healthv, entryv, faultv
<1>1. /\ \/ pipeline = "closing"
         \/ channel = <<>> /\ cancelled /\ pipeline = "running"
      /\ pipeline' = "done" /\ gone' = gone \cup In(channel) /\ channel' = <<>>
      /\ UNCHANGED <<conf, cancelled, inputv, permits, gauge, handling, todo, destv, healthv,
                     dropped, fate, entryv, faultv>>
  BY DEF Return
<1>2. cancelled /\ gone = {} /\ In(channel) \cap early = {}
  BY <1>1, InEmpty DEF IInv, Ending
<1>3. In(channel') = {} /\ Distinct(channel') /\ channel' \in Seq(Events)
      /\ Len(channel') <= ChannelCapacity
  BY <1>1, InEmpty, Constants
<1>4. \A x : Dropped(x)' <=> Dropped(x)
  BY <1>1, <1>3 DEF Dropped
<1>5. Inputs'
  BY <1>1, InputsUnchanged
<1>6. Budgeted'
  <2>1. Held' = Held
    BY <1>1, Zenon DEF Held, Holding
  <2>2. Inside' \cup gone' = Inside \cup gone
    BY <1>1, <1>3, <2>1 DEF Inside, Held
  <2>3. QED
    BY <1>1, <1>2, <2>2, Zenon DEF IInv, Budgeted, Bytes
<1>7. TypeOK'
  <2>1. gone' \subseteq accepted'
    BY <1>1 DEF IInv, TypeOK, Places
  <2>2. QED
    BY <1>1, <1>3, <2>1, Zenon DEF IInv, TypeOK, QueueCapacity
<1>8. Places'
  <2>1. ~Dropped(handling)'
    <3>1. Dropped(handling)' <=> handling \in In(channel') \cup gone'
      BY <1>1, Zenon DEF Dropped
    <3>2. QED
      BY <1>1, <1>3, <3>1 DEF IInv, Places, Dropped
  <2>2. ASSUME NEW d \in Dests
        PROVE  /\ In(router'[d]) \subseteq accepted'
               /\ \A x \in In(router'[d]) : ~Dropped(x)' /\ ~InHand(x, d)'
    BY <1>1, <1>4, Zenon DEF IInv, Places, InHand
  <2>3. In(channel') \subseteq accepted'
    BY <1>3
  <2>4. Distinct(todo') /\ (\A d \in Dests : Distinct(router'[d]) /\ Distinct(queue'[d]))
        /\ (handling' = None <=> todo' = <<>>) /\ handling' \in accepted' \cup {None}
    BY <1>1, Zenon DEF IInv, Places
  <2>5. QED
    BY <1>3, <2>1, <2>2, <2>3, <2>4, Zenon DEF Places
<1>9. Fated'
  <2> SUFFICES ASSUME NEW x \in Events, NEW d \in Dests PROVE Pending(x, d)' <=> Pending(x, d)
    BY <1>1, Zenon DEF IInv, Fated
  <2>1. Dropped(x)' <=> Dropped(x)
    BY <1>4
  <2>2. QED
    BY <1>1, <2>1, Zenon DEF Pending, Dropped
<1>10. Counts'
  <2>1. Lost' = Lost
    BY <1>1, Zenon DEF Lost
  <2>2. Taken' = Taken
    BY <1>1, <1>3 DEF Taken
  <2>3. QED
    BY <1>1, <2>1, <2>2, Zenon DEF IInv, Counts
<1>11. Ending'
  BY <1>1, <1>2 DEF IInv, Ending
<1>12. QED
  BY <1>5, <1>6, <1>7, <1>8, <1>9, <1>10, <1>11 DEF IInv

-----------------------------------------------------------------------------
(* A router and the worker of its queue.                                   *)

LEMMA Popped ==
  ASSUME IInv, NEW d \in Dests, Pushes(d), router' = [router EXCEPT ![d] = Tail(@)]
  PROVE  /\ Head(router[d]) \in Events /\ Head(router[d]) \in accepted
         /\ Head(router[d]) \in In(router[d]) /\ Pending(Head(router[d]), d)
         /\ fate[Head(router[d])][d] = "none" /\ Head(router[d]) \notin In(queue[d])
         /\ router' \in [Dests -> Seq(Events)]
         /\ \A c \in Dests : Len(router'[c]) <= RouterCapacity /\ Distinct(router'[c])
         /\ \A x \in Events, c \in Dests :
              x \in In(router'[c]) <=> x \in In(router[c]) /\ <<x, c>> # <<Head(router[d]), d>>
<1>1. /\ router \in [Dests -> Seq(Events)] /\ router[d] # <<>>
      /\ \A c \in Dests : Len(router[c]) <= RouterCapacity /\ Distinct(router[c])
      /\ In(router[d]) \subseteq accepted
  BY DEF IInv, TypeOK, Places, Pushes
<1>2. /\ Tail(router[d]) \in Seq(Events) /\ Len(Tail(router[d])) = Len(router[d]) - 1
      /\ Head(router[d]) \in Events /\ Head(router[d]) \in In(router[d])
      /\ Distinct(Tail(router[d])) /\ In(Tail(router[d])) = In(router[d]) \ {Head(router[d])}
  BY <1>1, InTail
<1>3. router'[d] = Tail(router[d]) /\ \A c \in Dests \ {d} : router'[c] = router[c]
  BY <1>1
<1>4. router' \in [Dests -> Seq(Events)]
  BY <1>1, <1>2
<1>5. ASSUME NEW c \in Dests
      PROVE  Len(router'[c]) <= RouterCapacity /\ Distinct(router'[c])
  <2>1. Len(router[d]) \in Nat /\ Len(router[d]) <= RouterCapacity /\ RouterCapacity \in Nat
    BY <1>1, Constants
  <2>2. CASE c = d
    BY <2>1, <2>2, <1>2, <1>3
  <2>3. CASE c # d
    BY <2>3, <1>1, <1>3
  <2>4. QED
    BY <2>2, <2>3
<1>6. ASSUME NEW x \in Events, NEW c \in Dests
      PROVE  x \in In(router'[c]) <=> x \in In(router[c]) /\ <<x, c>> # <<Head(router[d]), d>>
  BY <1>2, <1>3
<1>7. Pending(Head(router[d]), d)
  BY <1>2 DEF Pending
<1>8. fate[Head(router[d])][d] = "none" /\ Head(router[d]) \notin In(queue[d])
  BY <1>2, <1>7 DEF IInv, Fated
<1>9. QED
  BY <1>1, <1>2, <1>4, <1>5, <1>6, <1>7, <1>8

LEMMA PoppedPlaces ==
  ASSUME IInv, NEW d \in Dests, Pushes(d), router' = [router EXCEPT ![d] = Tail(@)],
         UNCHANGED <<channel, pipelinev, accepted, gone>>,
         \A c \in Dests : Distinct(queue'[c])
  PROVE  /\ Places'
         /\ \A x \in Events, c \in Dests :
              Pending(x, c)' <=> Pending(x, c) /\ <<x, c>> # <<Head(router[d]), d>>
<1> USE DEF pipelinev, faultv
<1>1. \A x \in Events, c \in Dests :
        x \in In(router'[c]) <=> x \in In(router[c]) /\ <<x, c>> # <<Head(router[d]), d>>
  BY Popped
<1>2. router' \in [Dests -> Seq(Events)] /\ \A c \in Dests : Distinct(router'[c])
  BY Popped
<1>3. ASSUME NEW c \in Dests
      PROVE  /\ In(router'[c]) \subseteq accepted'
             /\ \A x \in In(router'[c]) : ~Dropped(x)' /\ ~InHand(x, c)'
  <2>1. In(router'[c]) \subseteq Events
    BY <1>2, InType
  <2>2. In(router'[c]) \subseteq In(router[c])
    BY <1>1, <2>1
  <2>3. QED
    BY <2>2 DEF IInv, Places, Dropped, InHand
<1>4. /\ Distinct(channel') /\ Distinct(todo') /\ In(channel') \subseteq accepted'
      /\ handling' \in accepted' \cup {None} /\ ~Dropped(handling)'
      /\ handling' = None <=> todo' = <<>>
  BY Zenon DEF IInv, Places, Dropped
<1>5. Places'
  BY <1>2, <1>3, <1>4, Zenon DEF Places
<1>6. ASSUME NEW x \in Events, NEW c \in Dests
      PROVE  Pending(x, c)' <=> Pending(x, c) /\ <<x, c>> # <<Head(router[d]), d>>
  <2>1. Pending(x, c) <=> Dropped(x) \/ InHand(x, c) \/ x \in In(router[c])
    BY Zenon DEF Pending, Dropped, InHand
  <2>2. Pending(x, c)' <=> Dropped(x) \/ InHand(x, c) \/ x \in In(router'[c])
    BY Zenon DEF Pending, Dropped, InHand
  <2>3. <<x, c>> = <<Head(router[d]), d>> => ~Dropped(x) /\ ~InHand(x, c)
    <3>1. Head(router[d]) \in In(router[d])
      BY Popped
    <3>2. ~Dropped(Head(router[d])) /\ ~InHand(Head(router[d]), d)
      BY <3>1, Zenon DEF IInv, Places
    <3>3. QED
      BY <3>2
  <2>4. QED
    BY <1>1, <2>1, <2>2, <2>3, Zenon
<1>7. QED
  BY <1>5, <1>6
(* Refused: it is lost here, and counted.                                  *)
LEMMA RefuseStep ==
  ASSUME IInv, NEW d \in Dests, Refuse(d)
  PROVE  IInv'
<1> USE DEF inputv, channelv, pipelinev, healthv, entryv, faultv
<1> DEFINE h == Head(router[d])
<1>1. /\ Pushes(d) /\ router' = [router EXCEPT ![d] = Tail(@)]
      /\ fate' = [fate EXCEPT ![h][d] = "lost"] /\ dropped' = dropped + 1
      /\ UNCHANGED <<conf, cancelled, inputv, channelv, pipelinev, queue, healthv, entryv, gone>>
  BY DEF Refuse, Pushed
<1>2. UNCHANGED faultv
  BY DEF Refuse
<1>3. /\ h \in Events /\ h \in accepted /\ Pending(h, d)
      /\ router' \in [Dests -> Seq(Events)]
      /\ \A c \in Dests : Len(router'[c]) <= RouterCapacity
  BY <1>1, Popped
<1>4. Inputs' /\ Budgeted'
  BY <1>1, InputsUnchanged, BudgetUnchanged
<1>5. Places' /\ \A x \in Events, c \in Dests :
                   Pending(x, c)' <=> Pending(x, c) /\ <<x, c>> # <<h, d>>
  <2>1. \A c \in Dests : Distinct(queue'[c])
    BY <1>1 DEF IInv, Places
  <2>2. QED
    BY <1>1, <2>1, PoppedPlaces
<1>6. fate' \in [Events -> [Dests -> Fates]] /\ Fated'
      /\ Cardinality(Lost') = Cardinality(Lost) + 1
  <2>1. "lost" \in Fates \ {"none"}
    BY DEF Fates
  <2>2. \A x \in Events, c \in Dests :
          x \in In(queue'[c]) <=> \/ x \in In(queue[c])
                                  \/ "lost" = "stored" /\ <<x, c>> = <<h, d>>
    BY <1>1
  <2>3. QED
    BY <1>1, <1>3, <1>5, <2>1, <2>2, Settled
<1>7. Counts'
  <2>1. (conf.cut \cap Taken)' = conf.cut \cap Taken
    BY <1>1, TakenUnchanged
  <2>2. dropped = Cardinality(Lost) + Cardinality(conf.cut \cap Taken)
                    + Cardinality(overcounted)
    BY DEF IInv, Counts
  <2>3. dropped' = Cardinality(Lost') + Cardinality(conf.cut \cap Taken)
                     + Cardinality(overcounted')
    BY <1>1, <1>2, <1>6, <2>2, LostFinite, TakenCutFinite, OvercountedFinite DEF faultv
  <2>4. QED
    BY <2>1, <2>3, Zenon DEF Counts
<1>8. TypeOK'
  <2>1. dropped' \in Nat
    BY <1>1 DEF IInv, TypeOK
  <2>2. QED
    BY <1>1, <1>2, <1>3, <1>6, <2>1, Zenon DEF IInv, TypeOK, QueueCapacity
<1>9. Ending'
  BY <1>1, Zenon DEF IInv, Ending
<1>10. QED
  BY <1>4, <1>5, <1>6, <1>7, <1>8, <1>9 DEF IInv

LEMMA StoreStep ==
  ASSUME IInv, NEW d \in Dests, Store(d)
  PROVE  IInv'
<1> USE DEF inputv, channelv, pipelinev, healthv, entryv, faultv
<1> DEFINE h == Head(router[d])
<1>1. /\ Pushes(d) /\ router' = [router EXCEPT ![d] = Tail(@)]
      /\ Len(queue[d]) < QueueCapacity /\ queue' = [queue EXCEPT ![d] = Append(@, h)]
      /\ fate' = [fate EXCEPT ![h][d] = "stored"] /\ dropped' = dropped
      /\ UNCHANGED <<conf, cancelled, inputv, channelv, pipelinev, healthv, entryv, gone, faultv>>
  BY DEF Store, Pushed
<1>2. /\ h \in Events /\ h \in accepted /\ Pending(h, d) /\ h \notin In(queue[d])
      /\ router' \in [Dests -> Seq(Events)]
      /\ \A c \in Dests : Len(router'[c]) <= RouterCapacity
  BY <1>1, Popped
<1>3. queue \in [Dests -> Seq(Events)]
      /\ \A c \in Dests : Len(queue[c]) <= QueueCapacity /\ Distinct(queue[c])
  BY DEF IInv, TypeOK, Places
<1>4. /\ queue'[d] = Append(queue[d], h) /\ queue'[d] \in Seq(Events)
      /\ Len(queue'[d]) = Len(queue[d]) + 1
      /\ In(queue'[d]) = In(queue[d]) \cup {h} /\ Distinct(queue'[d])
      /\ \A c \in Dests \ {d} : queue'[c] = queue[c]
  BY <1>1, <1>2, <1>3, InAppend
<1>5. /\ queue' \in [Dests -> Seq(Events)]
      /\ \A c \in Dests : Len(queue'[c]) <= QueueCapacity /\ Distinct(queue'[c])
  <2>1. queue' \in [Dests -> Seq(Events)]
    BY <1>1, <1>3, <1>4
  <2>2. Len(queue'[d]) <= QueueCapacity
    BY <1>1, <1>3, <1>4, QueueRoom DEF IInv, TypeOK
  <2>3. QED
    BY <1>3, <1>4, <2>1, <2>2
<1>6. Inputs' /\ Budgeted'
  BY <1>1, InputsUnchanged, BudgetUnchanged
<1>7. Places' /\ \A x \in Events, c \in Dests :
                   Pending(x, c)' <=> Pending(x, c) /\ <<x, c>> # <<h, d>>
  BY <1>1, <1>5, PoppedPlaces
<1>8. fate' \in [Events -> [Dests -> Fates]] /\ Fated' /\ Lost' = Lost
  <2>1. PICK f \in Fates \ {"none"} : f = "stored"
    BY DEF Fates
  <2>2. \A x \in Events, c \in Dests :
          x \in In(queue'[c]) <=> \/ x \in In(queue[c])
                                  \/ f = "stored" /\ <<x, c>> = <<h, d>>
    BY <1>4, <2>1
  <2>3. fate' = [fate EXCEPT ![h][d] = f] /\ accepted' = accepted /\ f # "lost"
    BY <1>1, <2>1
  <2>4. QED
    BY <1>2, <1>7, <2>2, <2>3, Settled
<1>9. Counts'
  <2>1. (conf.cut \cap Taken)' = conf.cut \cap Taken
    BY <1>1, TakenUnchanged
  <2>2. QED
    BY <1>1, <1>8, <2>1, Zenon DEF IInv, Counts
<1>10. TypeOK'
  BY <1>1, <1>2, <1>5, <1>8, Zenon DEF IInv, TypeOK, QueueCapacity
<1>11. Ending'
  BY <1>1, Zenon DEF IInv, Ending
<1>12. QED
  BY <1>6, <1>7, <1>8, <1>9, <1>10, <1>11 DEF IInv

LEMMA EvictStep ==
  ASSUME IInv, NEW d \in Dests, Evict(d)
  PROVE  IInv'
<1> USE DEF inputv, channelv, pipelinev, healthv, entryv, faultv
<1> DEFINE h == Head(router[d])
           o == Head(queue[d])
<1>1. /\ Pushes(d) /\ router' = [router EXCEPT ![d] = Tail(@)]
      /\ Len(queue[d]) = QueueCapacity /\ queue' = [queue EXCEPT ![d] = Append(Tail(@), h)]
      /\ fate' = [fate EXCEPT ![o][d] = "lost", ![h][d] = "stored"] /\ dropped' = dropped + 1
      /\ UNCHANGED <<conf, cancelled, inputv, channelv, pipelinev, healthv, entryv, gone, faultv>>
  BY DEF Evict, Counted
<1>2. /\ h \in Events /\ h \in accepted /\ Pending(h, d) /\ h \notin In(queue[d])
      /\ fate[h][d] = "none"
      /\ router' \in [Dests -> Seq(Events)]
      /\ \A c \in Dests : Len(router'[c]) <= RouterCapacity
  BY <1>1, Popped
<1>3. queue \in [Dests -> Seq(Events)] /\ queue[d] # <<>>
      /\ \A c \in Dests : Len(queue[c]) <= QueueCapacity /\ Distinct(queue[c])
  BY <1>1, QueueRoom DEF IInv, TypeOK, Places
<1>4. /\ Tail(queue[d]) \in Seq(Events) /\ Len(Tail(queue[d])) = Len(queue[d]) - 1
      /\ o \in Events /\ o \in In(queue[d])
      /\ Distinct(Tail(queue[d])) /\ In(Tail(queue[d])) = In(queue[d]) \ {o}
  BY <1>3, InTail
<1>5. /\ queue'[d] \in Seq(Events) /\ Len(queue'[d]) = Len(Tail(queue[d])) + 1
      /\ In(queue'[d]) = (In(queue[d]) \ {o}) \cup {h} /\ Distinct(queue'[d])
      /\ \A c \in Dests \ {d} : queue'[c] = queue[c]
  <2>1. queue'[d] = Append(Tail(queue[d]), h) /\ \A c \in Dests \ {d} : queue'[c] = queue[c]
    BY <1>1, <1>3
  <2>2. h \notin In(Tail(queue[d]))
    BY <1>2, <1>4
  <2> DEFINE t == Tail(queue[d])
  <2>3. t \in Seq(Events) /\ Distinct(t) /\ h \notin In(t) /\ h \in Events
    BY <1>2, <1>4, <2>2
  <2> HIDE DEF t, h
  <2>4. /\ Append(t, h) \in Seq(Events) /\ Len(Append(t, h)) = Len(t) + 1
        /\ In(Append(t, h)) = In(t) \cup {h} /\ Distinct(Append(t, h))
    BY <2>3, InAppend
  <2>5. QED
    BY <1>4, <2>1, <2>4 DEF t
<1>6. /\ queue' \in [Dests -> Seq(Events)]
      /\ \A c \in Dests : Len(queue'[c]) <= QueueCapacity /\ Distinct(queue'[c])
  <2>1. queue' \in [Dests -> Seq(Events)]
    BY <1>1, <1>3, <1>5
  <2>2. Len(queue'[d]) <= QueueCapacity
    BY <1>1, <1>3, <1>4, <1>5, Constants
  <2>3. QED
    BY <1>3, <1>5, <2>1, <2>2
<1>7. Inputs' /\ Budgeted'
  BY <1>1, InputsUnchanged, BudgetUnchanged
<1>8. Places' /\ \A x \in Events, c \in Dests :
                   Pending(x, c)' <=> Pending(x, c) /\ <<x, c>> # <<h, d>>
  BY <1>1, <1>6, PoppedPlaces
<1>9. fate[o][d] = "stored" /\ o # h
  BY <1>2, <1>4 DEF IInv, Fated
<1>10. /\ fate' \in [Events -> [Dests -> Fates]] /\ fate'[o][d] = "lost" /\ fate'[h][d] = "stored"
       /\ \A x \in Events, c \in Dests :
            <<x, c>> \notin {<<o, d>>, <<h, d>>} => fate'[x][c] = fate[x][c]
  <2>1. "lost" \in Fates /\ "stored" \in Fates
    BY DEF Fates
  <2>2. QED
    BY <1>1, <1>2, <1>4, <1>9, <2>1, FateType
<1>11. Fated'
  <2> SUFFICES ASSUME NEW x \in Events, NEW c \in Dests
               PROVE  /\ fate'[x][c] = "none" <=> x \notin accepted \/ Pending(x, c)'
                      /\ fate'[x][c] = "stored" <=> x \in In(queue'[c])
    BY <1>1 DEF Fated
  <2>1. /\ fate[x][c] = "none" <=> x \notin accepted \/ Pending(x, c)
        /\ fate[x][c] = "stored" <=> x \in In(queue[c])
    BY DEF IInv, Fated
  <2>2. Pending(x, c)' <=> Pending(x, c) /\ <<x, c>> # <<h, d>>
    BY <1>8
  <2>3. CASE x = o /\ c = d
    BY <2>1, <2>2, <2>3, <1>5, <1>9, <1>10
  <2>4. CASE x = h /\ c = d
    BY <2>1, <2>2, <2>4, <1>2, <1>5, <1>10
  <2>5. CASE <<x, c>> \notin {<<o, d>>, <<h, d>>}
    <3>1. x \in In(queue'[c]) <=> x \in In(queue[c])
      BY <2>5, <1>5
    <3>2. fate'[x][c] = fate[x][c] /\ <<x, c>> # <<h, d>>
      BY <2>5, <1>10
    <3>3. QED
      BY <2>1, <2>2, <3>1, <3>2, Zenon
  <2>6. QED
    BY <2>3, <2>4, <2>5
<1>12. Cardinality(Lost') = Cardinality(Lost) + 1
  <2>1. \A z \in Events \X Dests : z = <<z[1], z[2]>> /\ z[1] \in Events /\ z[2] \in Dests
    OBVIOUS
  <2>2. <<o, d>> \notin Lost
    BY <1>9 DEF Lost
  <2>3. \A z \in Events \X Dests : z \in Lost' <=> z \in Lost \/ z = <<o, d>>
    <3> SUFFICES ASSUME NEW x \in Events, NEW c \in Dests
                 PROVE  fate'[x][c] = "lost" <=> fate[x][c] = "lost" \/ <<x, c>> = <<o, d>>
      BY <2>1 DEF Lost
    <3>1. QED
      BY <1>2, <1>9, <1>10
  <2>4. Lost' = Lost \cup {<<o, d>>}
    BY <2>3, <1>4 DEF Lost
  <2>5. QED
    BY <2>2, <2>4, LostFinite, FS_AddElement
<1>13. Counts'
  <2>1. (conf.cut \cap Taken)' = conf.cut \cap Taken
    BY <1>1, TakenUnchanged
  <2>2. dropped = Cardinality(Lost) + Cardinality(conf.cut \cap Taken)
                    + Cardinality(overcounted)
    BY DEF IInv, Counts
  <2>3. dropped' = Cardinality(Lost') + Cardinality(conf.cut \cap Taken)
                     + Cardinality(overcounted')
    BY <1>1, <1>12, <2>2, LostFinite, TakenCutFinite, OvercountedFinite
  <2>4. QED
    BY <2>1, <2>3, Zenon DEF Counts
<1>14. TypeOK'
  <2>1. dropped' \in Nat
    BY <1>1 DEF IInv, TypeOK
  <2>2. QED
    BY <1>1, <1>2, <1>6, <1>10, <2>1, Zenon DEF IInv, TypeOK, QueueCapacity
<1>15. Ending'
  BY <1>1, Zenon DEF IInv, Ending
<1>16. QED
  BY <1>7, <1>8, <1>11, <1>13, <1>14, <1>15 DEF IInv

(* What a failed push leaves is a part of the queue, in its order.         *)
LEMMA PartOf ==
  ASSUME NEW S, NEW s \in Seq(S), Distinct(s), NEW i \in 1..2, NEW n \in 0..Len(s)
  PROVE  /\ SubSeq(s, i, n) \in Seq(S) /\ Len(SubSeq(s, i, n)) <= Len(s)
         /\ In(SubSeq(s, i, n)) \subseteq In(s) /\ Distinct(SubSeq(s, i, n))
<1> DEFINE t == SubSeq(s, i, n)
<1>1. t \in Seq(S) /\ Len(t) <= Len(s) /\ Len(t) \in Nat
  OBVIOUS
<1>2. \A k \in DOMAIN t : k \in Nat /\ k + i - 1 \in DOMAIN s /\ t[k] = s[k + i - 1]
  OBVIOUS
<1> HIDE DEF t
<1>3. In(t) \subseteq In(s)
  BY <1>2 DEF In
<1>4. Distinct(t)
  BY <1>2 DEF Distinct
<1> QED
  BY <1>1, <1>3, <1>4 DEF t

(* A push that fails: its event is lost, or stays and is counted all the   *)
(* same; a part of the queue stays.                                        *)
LEMMA Failed ==
  ASSUME IInv, NEW d \in Dests, PushFails(d)
  PROVE  \E left \in Seq(Events), f \in {"lost", "stored"} :
           /\ In(left) \subseteq In(queue[d]) /\ Distinct(left)
           /\ Ruins(d, left, f)
           /\ f = "lost" => Len(left) <= QueueCapacity
                            /\ queue' = [queue EXCEPT ![d] = left] /\ UNCHANGED overcounted
           /\ f = "stored" => /\ Len(left) < QueueCapacity
                              /\ queue' = [queue EXCEPT ![d] = Append(left, Head(router[d]))]
                              /\ overcounted' = overcounted \cup {<<Head(router[d]), d>>}
<1>1. /\ queue[d] \in Seq(Events) /\ Distinct(queue[d]) /\ Len(queue[d]) \in Nat
      /\ Len(queue[d]) <= QueueCapacity /\ QueueCapacity \in Nat \ {0}
  BY QueueRoom DEF IInv, TypeOK, Places
<1>2. CASE WriteFails(d)
  <2>1. PICK left \in Left(d) :
          queue' = [queue EXCEPT ![d] = left] /\ Ruins(d, left, "lost")
    BY <1>2 DEF WriteFails
  <2>2. PICK i \in 1..2, n \in 0..Len(queue[d]) : left = SubSeq(queue[d], i, n)
    BY <2>1 DEF Left
  <2>3. /\ left \in Seq(Events) /\ Len(left) <= Len(queue[d])
        /\ In(left) \subseteq In(queue[d]) /\ Distinct(left)
    BY <1>1, <2>2, PartOf
  <2>4. Len(left) <= QueueCapacity
    <3>1. Len(left) \in Nat
      BY <2>3
    <3> QED
      BY <1>1, <2>3, <3>1
  <2>5. UNCHANGED overcounted
    BY <1>2 DEF WriteFails
  <2>6. PICK f \in {"lost", "stored"} : f = "lost"
    OBVIOUS
  <2>7. f # "stored"
    BY <2>6
  <2> QED
    BY <2>1, <2>3, <2>4, <2>5, <2>6, <2>7
<1>3. CASE RollFails(d)
  <2> DEFINE left == LeftWhole(d)
  <2>1. /\ left \in Seq(Events) /\ Len(left) < QueueCapacity
        /\ In(left) \subseteq In(queue[d]) /\ Distinct(left)
    <3>1. CASE EvictsFirst(d)
      <4>1. queue[d] # <<>> /\ Len(queue[d]) = QueueCapacity
        BY <1>1, <3>1 DEF EvictsFirst
      <4>2. left = Tail(queue[d])
        BY <3>1 DEF LeftWhole
      <4> HIDE DEF left
      <4>3. Tail(queue[d]) \in Seq(Events) /\ Len(Tail(queue[d])) = Len(queue[d]) - 1
            /\ Distinct(Tail(queue[d]))
            /\ In(Tail(queue[d])) = In(queue[d]) \ {Head(queue[d])}
        BY <1>1, <4>1, InTail
      <4> QED
        BY <1>1, <4>1, <4>2, <4>3
    <3>2. CASE ~EvictsFirst(d)
      BY <1>1, <3>2 DEF PushFails, LeftWhole
    <3> QED
      BY <3>1, <3>2
  <2>2. /\ Ruins(d, left, "stored")
        /\ queue' = [queue EXCEPT ![d] = Append(left, Head(router[d]))]
        /\ overcounted' = overcounted \cup {<<Head(router[d]), d>>}
    BY <1>3 DEF RollFails
  <2> HIDE DEF left
  <2> QED
    BY <2>1, <2>2
<1> QED
  BY <1>2, <1>3 DEF PushFails

LEMMA PushFailsStep ==
  ASSUME IInv, Faulted, NEW d \in Dests, PushFails(d)
  PROVE  IInv'
<1> USE DEF inputv, channelv, pipelinev, healthv, entryv
<1> DEFINE h == Head(router[d])
<1>1. /\ Pushes(d) /\ router' = [router EXCEPT ![d] = Tail(@)]
      /\ dropped' = dropped + 1 /\ faults < MaxFaults /\ faults' = faults + 1
      /\ UNCHANGED <<conf, cancelled, inputv, channelv, pipelinev, healthv, entryv, gone>>
  BY DEF PushFails, Counted
<1>2. PICK left \in Seq(Events), f \in {"lost", "stored"} :
        /\ In(left) \subseteq In(queue[d]) /\ Distinct(left)
        /\ Ruins(d, left, f)
        /\ f = "lost" => Len(left) <= QueueCapacity
                         /\ queue' = [queue EXCEPT ![d] = left] /\ UNCHANGED overcounted
        /\ f = "stored" => /\ Len(left) < QueueCapacity
                           /\ queue' = [queue EXCEPT ![d] = Append(left, h)]
                           /\ overcounted' = overcounted \cup {<<h, d>>}
  BY Failed
<1>3. /\ h \in Events /\ h \in accepted /\ Pending(h, d) /\ h \notin In(queue[d])
      /\ fate[h][d] = "none"
      /\ router' \in [Dests -> Seq(Events)]
      /\ \A c \in Dests : Len(router'[c]) <= RouterCapacity
  BY <1>1, Popped
<1>4. queue \in [Dests -> Seq(Events)]
      /\ \A c \in Dests : Len(queue[c]) <= QueueCapacity /\ Distinct(queue[c])
  BY DEF IInv, TypeOK, Places
<1>5. /\ queue'[d] \in Seq(Events) /\ Len(queue'[d]) <= QueueCapacity /\ Distinct(queue'[d])
      /\ In(queue'[d]) = In(left) \cup (IF f = "stored" THEN {h} ELSE {})
      /\ queue' \in [Dests -> Seq(Events)]
      /\ \A c \in Dests \ {d} : queue'[c] = queue[c]
  <2> HIDE DEF h
  <2>1. CASE f = "lost"
    BY <1>2, <1>4, <2>1
  <2>2. CASE f = "stored"
    <3>1. h \notin In(left)
      BY <1>2, <1>3
    <3>2. /\ Append(left, h) \in Seq(Events) /\ Len(Append(left, h)) = Len(left) + 1
          /\ In(Append(left, h)) = In(left) \cup {h} /\ Distinct(Append(left, h))
      BY <1>2, <1>3, <3>1, InAppend
    <3>3. queue' = [queue EXCEPT ![d] = Append(left, h)] /\ Len(left) < QueueCapacity
      BY <1>2, <2>2
    <3>4. queue'[d] = Append(left, h) /\ queue' \in [Dests -> Seq(Events)]
          /\ \A c \in Dests \ {d} : queue'[c] = queue[c]
      BY <1>4, <3>2, <3>3
    <3>5. Len(left) + 1 <= QueueCapacity
      BY <3>3, QueueRoom DEF IInv, TypeOK
    <3> QED
      BY <2>2, <3>2, <3>4, <3>5
  <2> QED
    BY <2>1, <2>2
<1>6. Inputs' /\ Budgeted'
  BY <1>1, InputsUnchanged, BudgetUnchanged
<1>7. Places' /\ \A x \in Events, c \in Dests :
                   Pending(x, c)' <=> Pending(x, c) /\ <<x, c>> # <<h, d>>
  <2>1. \A c \in Dests : Distinct(queue'[c])
    BY <1>4, <1>5
  <2> QED
    BY <1>1, <2>1, PoppedPlaces
<1> DEFINE dead == In(queue[d]) \ In(left)
<1>8. /\ fate' \in [Events -> [Dests -> Fates]] /\ fate'[h][d] = f
      /\ \A x \in dead : x \in Events => fate'[x][d] = "destroyed"
      /\ \A x \in Events, c \in Dests :
           c = d /\ x \notin dead \cup {h} => fate'[x][c] = fate[x][c]
      /\ \A x \in Events, c \in Dests : c # d => fate'[x][c] = fate[x][c]
  <2>1. fate' = [e \in Events |-> [fate[e] EXCEPT ![d] =
                  CASE e = h       -> f
                    [] e \in dead  -> "destroyed"
                    [] OTHER       -> @]]
    BY <1>2 DEF Ruins
  <2>2. h \notin dead
    BY <1>3
  <2>3. {f, "destroyed"} \subseteq Fates
    BY DEF Fates
  <2> HIDE DEF h, dead
  <2>4. \A e \in Events :
          (CASE e = h -> f [] e \in dead -> "destroyed" [] OTHER -> fate[e][d]) \in Fates
    BY <2>3, FateType
  <2> QED
    BY <1>3, <2>1, <2>2, <2>3, <2>4, FateType
<1>9. \A x \in dead : x \in Events /\ fate[x][d] = "stored"
  <2>1. In(queue[d]) \subseteq Events
    BY <1>4, InType
  <2> QED
    BY <2>1 DEF IInv, Fated
<1>10. Fated'
  <2> SUFFICES ASSUME NEW x \in Events, NEW c \in Dests
               PROVE  /\ fate'[x][c] = "none" <=> x \notin accepted \/ Pending(x, c)'
                      /\ fate'[x][c] = "stored" <=> x \in In(queue'[c])
    BY <1>1 DEF Fated
  <2>1. /\ fate[x][c] = "none" <=> x \notin accepted \/ Pending(x, c)
        /\ fate[x][c] = "stored" <=> x \in In(queue[c])
    BY DEF IInv, Fated
  <2>2. Pending(x, c)' <=> Pending(x, c) /\ <<x, c>> # <<h, d>>
    BY <1>7
  <2>3. In(left) \subseteq In(queue[d]) /\ h \notin In(queue[d])
    BY <1>2, <1>3
  <2> HIDE DEF h
  <2>4. CASE c = d /\ x \in dead
    <3>1. fate'[x][d] = "destroyed" /\ fate[x][d] = "stored" /\ x \notin In(queue'[d])
      BY <1>5, <1>8, <1>9, <2>3, <2>4
    <3> QED
      BY <2>1, <2>2, <2>4, <3>1
  <2>5. CASE c = d /\ x = h
    <3>1. x \in In(queue'[d]) <=> f = "stored"
      BY <1>5, <2>3, <2>5
    <3>2. fate'[x][c] = f /\ f # "none" /\ x \in accepted
      BY <1>3, <1>8, <2>5
    <3> QED
      BY <2>2, <2>5, <3>1, <3>2
  <2>6. CASE c # d \/ x \notin dead \cup {h}
    <3>1. fate'[x][c] = fate[x][c] /\ <<x, c>> # <<h, d>>
      BY <1>8, <2>6
    <3>2. x \in In(queue'[c]) <=> x \in In(queue[c])
      BY <1>5, <2>3, <2>6
    <3> QED
      BY <2>1, <2>2, <3>1, <3>2, Zenon
  <2> QED
    BY <2>4, <2>5, <2>6
<1>11. /\ f = "lost" => Cardinality(Lost') = Cardinality(Lost) + 1
       /\ f = "stored" => Lost' = Lost
  <2>1. \A z \in Events \X Dests : z = <<z[1], z[2]>> /\ z[1] \in Events /\ z[2] \in Dests
    OBVIOUS
  <2>2. \A x \in Events, c \in Dests :
          fate'[x][c] = "lost" <=> fate[x][c] = "lost" \/ (f = "lost" /\ x = h /\ c = d)
    <3> SUFFICES ASSUME NEW x \in Events, NEW c \in Dests
                 PROVE  fate'[x][c] = "lost"
                          <=> fate[x][c] = "lost" \/ (f = "lost" /\ x = h /\ c = d)
      OBVIOUS
    <3> HIDE DEF h, dead
    <3>1. CASE c = d /\ x = h
      BY <1>3, <1>8, <3>1
    <3>2. CASE c = d /\ x \in dead
      BY <1>3, <1>8, <1>9, <3>2
    <3>3. CASE c # d \/ x \notin dead \cup {h}
      BY <1>8, <3>3
    <3> QED
      BY <3>1, <3>2, <3>3
  <2> HIDE DEF h
  <2>3. f = "stored" => Lost' = Lost
    BY <2>2 DEF Lost
  <2>4. ASSUME f = "lost" PROVE Lost' = Lost \cup {<<h, d>>} /\ <<h, d>> \notin Lost
    <3>1. <<h, d>> \notin Lost
      BY <1>3 DEF Lost
    <3>2. \A z \in Events \X Dests : z \in Lost' <=> z \in Lost \/ z = <<h, d>>
      BY <2>1, <2>2, <2>4 DEF Lost
    <3> QED
      BY <1>3, <3>1, <3>2 DEF Lost
  <2> QED
    BY <2>3, <2>4, LostFinite, FS_AddElement
<1>12. /\ f = "lost" => Cardinality(overcounted') = Cardinality(overcounted)
       /\ f = "stored" => Cardinality(overcounted') = Cardinality(overcounted) + 1
       /\ overcounted' \subseteq Events \X Dests
  <2>1. overcounted \subseteq Events \X Dests
    BY DEF IInv, TypeOK
  <2>2. <<h, d>> \notin overcounted
    BY <1>3 DEF Faulted
  <2>3. Cardinality(overcounted \cup {<<h, d>>}) = Cardinality(overcounted) + 1
    BY <2>2, OneMore, OvercountedFinite
  <2> HIDE DEF h
  <2>4. CASE f = "lost"
    BY <1>2, <2>1, <2>4
  <2>5. CASE f = "stored"
    <3>1. overcounted' = overcounted \cup {<<h, d>>}
      BY <1>2, <2>5
    <3> QED
      BY <1>3, <2>1, <2>3, <2>5, <3>1
  <2> QED
    BY <2>4, <2>5
<1>13. Counts'
  <2>1. (conf.cut \cap Taken)' = conf.cut \cap Taken
    BY <1>1, TakenUnchanged
  <2>2. dropped = Cardinality(Lost) + Cardinality(conf.cut \cap Taken)
                    + Cardinality(overcounted)
    BY DEF IInv, Counts
  <2>3. dropped' = Cardinality(Lost') + Cardinality(conf.cut \cap Taken)
                     + Cardinality(overcounted')
    BY <1>1, <1>11, <1>12, <2>2, LostFinite, TakenCutFinite, OvercountedFinite
  <2> QED
    BY <2>1, <2>3, Zenon DEF Counts
<1>14. TypeOK'
  <2>1. dropped' \in Nat /\ faults' \in 0 .. MaxFaults
    BY <1>1, Constants DEF IInv, TypeOK
  <2>2. \A c \in Dests : Len(queue'[c]) <= QueueCapacity
    BY <1>4, <1>5
  <2> QED
    BY <1>1, <1>3, <1>5, <1>8, <1>12, <2>1, <2>2, Zenon DEF IInv, TypeOK, QueueCapacity
<1>15. Ending'
  BY <1>1, Zenon DEF IInv, Ending
<1> QED
  BY <1>6, <1>7, <1>10, <1>13, <1>14, <1>15 DEF IInv

(* No fate is taken back, and what is destroyed was destroyed by a push    *)
(* that failed.                                                            *)
LEMMA FateMoves ==
  ASSUME IInv, [Next]_vars, \A d \in Dests : ~PushFails(d)
  PROVE  /\ UNCHANGED faultv
         /\ \A x \in Events, c \in Dests :
              /\ fate'[x][c] = "none" => fate[x][c] = "none"
              /\ fate'[x][c] = "destroyed" => fate[x][c] = "destroyed"
<1> DEFINE Moves == \A x \in Events, c \in Dests :
             /\ fate'[x][c] = "none" => fate[x][c] = "none"
             /\ fate'[x][c] = "destroyed" => fate[x][c] = "destroyed"
<1>1. CASE \/ \E p \in AllSenders : Read(p) \/ Sending(p)
           \/ Route \/ StartDrain \/ Drained \/ Return \/ Cancel \/ UNCHANGED vars
           \/ \E d \in Dests : DeliveryFails(d)
  <2>1. UNCHANGED <<fate, faultv>>
    BY <1>1, Zenon
       DEF Read, Sending, Acquire, TryAcquire, GoesWithout, Send, SendFails, Route, StartDrain,
           Drained, Return, Cancel, DeliveryFails, vars
  <2> QED
    BY <2>1
<1>2. CASE Take
  <2>1. /\ UNCHANGED faultv
        /\ \/ fate' = fate
           \/ fate' = [fate EXCEPT ![Head(channel)] = [d \in Dests |-> "cut"]]
    BY <1>2 DEF Take
  <2> QED
    BY <2>1, FateType
<1>3. CASE Skip \/ Shed
  <2>1. /\ UNCHANGED faultv
        /\ \E d, f : /\ f \in {"withheld", "filtered", "lost"}
                     /\ fate' = [fate EXCEPT ![handling][d] = f]
    BY <1>3 DEF Skip, Shed, Becomes
  <2> QED
    BY <2>1, FateType
<1>4. ASSUME NEW d \in Dests, Store(d) \/ Evict(d) \/ Refuse(d)
      PROVE  UNCHANGED faultv /\ Moves
  <2>1. /\ UNCHANGED faultv
        /\ \/ \E e, f : f \in {"stored", "lost"} /\ fate' = [fate EXCEPT ![e][d] = f]
           \/ \E e, o : fate' = [fate EXCEPT ![o][d] = "lost", ![e][d] = "stored"]
    BY <1>4 DEF Store, Evict, Refuse, Pushed
  <2>2. CASE \E e, f : f \in {"stored", "lost"} /\ fate' = [fate EXCEPT ![e][d] = f]
    BY <2>1, <2>2, FateType
  <2>3. CASE \E e, o : fate' = [fate EXCEPT ![o][d] = "lost", ![e][d] = "stored"]
    <3>1. PICK e, o : fate' = [fate EXCEPT ![o][d] = "lost", ![e][d] = "stored"]
      BY <2>3
    <3>2. \A x \in Events, c \in Dests :
            fate'[x][c] \in {fate[x][c], "lost", "stored"}
      BY <3>1, FateType
    <3> QED
      BY <2>1, <3>2
  <2> QED
    BY <2>1, <2>2, <2>3
<1>5. ASSUME NEW d \in Dests, Deliver(d) PROVE UNCHANGED faultv /\ Moves
  <2>1. /\ UNCHANGED faultv
        /\ fate' = [e \in Events |->
              [fate[e] EXCEPT ![d] = IF e \in In(queue[d]) THEN "delivered" ELSE @]]
    BY <1>5 DEF Deliver, Sent
  <2>2. \A x \in Events, c \in Dests : fate'[x][c] \in {fate[x][c], "delivered"}
    BY <2>1, FateType
  <2> QED
    BY <2>1, <2>2
<1> QED
  BY <1>1, <1>2, <1>3, <1>4, <1>5, Zenon DEF Next, Piping, Routing

LEMMA FaultedStep ==
  ASSUME IInv, Faulted, [Next]_vars
  PROVE  Faulted'
<1>1. overcounted \subseteq Events \X Dests /\ faults \in Nat
  BY Constants DEF IInv, TypeOK
<1>2. CASE \A d \in Dests : ~PushFails(d)
  <2>1. /\ overcounted' = overcounted /\ faults' = faults
        /\ \A x \in Events, c \in Dests :
             /\ fate'[x][c] = "none" => fate[x][c] = "none"
             /\ fate'[x][c] = "destroyed" => fate[x][c] = "destroyed"
    BY <1>2, FateMoves DEF faultv
  <2>2. \A x \in overcounted' : fate'[x[1]][x[2]] # "none"
    BY <1>1, <2>1 DEF Faulted
  <2>3. Destroyed' \subseteq Destroyed
    BY <2>1 DEF Destroyed
  <2> QED
    BY <2>1, <2>2, <2>3 DEF Faulted
<1>3. ASSUME NEW d \in Dests, PushFails(d) PROVE Faulted'
  <2>1. faults' = faults + 1 /\ Pushes(d) /\ router' = [router EXCEPT ![d] = Tail(@)]
    BY <1>3 DEF PushFails
  <2>2. PICK left \in Seq(Events), f \in {"lost", "stored"} :
          /\ Ruins(d, left, f)
          /\ overcounted' = overcounted \/ overcounted' = overcounted \cup {<<Head(router[d]), d>>}
    BY <1>3, Failed
  <2>3. \A x \in Events, c \in Dests :
          \/ fate'[x][c] = fate[x][c]
          \/ fate'[x][c] \in {"lost", "stored", "destroyed"}
    BY <2>2, FateType DEF Ruins
  <2>4. Head(router[d]) \in Events /\ fate'[Head(router[d])][d] = f
    <3>1. Head(router[d]) \in Events
      BY <2>1, Popped
    <3> DEFINE h == Head(router[d])
    <3>2. fate' = [e \in Events |-> [fate[e] EXCEPT ![d] =
                    CASE e = h                            -> f
                      [] e \in In(queue[d]) \ In(left)    -> "destroyed"
                      [] OTHER                            -> @]]
      BY <2>2 DEF Ruins
    <3>3. h \notin In(queue[d]) /\ h \in Events
      BY <2>1, Popped
    <3> HIDE DEF h
    <3>4. fate'[h][d] = f
      BY <3>2, <3>3, FateType
    <3> QED
      BY <3>3, <3>4 DEF h
  <2>5. \A x \in overcounted' : fate'[x[1]][x[2]] # "none"
    BY <1>1, <2>2, <2>3, <2>4 DEF Faulted
  <2>6. Cardinality(overcounted') <= Cardinality(overcounted) + 1
        /\ Cardinality(overcounted') \in Nat
    <3> DEFINE z == <<Head(router[d]), d>>
    <3>1. /\ Cardinality(overcounted \cup {z}) \in Nat
          /\ Cardinality(overcounted \cup {z})
               = Cardinality(overcounted) + (IF z \in overcounted THEN 0 ELSE 1)
      BY OneMore
    <3>2. overcounted' = overcounted \/ overcounted' = overcounted \cup {z}
      BY <2>2
    <3> HIDE DEF z
    <3>3. Cardinality(overcounted) \in Nat
      BY OvercountedFinite
    <3>4. CASE overcounted' = overcounted
      BY <3>3, <3>4
    <3>5. CASE overcounted' = overcounted \cup {z}
      <4>1. Cardinality(overcounted') = Cardinality(overcounted \cup {z})
        BY <3>5
      <4> QED
        BY <3>1, <3>3, <4>1
    <3> QED
      BY <3>2, <3>4, <3>5
  <2>7. Cardinality(overcounted') <= faults'
    BY <1>1, <2>1, <2>6, OvercountedFinite DEF Faulted
  <2> QED
    BY <1>1, <2>1, <2>5, <2>7 DEF Faulted
<1> QED
  BY <1>2, <1>3

LEMMA WorkerStep ==
  ASSUME IInv, NEW d \in Dests, Deliver(d) \/ DeliveryFails(d)
  PROVE  IInv'
<1> USE DEF inputv, channelv, pipelinev, entryv, faultv
<1>1. /\ UNCHANGED <<conf, cancelled, inputv, channelv, pipelinev, router, dropped, entryv,
                     gone, faultv>>
      /\ \/ queue' = queue /\ fate' = fate
         \/ Sent(d)
  BY DEF Deliver, DeliveryFails, destv
<1>2. failures' \in [Dests -> 0 .. UnhealthyAfter] /\ healthy' \in [Dests -> BOOLEAN]
  <2>1. failures \in [Dests -> 0 .. UnhealthyAfter] /\ healthy \in [Dests -> BOOLEAN]
        /\ UnhealthyAfter \in Nat
    BY Constants DEF IInv, TypeOK
  <2>2. CASE Deliver(d)
    BY <2>1, <2>2 DEF Deliver
  <2>3. CASE DeliveryFails(d)
    <3>1. failures' \in [Dests -> 0 .. UnhealthyAfter]
      BY <2>1, <2>3 DEF DeliveryFails
    <3>2. Healthy(failures'[d]) \in BOOLEAN
      BY DEF Healthy
    <3>3. healthy' = [healthy EXCEPT ![d] = Healthy(failures'[d])]
      BY <2>3 DEF DeliveryFails
    <3> HIDE DEF Healthy
    <3>4. healthy' \in [Dests -> BOOLEAN]
      BY <2>1, <3>2, <3>3, Zenon
    <3>5. QED
      BY <3>1, <3>4
  <2>4. QED
    BY <2>2, <2>3
<1>3. /\ queue \in [Dests -> Seq(Events)] /\ fate \in [Events -> [Dests -> Fates]]
      /\ \A c \in Dests : Len(queue[c]) <= QueueCapacity /\ Distinct(queue[c])
      /\ QueueCapacity \in Nat
  BY Constants, QueueRoom DEF IInv, TypeOK, Places
<1>4. /\ queue' \in [Dests -> Seq(Events)]
      /\ \A c \in Dests : Len(queue'[c]) <= QueueCapacity /\ Distinct(queue'[c])
  <2>1. CASE queue' = queue
    BY <2>1, <1>3
  <2>2. CASE queue' = [queue EXCEPT ![d] = <<>>]
    <3>1. <<>> \in Seq(Events) /\ Len(<<>>) = 0 /\ queue'[d] = <<>>
          /\ \A c \in Dests \ {d} : queue'[c] = queue[c]
      BY <2>2, <1>3
    <3>2. queue' \in [Dests -> Seq(Events)]
      BY <2>2, <1>3, <3>1
    <3>3. Len(queue'[d]) <= QueueCapacity /\ Distinct(queue'[d])
      BY <3>1, <1>3, InEmpty
    <3>4. QED
      BY <3>1, <3>2, <3>3, <1>3
  <2>3. QED
    BY <1>1, <2>1, <2>2 DEF Sent
<1>5. /\ fate' \in [Events -> [Dests -> Fates]]
      /\ \A x \in Events, c \in Dests :
           \/ fate'[x][c] = fate[x][c] /\ (x \in In(queue'[c]) <=> x \in In(queue[c]))
           \/ x \in In(queue[c]) /\ x \notin In(queue'[c]) /\ fate'[x][c] = "delivered"
  <2>1. CASE queue' = queue /\ fate' = fate
    BY <2>1, <1>3
  <2>2. CASE Sent(d)
    <3>1. /\ queue' = [queue EXCEPT ![d] = <<>>]
          /\ fate' = [e \in Events |->
                [fate[e] EXCEPT ![d] = IF e \in In(queue[d]) THEN "delivered" ELSE @]]
      BY <2>2 DEF Sent
    <3>2. "delivered" \in Fates
      BY DEF Fates
    <3>3. fate' \in [Events -> [Dests -> Fates]]
      BY <3>1, <3>2, <1>3
    <3>4. ASSUME NEW x \in Events, NEW c \in Dests
          PROVE  \/ fate'[x][c] = fate[x][c] /\ (x \in In(queue'[c]) <=> x \in In(queue[c]))
                 \/ x \in In(queue[c]) /\ x \notin In(queue'[c]) /\ fate'[x][c] = "delivered"
      BY <3>1, <1>3, InEmpty
    <3>5. QED
      BY <3>3, <3>4
  <2>3. QED
    BY <1>1, <2>1, <2>2
<1>6. Inputs' /\ Budgeted'
  BY <1>1, InputsUnchanged, BudgetUnchanged
<1>7. Places'
  <2>1. \A c \in Dests : /\ Distinct(router'[c]) /\ In(router'[c]) \subseteq accepted'
                         /\ \A x \in In(router'[c]) : ~Dropped(x)' /\ ~InHand(x, c)'
    BY <1>1, Zenon DEF IInv, Places, Dropped, InHand
  <2>2. /\ Distinct(channel') /\ Distinct(todo') /\ In(channel') \subseteq accepted'
        /\ handling' \in accepted' \cup {None} /\ ~Dropped(handling)'
        /\ handling' = None <=> todo' = <<>>
    BY <1>1, Zenon DEF IInv, Places, Dropped
  <2>3. QED
    BY <1>4, <2>1, <2>2, Zenon DEF Places
<1>8. \A x \in Events, c \in Dests : x \in In(queue[c]) => fate[x][c] = "stored"
  BY DEF IInv, Fated
<1>9. Fated'
  <2> SUFFICES ASSUME NEW x \in Events, NEW c \in Dests
               PROVE  /\ fate'[x][c] = "none" <=> x \notin accepted \/ Pending(x, c)
                      /\ fate'[x][c] = "stored" <=> x \in In(queue'[c])
    BY <1>1, Zenon DEF Fated, Pending
  <2>1. /\ fate[x][c] = "none" <=> x \notin accepted \/ Pending(x, c)
        /\ fate[x][c] = "stored" <=> x \in In(queue[c])
    BY DEF IInv, Fated
  <2>2. QED
    BY <2>1, <1>5
<1>10. Counts'
  <2>1. \A x \in Events, c \in Dests : fate'[x][c] = "lost" <=> fate[x][c] = "lost"
    BY <1>5, <1>8
  <2>2. Lost' = Lost
    BY <2>1 DEF Lost
  <2>3. (conf.cut \cap Taken)' = conf.cut \cap Taken
    BY <1>1, TakenUnchanged
  <2>4. QED
    BY <1>1, <2>2, <2>3, Zenon DEF IInv, Counts
<1>11. TypeOK'
  BY <1>1, <1>2, <1>4, <1>5, Zenon DEF IInv, TypeOK, QueueCapacity
<1>12. Ending'
  BY <1>1, Zenon DEF IInv, Ending
<1>13. QED
  BY <1>6, <1>7, <1>9, <1>10, <1>11, <1>12 DEF IInv
-----------------------------------------------------------------------------
(* The invariant, and what follows from it.                                *)

LEMMA InitHolds ==
  ASSUME Init
  PROVE  IInv
<1>1. /\ conf \in Setups /\ cancelled = FALSE
      /\ sender = [p \in AllSenders |-> Idle] /\ waiters = <<>>
      /\ permits = Budget /\ gauge = 0 /\ channel = <<>>
      /\ pipeline = "running" /\ handling = None /\ todo = <<>>
      /\ router = [d \in Dests |-> <<>>] /\ queue = [d \in Dests |-> <<>>]
      /\ failures = [d \in Dests |-> 0] /\ healthy = [d \in Dests |-> TRUE]
      /\ dropped = 0 /\ fate = [e \in Events |-> [d \in Dests |-> "none"]]
      /\ accepted = {} /\ early = {} /\ gone = {} /\ overcounted = {} /\ faults = 0
  BY DEF Init
<1>2. In(channel) = {} /\ In(waiters) = {} /\ In(todo) = {} /\ Distinct(channel)
      /\ Distinct(waiters) /\ Distinct(todo)
      /\ \A d \in Dests : /\ In(router[d]) = {} /\ In(queue[d]) = {}
                          /\ Distinct(router[d]) /\ Distinct(queue[d])
  BY <1>1, InEmpty
<1>3. \A p \in AllSenders : sender[p] = [pc |-> "idle", ev |-> None, paid |-> FALSE]
  BY <1>1 DEF Idle
<1>4. TypeOK
  <2>1. sender \in [AllSenders -> [pc : {"idle", "acquire", "sending", "ended"},
                                   ev : Events \cup {None}, paid : BOOLEAN]]
    BY <1>1 DEF Idle
  <2>2. fate \in [Events -> [Dests -> Fates]]
    BY <1>1 DEF Fates
  <2>3. /\ router \in [Dests -> Seq(Events)] /\ \A d \in Dests : Len(router[d]) <= RouterCapacity
        /\ queue \in [Dests -> Seq(Events)] /\ \A d \in Dests : Len(queue[d]) <= QueueCapacity
        /\ channel \in Seq(Events) /\ Len(channel) <= ChannelCapacity
        /\ waiters \in Seq(Senders) /\ todo \in Seq(Dests)
    BY <1>1, Constants, QueueRoom
  <2>4. /\ permits \in Nat /\ gauge \in Nat /\ dropped \in Nat /\ faults \in 0 .. MaxFaults
        /\ failures \in [Dests -> 0 .. UnhealthyAfter]
    BY <1>1, Constants
  <2>5. healthy \in [Dests -> BOOLEAN] /\ cancelled \in BOOLEAN
    BY <1>1
  <2>6. /\ conf \in Setups /\ pipeline \in {"running", "drain", "closing", "done"}
        /\ handling \in Events \cup {None}
        /\ early \subseteq accepted /\ accepted \subseteq Events /\ gone \subseteq accepted
        /\ overcounted \subseteq Events \X Dests
    BY <1>1
  <2>7. QED
    BY <2>1, <2>2, <2>3, <2>4, <2>5, <2>6, Zenon DEF TypeOK
<1>5. Inputs
  BY <1>1, <1>2, <1>3 DEF Inputs
<1>6. Budgeted
  <2>1. Inside = {} /\ Inside \cup gone = {}
    BY <1>1, <1>2, <1>3 DEF Inside, Holding
  <2>2. Bytes(Inside) = 0 /\ Bytes(Inside \cup gone) = 0
    BY <2>1, BytesEmpty, Zenon
  <2>3. permits + 0 = Budget
    BY <1>1, Constants
  <2>4. QED
    BY <1>1, <2>2, <2>3, Zenon DEF Budgeted
<1>7. Places
  <2>1. ~Dropped(handling)
    BY <1>1, <1>2 DEF Dropped
  <2>2. QED
    BY <1>1, <1>2, <2>1 DEF Places
<1>8. Fated
  BY <1>1, <1>2 DEF Fated
<1>9. Counts
  <2>1. Lost = {}
    BY <1>1 DEF Lost
  <2>2. conf.cut \cap Taken = {}
    BY <1>1 DEF Taken
  <2>3. Cardinality(Lost) = 0 /\ Cardinality(conf.cut \cap Taken) = 0
        /\ Cardinality(overcounted) = 0
    BY <1>1, <2>1, <2>2, FS_EmptySet, Zenon
  <2>4. QED
    BY <1>1, <2>3 DEF Counts
<1>10. Ending
  BY <1>1 DEF Ending
<1>11. QED
  BY <1>4, <1>5, <1>6, <1>7, <1>8, <1>9, <1>10 DEF IInv

LEMMA StutterStep ==
  ASSUME IInv, UNCHANGED vars
  PROVE  IInv'
<1> USE DEF vars, inputv, channelv, pipelinev, destv, healthv, entryv, faultv
<1>1. TypeOK'
  BY Zenon DEF IInv, TypeOK, QueueCapacity
<1>2. Inputs' /\ Budgeted'
  BY InputsUnchanged, BudgetUnchanged
<1>3. Places' /\ Fated' /\ Counts'
  BY EventsStay
<1>4. Ending'
  BY Zenon DEF IInv, Ending
<1>5. QED
  BY <1>1, <1>2, <1>3, <1>4 DEF IInv

LEMMA NextStep ==
  ASSUME IInv, Faulted, [Next]_vars
  PROVE  IInv'
<1>1. CASE \E p \in AllSenders : Read(p) \/ Sending(p)
  <2>1. PICK p \in AllSenders : Read(p) \/ Sending(p)
    BY <1>1
  <2>2. CASE Read(p)
    BY <2>2, ReadStep
  <2>3. CASE Acquire(p)
    BY <2>3, AcquireStep
  <2>4. CASE TryAcquire(p) \/ GoesWithout(p)
    BY <2>4, TryAcquireStep
  <2>5. CASE Send(p)
    BY <2>5, SendStep
  <2>6. CASE SendFails(p)
    BY <2>6, SendFailsStep
  <2>7. QED
    BY <2>1, <2>2, <2>3, <2>4, <2>5, <2>6, Zenon DEF Sending
<1>2. CASE Piping
  <2>1. CASE Take
    BY <2>1, TakeStep
  <2>2. CASE Skip
    BY <2>2, SkipStep
  <2>3. CASE Route
    BY <2>3, RouteStep
  <2>4. CASE Shed
    BY <2>4, ShedStep
  <2>5. CASE StartDrain \/ Drained
    BY <2>5, DrainStep
  <2>6. CASE Return
    BY <2>6, ReturnStep
  <2>7. QED
    BY <1>2, <2>1, <2>2, <2>3, <2>4, <2>5, <2>6, Zenon DEF Piping
<1>3. CASE \E d \in Dests : Routing(d) \/ PushFails(d) \/ Deliver(d) \/ DeliveryFails(d)
  <2>1. PICK d \in Dests : Routing(d) \/ PushFails(d) \/ Deliver(d) \/ DeliveryFails(d)
    BY <1>3
  <2>2. CASE Store(d)
    BY <2>2, StoreStep
  <2>3. CASE Evict(d)
    BY <2>3, EvictStep
  <2>4. CASE Refuse(d)
    BY <2>4, RefuseStep
  <2>7. CASE PushFails(d)
    BY <2>7, PushFailsStep
  <2>5. CASE Deliver(d) \/ DeliveryFails(d)
    BY <2>5, WorkerStep
  <2>6. QED
    BY <2>1, <2>2, <2>3, <2>4, <2>5, <2>7, Zenon DEF Routing
<1>4. CASE Cancel
  BY <1>4, CancelStep
<1>5. CASE UNCHANGED vars
  BY <1>5, StutterStep
<1>6. QED
  BY <1>1, <1>2, <1>3, <1>4, <1>5, Zenon DEF Next

LEMMA InductiveInvariant == Spec => [](IInv /\ Faulted)
<1>1. Init => IInv /\ Faulted
  <2>1. Init => Cardinality(overcounted) <= faults /\ overcounted = {} /\ Destroyed = {}
    BY FS_EmptySet DEF Init, Destroyed
  <2> QED
    BY <2>1, InitHolds DEF Faulted
<1>2. IInv /\ Faulted /\ [Next]_vars => IInv' /\ Faulted'
  BY NextStep, FaultedStep
<1>3. QED
  BY <1>1, <1>2, PTL DEF Spec

(* The channel, the routers and the queues stay within their capacities.   *)
THEOREM TypeCorrect == Spec => []TypeOK
<1>1. IInv => TypeOK
  BY DEF IInv
<1>2. QED
  BY <1>1, InductiveInvariant, PTL

(* The byte budget neither leaks nor grows while the engine runs, whoever  *)
(* waits for permits, goes without or finds the receiver gone              *)
(* (EventSender, ChannelBudget::release).                                  *)
THEOREM BudgetHolds == Spec => []BudgetConserved
<1>1. IInv => BudgetConserved
  <2> SUFFICES ASSUME IInv, pipeline # "done"
               PROVE  /\ gauge = Bytes(Inside)
                      /\ ~cancelled => permits + Bytes(Inside) = Budget
    BY Zenon DEF BudgetConserved, Inside
  <2>1. Inside \cup gone = Inside
    BY DEF IInv, Ending
  <2>2. QED
    BY <2>1, Zenon DEF IInv, Budgeted
<1>2. QED
  BY <1>1, InductiveInvariant, PTL

(* Every event that was accepted is, for each destination, in one place or *)
(* its fate is known; events_dropped counts each event that was shed,      *)
(* refused, evicted, cut or could not be written once, and beside them     *)
(* only those that a failed push left in the queue; only a failed push     *)
(* destroys events uncounted; and what was accepted before the engine was  *)
(* stopped is not dropped with the channel (run_pipeline, route_event,     *)
(* run_router).                                                            *)
THEOREM EveryEventAccounted == Spec => []Accounted
<1>1. IInv /\ Faulted => Accounted
  <2> SUFFICES ASSUME IInv, Faulted PROVE Accounted
    OBVIOUS
  <2>1. \A e \in accepted, d \in Dests :
          /\ fate[e][d] = "none" <=> Pending(e, d)
          /\ fate[e][d] = "stored" <=> e \in In(queue[d])
    BY DEF IInv, Fated, TypeOK
  <2>2. gone \cap early = {}
    BY DEF IInv, Ending
  <2>3. QED
    BY <2>1, <2>2, Zenon DEF IInv, Faulted, Counts, Accounted
<1>2. QED
  BY <1>1, InductiveInvariant, PTL
=============================================================================
