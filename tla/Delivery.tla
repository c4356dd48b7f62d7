------------------------------ MODULE Delivery ------------------------------
(***************************************************************************)
(* What a persistent queue promises (README.md, "at-least-once delivery",  *)
(* docs/ARCHITECTURE.md): events that were accepted are delivered in the   *)
(* order of their arrival; a restart may bring back what was delivered but *)
(* not yet confirmed, and nothing else; and an event leaves the queue      *)
(* otherwise only by being discarded, which is known.                      *)
(*                                                                         *)
(* Events are numbered in the order in which they arrive.                  *)
(***************************************************************************)
EXTENDS Naturals

CONSTANT Events  (* the events, i.e. the numbers of their arrival          *)

VARIABLES
  pending,    (* accepted, and still to be read                            *)
  delivered,  (* reached the destination at least once                     *)
  confirmed,  (* never to be delivered again                               *)
  discarded   (* evicted, destroyed, or dead before they were accepted     *)

vars == <<pending, delivered, confirmed, discarded>>

Seen == pending \cup delivered \cup discarded

Init == pending = {} /\ delivered = {} /\ confirmed = {} /\ discarded = {}

Accept(e) ==
  /\ \A s \in Seen : s < e
  /\ pending' = pending \cup {e}
  /\ UNCHANGED <<delivered, confirmed, discarded>>

Discard(E) ==
  /\ pending' = pending \ E
  /\ discarded' = discarded \cup E
  /\ UNCHANGED <<delivered, confirmed>>

(* Some events reach the destination, and none before an older one that is *)
(* still to be read.  Events may be discarded while they are on their way. *)
Deliver(E) ==
  /\ E \subseteq Seen
  /\ \A e \in E, p \in pending : p < e => p \in E \cup delivered
  /\ delivered' = delivered \cup E
  /\ UNCHANGED <<pending, confirmed, discarded>>

Settle(E) ==
  /\ E \subseteq delivered
  /\ pending' = pending \ E
  /\ UNCHANGED <<delivered, confirmed, discarded>>

Confirm(E) ==
  /\ E \subseteq delivered \ pending
  /\ confirmed' = confirmed \cup E
  /\ UNCHANGED <<pending, delivered, discarded>>

Return(E) ==
  /\ E \subseteq delivered \ confirmed
  /\ pending' = pending \cup E
  /\ UNCHANGED <<delivered, confirmed, discarded>>

Next ==
  \/ \E e \in Events : Accept(e)
  \/ \E E \in SUBSET Events :
       Discard(E) \/ Deliver(E) \/ Settle(E) \/ Confirm(E) \/ Return(E)

Spec == Init /\ [][Next]_vars

-----------------------------------------------------------------------------
(* What follows from the promise, whatever keeps it.                       *)

(* No event overtakes an older one that is still owed.                     *)
Ordered == \A d \in delivered, p \in pending : p < d => p \in delivered

(* What is confirmed is not read again, after however many restarts.       *)
Final == confirmed \cap pending = {}

(* An event stops being owed only by being delivered or discarded.         *)
NeverForgotten == [][pending \ pending' \subseteq delivered \cup discarded']_vars
=============================================================================
