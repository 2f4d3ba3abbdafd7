------------------------------- MODULE Entity -------------------------------
(***************************************************************************)
(* The Service Bus entity the extractor reads: an Azure service, modelled   *)
(* from how src/src uses it and from the semantics the repository's fake    *)
(* broker reproduces (external code).  A message is its sequence number.    *)
(* Peek-lock locks are tracked by who holds the current lock token, so a    *)
(* settle call on a copy whose lock lapsed has no effect on the broker.     *)
(***************************************************************************)
EXTENDS Naturals, FiniteSets

CONSTANTS Seqs,          \* the sequence numbers of the messages on the entity, from 1
          MaxDelivery    \* the entity's max delivery count

ASSUME SeqsAssumption == Seqs \subseteq Nat \ {0} /\ IsFiniteSet(Seqs)
ASSUME MaxDeliveryAssumption == MaxDelivery \in Nat \ {0}

VARIABLES loc,   \* loc[m]: where the message is (see Places)
          lock,  \* lock[m]: who holds the message's current lock token
          dc     \* dc[m]: its delivery count

entityVars == <<loc, lock, dc>>

\* A message is on the entity ("active", "deferred"), in its dead-letter
\* sub-queue ("dead_lettered" by the unreadable-body policy, "exhausted" by
\* the broker at MaxDelivery), or deleted: "completed" by complete_message,
\* "received" by a RECEIVE_AND_DELETE receive, "committed" by the deferred
\* receive of the next run.
Places == {"active", "deferred", "dead_lettered", "exhausted",
           "completed", "received", "committed"}

\* "hand": the copy in the batch being processed; "buffer": a copy waiting in
\* the SDK's local buffer; "adrift": a copy of a closed connection, whose lock
\* lasts until it lapses.
Holders == {"free", "hand", "buffer", "adrift"}

EntityTypeOK ==
    /\ loc \in [Seqs -> Places]
    /\ lock \in [Seqs -> Holders]
    /\ dc \in [Seqs -> 0..MaxDelivery]

EntityInit ==
    /\ loc = [m \in Seqs |-> "active"]
    /\ lock = [m \in Seqs |-> "free"]
    /\ dc = [m \in Seqs |-> 0]

\* The n lowest sequence numbers of S: the order of delivery, peek and commit.
Lowest(S, n) == {m \in S : Cardinality({k \in S : k < m}) < n}

IsLowest(m, S) == m \in S /\ \A k \in S : m <= k

\* What a receive can be handed, and what a deferred receive can be handed.
Receivable == {m \in Seqs : loc[m] = "active" /\ lock[m] = "free"}
DeferredFree == {m \in Seqs : loc[m] = "deferred" /\ lock[m] = "free"}

Moved(S, place) == [m \in Seqs |-> IF m \in S THEN place ELSE loc[m]]
Held(S, holder) == [m \in Seqs |-> IF m \in S THEN holder ELSE lock[m]]

(***************************************************************************)
(* Broker operations.                                                      *)
(***************************************************************************)

\* The locks of S are given up without a settle, or S is abandoned: an active
\* message counts one more delivery (a deferred one counted it when it was
\* received), and a message at MaxDelivery moves to the dead-letter sub-queue.
Release(S) ==
    LET count == [m \in Seqs |-> IF m \in S /\ loc[m] = "active"
                                 THEN dc[m] + 1 ELSE dc[m]]
    IN  /\ dc' = count
        /\ loc' = [m \in Seqs |-> IF m \in S /\ count[m] >= MaxDelivery
                                  THEN "exhausted" ELSE loc[m]]
        /\ lock' = Held(S, "free")

\* RECEIVE_AND_DELETE, of active messages or of deferred ones.
Delete(S, place) ==
    /\ loc' = Moved(S, place)
    /\ UNCHANGED <<lock, dc>>

\* A settle call on the batch's copy of m, which takes the message to place.
\* It is fire-and-forget: with a lapsed lock the broker ignores it and the
\* caller does not hear of it.
SettledLoc(m, place) ==
    [loc EXCEPT ![m] = IF place = "deferred" /\ dc[m] >= MaxDelivery
                       THEN "exhausted" ELSE place]

Settled(m, place) ==
    IF lock[m] = "hand"
    THEN /\ loc' = SettledLoc(m, place)
         /\ lock' = [lock EXCEPT ![m] = "free"]
         /\ UNCHANGED dc
    ELSE UNCHANGED entityVars

\* abandon_message on the batch's copy of m.
Abandon(m) ==
    IF lock[m] = "hand" THEN Release({m}) ELSE UNCHANGED entityVars

\* A PEEK_LOCK deferred receive of S: counted as a delivery at once.
LockDeferred(S, holder) ==
    /\ dc' = [m \in Seqs |-> IF m \in S THEN dc[m] + 1 ELSE dc[m]]
    /\ lock' = Held(S, holder)
    /\ UNCHANGED loc

\* The locks of a closed connection's copies: still held at the broker.
Adrift == [m \in Seqs |-> IF lock[m] \in {"hand", "buffer"} THEN "adrift" ELSE lock[m]]
=============================================================================
