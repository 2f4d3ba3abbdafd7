------------------------------ MODULE Handover ------------------------------
(***************************************************************************)
(* What the extractor promises in its at-least-once modes, whatever the     *)
(* mode: a message is handed over from the source to the target through the *)
(* output of a job.  The source gives a message up only once a row of it is *)
(* in the output or the target, and an output is thrown away only while     *)
(* each of its messages is still at the source or already at the target.    *)
(***************************************************************************)
CONSTANT Messages

VARIABLES source,  \* messages on the entity or in its dead-letter sub-queue
          outbox,  \* messages with a row in the current job's output
          target   \* messages with a row ever imported into Storage

vars == <<source, outbox, target>>

Init == source = Messages /\ outbox = {} /\ target = {}

\* Rows are added to the output; a message may be written more than once.
Write ==
    /\ outbox \subseteq outbox' /\ outbox' \subseteq Messages
    /\ UNCHANGED <<source, target>>

\* Messages are deleted from the source.
Remove ==
    /\ source' \subseteq source
    /\ source \ source' \subseteq outbox \cup target
    /\ UNCHANGED <<outbox, target>>

\* The output is imported.
Publish ==
    /\ target' = target \cup outbox /\ outbox' = {}
    /\ UNCHANGED source

\* The output is thrown away: the job failed with nothing deleted on its account.
Discard ==
    /\ outbox \subseteq source \cup target
    /\ outbox' = {}
    /\ UNCHANGED <<source, target>>

Next == Write \/ Remove \/ Publish \/ Discard

Spec == Init /\ [][Next]_vars

\* No message is lost: each is at the source, in the output or at the target.
NothingLost == Messages \subseteq source \cup outbox \cup target
=============================================================================
