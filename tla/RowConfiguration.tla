-------------------------- MODULE RowConfiguration ---------------------------
(***************************************************************************)
(* What the component makes of the parameters of a row: which it accepts,   *)
(* and the normalised row an accepted one stands for.  The validators run   *)
(* in the order of the classes: auth, source, then the whole row.           *)
(***************************************************************************)
EXTENDS Naturals

\* Parameters, as far as the validators tell them apart.
ParameterSets ==
    [rowKey : BOOLEAN,                            \* #row_connection_string
     authType : {"connection_string", "service_principal"},
     \* of the selected root auth type: no field, only blanks, some fields, all
     credentials : {"none", "blank", "some", "all"},
     malformed : BOOLEAN,                         \* the SDK's ValueError
     otherEntity : BOOLEAN,                       \* EntityPath of another entity
     topic : BOOLEAN, source : {"none", "partial", "named"},
     subQueue : BOOLEAN, sessionEnabled : BOOLEAN,
     mode : {"complete", "defer_commit", "receive_and_delete", "peek"},
     fetchMode : {"incremental_fetch", "full_fetch"},
     advancedOptions : BOOLEAN, prefetch : Nat \ {0},
     tableName : BOOLEAN]                         \* empty, or one that Storage takes

IsParameters(p) ==
    p \in ParameterSets /\ (p.otherEntity => p.rowKey \/ p.authType = "connection_string")

HasNoCredentials(p) == ~p.rowKey /\ p.credentials \in {"none", "blank"}

EffectiveAuthType(p) == IF p.rowKey THEN "connection_string" ELSE p.authType

\* AuthConfiguration: a blank field is there, so it passes.
AuthIsValid(p) == p.rowKey \/ p.credentials \in {"blank", "all"}

\* Which client builders raise: a connection string, or a tenant id, the SDK
\* cannot read.
BuilderRaises(p) == p.malformed \/ (~p.rowKey /\ p.credentials = "blank")

\* EntityConfiguration: the names of the selected entity type are required.
EntityIsValid(p) == AuthIsValid(p) /\ p.source = "named"

\* Mutation of NormaliseSource: a row turned to a sub-queue keeps its sessions.
NormaliseSourceKeepingSessions(p) ==
    [p EXCEPT !.fetchMode = IF p.mode # "peek" THEN "incremental_fetch" ELSE @]

NormaliseSource(p) ==
    [p EXCEPT !.fetchMode = IF p.mode # "peek" THEN "incremental_fetch" ELSE @,
              !.sessionEnabled = @ /\ ~p.subQueue]

ApplyAdvancedGate(p) == [p EXCEPT !.prefetch = IF p.advancedOptions THEN @ ELSE 1]

RefuseUnsafe(p) ==
    \/ p.mode = "receive_and_delete" /\ p.prefetch > 1
    \/ p.mode = "peek" /\ p.fetchMode = "incremental_fetch" /\ (p.sessionEnabled \/ p.subQueue)

\* The row a run works with.
Normalised(p) == ApplyAdvancedGate(NormaliseSource(p))

RowIsValid(p) == EntityIsValid(p) /\ ~RefuseUnsafe(Normalised(p)) /\ p.tableName
==============================================================================
