------------------------------- MODULE Actions -------------------------------
(***************************************************************************)
(* What one call of the component does before, or instead of, extracting:   *)
(* the sync actions of the UI, each in a worker thread that the calling     *)
(* thread waits for until a deadline, and the start of a run.  They read    *)
(* the management endpoint, or peek the row's entity, with whatever rights  *)
(* the credentials have; an error is classified by walking the errors the   *)
(* SDKs linked to it.                                                       *)
(***************************************************************************)
EXTENDS RowConfiguration, Sequences, FiniteSets

CONSTANTS
    Rows,               \* parameters
    Errors,             \* Errors[e]: kind, status, session text, token failure, links
    ManagementErrors, PeekErrors   \* which of them each call may raise

ErrorIds == DOMAIN Errors
ServiceBusErrors ==
    {"ServiceBusAuthenticationError", "ServiceBusAuthorizationError", "MessagingEntityNotFoundError",
     "MessagingEntityDisabledError", "ServiceBusServerBusyError", "ServiceBusConnectionError",
     "OperationTimeoutError", "ServiceBusError"}
HttpErrors == {"ClientAuthenticationError", "CredentialUnavailableError", "ResourceNotFoundError", "HttpResponseError"}
AzureErrors == ServiceBusErrors \cup HttpErrors \cup {"AzureError"}

ASSUME ErrorsAssumption ==
    /\ \A p \in Rows : IsParameters(p)
    /\ IsFiniteSet(ErrorIds) /\ 0 \notin ErrorIds       \* 0: no error
    /\ ManagementErrors \cup PeekErrors \subseteq ErrorIds
    /\ \A e \in PeekErrors : Errors[e].kind \in ServiceBusErrors \cup {"other"}
    /\ \A e \in ErrorIds :
          /\ Errors[e].kind \in AzureErrors \cup {"other"}
          /\ Errors[e].status \in Nat
          /\ Errors[e].text \in {"", "requires sessions", "not sessionful"}
          /\ Errors[e].token \in BOOLEAN     \* an AADSTS code, or raised in azure-identity
          /\ Errors[e].token => Errors[e].kind \in AzureErrors
          /\ Errors[e].kind = "CredentialUnavailableError" => Errors[e].token
          /\ Errors[e].links \in Seq(ErrorIds) /\ Len(Errors[e].links) <= 2

SyncActions == {"testConnection", "listQueues", "listSubscriptions", "previewMessages"}

VARIABLES
    action, params,
    requiresSession,  \* the entity's, whatever the row says
    caller,           \* the calling thread: "joining", "woken" or "replied"
    deadline,         \* the deadline passed
    outcome,          \* what the worker handed over: at most one entry
    reply,
    pc,               \* the worker, or the run: its next step
    error, origin,    \* the error being classified, and the call that raised it
    unvisited, seen,  \* _linked_errors: its stack, and what it yielded
    token,            \* is_credential_failure
    info,             \* a run's EntityInfo.requires_session: "unknown", "yes" or "no"
    succeeded,        \* history: the calls that were answered
    early             \* history: the worker was done when the deadline passed

call == <<action, params, requiresSession>>
walk == <<error, origin, unvisited, seen, token>>
vars == <<call, caller, deadline, outcome, reply, pc, walk, info, succeeded, early>>

None == "none"
Reply(kind, why) == <<kind, why>>

TypeOK ==
    /\ action \in SyncActions \cup {"run"} /\ IsParameters(params) /\ requiresSession \in BOOLEAN
    /\ caller \in {"joining", "woken", "replied"} /\ deadline \in BOOLEAN /\ Len(outcome) <= 1
    /\ pc \in {"begin", "management", "peek", "linked", "hung", "done", "running"}
    /\ error \in ErrorIds \cup {0} /\ origin \in {None, "management", "peek"}
    /\ seen \subseteq ErrorIds /\ \A i \in DOMAIN unvisited : unvisited[i] \in ErrorIds
    /\ token \in BOOLEAN /\ info \in {"unknown", "yes", "no"}
    /\ succeeded \subseteq {"management", "peek"} /\ early \in BOOLEAN

Init ==
    /\ action \in SyncActions \cup {"run"} /\ params \in Rows /\ requiresSession \in BOOLEAN
    /\ caller = "joining" /\ deadline = FALSE /\ outcome = <<>> /\ reply = <<>>
    /\ pc = "begin" /\ error = 0 /\ origin = None /\ unvisited = <<>> /\ seen = {} /\ token = FALSE
    /\ info = "unknown" /\ succeeded = {} /\ early = FALSE

(***************************************************************************)
(* The mapping of errors.                                                  *)
(***************************************************************************)

\* Mutation of IsManagementDenied: a failed token acquisition counts as one.
IsManagementDeniedAnyway(e) ==
    \/ Errors[e].kind \in {"ClientAuthenticationError", "CredentialUnavailableError"}
    \/ Errors[e].kind \in HttpErrors /\ Errors[e].status \in {401, 403}

\* For the error whose walk is over: `token` is is_credential_failure's answer.
IsManagementDenied(e) ==
    /\ ~token
    /\ \/ Errors[e].kind \in {"ClientAuthenticationError", "CredentialUnavailableError"}
       \/ Errors[e].kind \in HttpErrors /\ Errors[e].status \in {401, 403}

\* to_user_exception: the message.
Message(e) ==
    LET kind == Errors[e].kind IN
    IF token THEN "credentials rejected"
    ELSE CASE kind = "ServiceBusAuthenticationError" -> "unauthorized"
           [] kind = "ServiceBusAuthorizationError" -> "rights"
           [] kind = "MessagingEntityNotFoundError" -> "not found"
           [] kind = "MessagingEntityDisabledError" -> "disabled"
           [] kind = "ServiceBusServerBusyError" -> "throttled"
           [] kind = "ServiceBusConnectionError" -> "unreachable"
           [] kind \in {"ServiceBusError", "OperationTimeoutError"} ->
                 CASE Errors[e].text = "requires sessions" -> "enable sessions"
                   [] Errors[e].text = "not sessionful" -> "disable sessions"
                   [] OTHER -> "data plane error"
           [] OTHER -> IF IsManagementDenied(e) THEN "management rights"
                       ELSE IF kind = "ResourceNotFoundError" THEN "not found" ELSE "management error"

\* Mutation of Visit: an error already yielded is walked again.
VisitAgain(e) ==
    IF Errors[e].token THEN token' = TRUE /\ unvisited' = <<>> /\ UNCHANGED seen
    ELSE /\ unvisited' = SubSeq(unvisited, 1, Len(unvisited) - 1) \o Errors[e].links
         /\ seen' = seen \cup {e} /\ UNCHANGED token

\* One turn of the loops of _linked_errors and is_credential_failure.
Visit(e) ==
    LET rest == SubSeq(unvisited, 1, Len(unvisited) - 1) IN
    IF e \in seen THEN unvisited' = rest /\ UNCHANGED <<seen, token>>
    ELSE IF Errors[e].token THEN token' = TRUE /\ unvisited' = <<>> /\ UNCHANGED seen
    ELSE unvisited' = rest \o Errors[e].links /\ seen' = seen \cup {e} /\ UNCHANGED token

(***************************************************************************)
(* The worker thread of a sync action.                                     *)
(***************************************************************************)

Step(from, to) == pc = from /\ pc' = to
HandsOver(kind, why) == pc' = "done" /\ outcome' = <<Reply(kind, why)>>
Sync == action # "run"
ListAction == action \in {"listQueues", "listSubscriptions"}

\* What fails before any call: no credentials, an auth block, a source or a
\* topic that is not there.
Rejection ==
    IF action = "testConnection" /\ HasNoCredentials(params) THEN "no credentials"
    ELSE IF ~AuthIsValid(params) THEN "auth"
    ELSE IF action = "listSubscriptions" /\ ~params.topic THEN "no topic"
    ELSE IF action = "previewMessages" /\ ~EntityIsValid(params) THEN "source"
    ELSE IF BuilderRaises(params) THEN "invalid credentials" ELSE None

BeginRejected ==
    /\ pc = "begin" /\ Sync /\ Rejection # None
    /\ HandsOver("error", Rejection)
    /\ UNCHANGED <<call, caller, deadline, reply, walk, info, succeeded, early>>

Begin ==
    /\ Sync /\ Rejection = None
    /\ Step("begin", IF action = "previewMessages" THEN "peek" ELSE "management")
    /\ UNCHANGED <<call, caller, deadline, outcome, reply, walk, info, succeeded, early>>

\* probe_management and list_entity_names, answered.
ManagementReads ==
    /\ pc = "management" /\ Sync
    /\ HandsOver(IF ListAction THEN "list" ELSE "success", "management")
    /\ succeeded' = succeeded \cup {"management"}
    /\ UNCHANGED <<call, caller, deadline, reply, walk, info, early>>

\* A call raises: an Azure error is walked, any other goes to the caller.
Raises(from, e) ==
    /\ pc = from
    /\ IF Errors[e].kind \in AzureErrors
       THEN /\ error' = e /\ origin' = from /\ unvisited' = <<e>> /\ seen' = {} /\ token' = FALSE
            /\ pc' = "linked" /\ UNCHANGED outcome
       ELSE HandsOver("error", "unexpected") /\ UNCHANGED walk
    /\ UNCHANGED <<call, caller, deadline, reply, info, succeeded, early>>

ManagementRaises == Sync /\ \E e \in ManagementErrors : Raises("management", e)

\* The call does not return.
Hangs ==
    /\ pc \in {"management", "peek"} /\ Sync
    /\ pc' = "hung"
    /\ UNCHANGED <<call, caller, deadline, outcome, reply, walk, info, succeeded, early>>

WalkLinks ==
    /\ pc = "linked" /\ unvisited # <<>>
    /\ Visit(unvisited[Len(unvisited)])
    /\ UNCHANGED <<call, caller, deadline, outcome, reply, pc, error, origin, info, succeeded, early>>

Walked == pc = "linked" /\ unvisited = <<>>
FallsBack == origin = "management" /\ action = "testConnection" /\ IsManagementDenied(error)

\* The error becomes the action's message.
ReportError ==
    /\ Walked /\ ~FallsBack
    /\ HandsOver("error", IF /\ origin = "management" /\ ListAction
                             /\ IsManagementDenied(error) /\ EffectiveAuthType(params) = "connection_string"
                          THEN "type the name" ELSE Message(error))
    /\ UNCHANGED <<call, caller, deadline, reply, walk, info, succeeded, early>>

\* _probe_entity_instead: testConnection without management rights peeks the
\* row's entity, if the row names one.
NoEntityToProbe ==
    /\ Walked /\ FallsBack /\ ~EntityIsValid(params)
    /\ IF EffectiveAuthType(params) = "connection_string" THEN HandsOver("warning", "not verified")
       ELSE HandsOver("error", "management denied")
    /\ UNCHANGED <<call, caller, deadline, reply, walk, info, succeeded, early>>

ProbeEntityInstead ==
    /\ Walked /\ FallsBack /\ EntityIsValid(params)
    /\ pc' = "peek"
    /\ UNCHANGED <<call, caller, deadline, outcome, reply, walk, info, succeeded, early>>

\* The row peeks with a receiver of its Sessions setting; a sub-queue has none.
Row == Normalised(params)
EntityHasSessions == requiresSession /\ ~params.subQueue

\* The receiver cannot be opened with a connection string of another entity.
PeekRefused ==
    /\ pc = "peek" /\ params.otherEntity
    /\ HandsOver("error", "other entity")
    /\ UNCHANGED <<call, caller, deadline, reply, walk, info, succeeded, early>>

\* Mutation of Peeked: no session to peek passes for an entity that can be read.
PeekedAnything(messages) ==
    IF action = "testConnection" THEN HandsOver("success", "peek")
    ELSE HandsOver(IF messages = "some" THEN "table" ELSE "info", "peek")

\* The result: messages, none, or (None in the code) no session to peek.
Peeked(messages) ==
    IF action = "testConnection" THEN HandsOver(IF messages = "no session" THEN "warning" ELSE "success", "peek")
    ELSE HandsOver(IF messages = "some" THEN "table" ELSE "info", "peek")

PeekReads ==
    /\ pc = "peek" /\ ~params.otherEntity /\ Row.sessionEnabled = EntityHasSessions
    /\ \E messages \in {"some", "empty"} : Peeked(messages)
    /\ succeeded' = succeeded \cup {"peek"}
    /\ UNCHANGED <<call, caller, deadline, reply, walk, info, early>>

\* OperationTimeoutError of a session row: no session is available now.
PeekFindsNoSession ==
    /\ pc = "peek" /\ ~params.otherEntity /\ Row.sessionEnabled
    /\ Peeked("no session")
    /\ UNCHANGED <<call, caller, deadline, reply, walk, info, succeeded, early>>

PeekRaises ==
    /\ ~params.otherEntity
    /\ \E e \in PeekErrors : /\ ~(Errors[e].kind = "OperationTimeoutError" /\ Row.sessionEnabled)
                             /\ Raises("peek", e)

(***************************************************************************)
(* The calling thread: join with a deadline, then look at the outcome.     *)
(***************************************************************************)

DeadlinePasses ==
    /\ Sync /\ caller = "joining" /\ ~deadline
    /\ deadline' = TRUE /\ early' = (outcome # <<>>)
    /\ UNCHANGED <<call, caller, outcome, reply, pc, walk, info, succeeded>>

JoinReturns ==
    /\ Sync /\ caller = "joining" /\ (outcome # <<>> \/ deadline)
    /\ caller' = "woken"
    /\ UNCHANGED <<call, deadline, outcome, reply, pc, walk, info, succeeded, early>>

\* Mutation of HandBack: a passed deadline wins over an outcome.
HandBackByTheClock == IF deadline THEN Reply("error", "timeout") ELSE outcome[1]

HandBack == IF outcome = <<>> THEN Reply("error", "timeout") ELSE outcome[1]

Replies ==
    /\ caller = "woken"
    /\ reply' = HandBack /\ caller' = "replied"
    /\ UNCHANGED <<call, deadline, outcome, pc, walk, info, succeeded, early>>

(***************************************************************************)
(* A run, up to where it opens its output and starts to consume.           *)
(***************************************************************************)

RunRejected ==
    /\ pc = "begin" /\ ~Sync /\ ~RowIsValid(params)
    /\ HandsOver("error", "row")
    /\ UNCHANGED <<call, caller, deadline, reply, walk, info, succeeded, early>>

RunBegins ==
    /\ ~Sync /\ RowIsValid(params) /\ Step("begin", "management")
    /\ UNCHANGED <<call, caller, deadline, outcome, reply, walk, info, succeeded, early>>

\* _check_sessions
SessionsMismatch(known) ==
    known # "unknown" /\ ~params.subQueue /\ (known = "yes") # Row.sessionEnabled

\* load_entity_info: any failure, the client builder's too, leaves the
\* metadata unknown.  Then the Sessions setting is checked.
LoadEntityInfo(known) ==
    /\ pc = "management" /\ ~Sync
    /\ info' = known
    /\ IF SessionsMismatch(known) THEN HandsOver("error", "sessions")
       ELSE pc' = "running" /\ UNCHANGED outcome
    /\ UNCHANGED <<call, caller, deadline, reply, walk, succeeded, early>>

RunReadsMetadata == ~BuilderRaises(params) /\ LoadEntityInfo(IF requiresSession THEN "yes" ELSE "no")
RunHasNoMetadata == LoadEntityInfo("unknown")

Worker ==
    \/ BeginRejected \/ Begin \/ ManagementReads \/ ManagementRaises \/ Hangs
    \/ WalkLinks \/ ReportError \/ NoEntityToProbe \/ ProbeEntityInstead
    \/ PeekRefused \/ PeekReads \/ PeekFindsNoSession \/ PeekRaises
Caller == DeadlinePasses \/ JoinReturns \/ Replies
Run == RunRejected \/ RunBegins \/ RunReadsMetadata \/ RunHasNoMetadata

Next == Worker \/ Caller \/ Run

Spec == Init /\ [][Next]_vars

\* Time passes and the calling thread runs.  Of the worker only the walk is
\* fair: it makes no call, while a call may block for as long as it likes.
FairSpec == Spec /\ WF_vars(DeadlinePasses) /\ WF_vars(JoinReturns \/ Replies) /\ WF_vars(WalkLinks)

(***************************************************************************)
(* Properties.                                                             *)
(***************************************************************************)

\* testConnection says SUCCESS only if the management endpoint was read or the
\* row's entity was peeked.
SuccessIsReal == reply # <<>> /\ reply[1] = "success" => succeeded # {}

\* The errors with a failed token acquisition at most n links away; in all, no
\* more links than there are errors need to be followed.
TokenFailuresWithin[n \in 0..Cardinality(ErrorIds)] ==
    IF n = 0 THEN {e \in ErrorIds : Errors[e].token}
    ELSE LET near == TokenFailuresWithin[n - 1]
         IN  near \cup {e \in ErrorIds : \E i \in DOMAIN Errors[e].links : Errors[e].links[i] \in near}
TokenFailures == TokenFailuresWithin[Cardinality(ErrorIds)]

\* A token that could not be acquired, however deep the SDKs wrapped that error,
\* is reported as rejected credentials, never as a missing right: no fallback
\* to a peek, no "type the name", no other message.
TokenFailureIsNamed ==
    error \in TokenFailures =>
        /\ pc = "done" => outcome = <<Reply("error", "credentials rejected")>>
        /\ pc # "peek"

\* The caller hands the worker's result back unchanged, and reports a timeout
\* only if the worker was not done when the deadline passed.
OutcomeIsHandedBack ==
    caller = "replied" =>
        IF reply = Reply("error", "timeout") THEN deadline /\ ~early ELSE outcome = <<reply>>

\* A run starts to consume only with a row the loops can consume: one message at
\* a time in receive_and_delete, a cursor only without sessions and sub-queues,
\* no session loop on a sub-queue although the parameters still ask for sessions
\* (a sub-queue has none), and otherwise the entity's own Sessions setting unless
\* the metadata could not be read.
AcceptedIsSafe ==
    pc = "running" =>
        /\ Row.mode = "receive_and_delete" => Row.prefetch = 1
        /\ Row.mode = "peek" /\ Row.fetchMode = "incremental_fetch" => ~Row.sessionEnabled /\ ~Row.subQueue
        /\ Row.subQueue => ~Row.sessionEnabled
        /\ info = "unknown" \/ Row.sessionEnabled = EntityHasSessions

\* A sync action replies although its worker may hang, and the walk over linked
\* errors ends although they may be linked in a circle.
ActionEnds ==
    /\ (Sync /\ caller = "joining") ~> (caller = "replied")
    /\ (pc = "linked") ~> (unvisited = <<>>)
==============================================================================
