------------------------------ MODULE MCActions ------------------------------
(***************************************************************************)
(* Actions with one error per kind, two wrapped token failures and two      *)
(* errors linked in a circle, and rows that differ in one or two settings.  *)
(***************************************************************************)
EXTENDS Actions

Plain(kind) == [kind |-> kind, status |-> 0, text |-> "", token |-> FALSE, links |-> <<>>]
MCErrors ==
    <<[Plain("ClientAuthenticationError") EXCEPT !.status = 401],
      [Plain("HttpResponseError") EXCEPT !.status = 403],
      [Plain("ClientAuthenticationError") EXCEPT !.token = TRUE],
      [Plain("HttpResponseError") EXCEPT !.status = 500],
      Plain("ResourceNotFoundError"),
      [Plain("CredentialUnavailableError") EXCEPT !.token = TRUE],
      [Plain("AzureError") EXCEPT !.links = <<8>>],            \* 7 and 8 in a circle
      [Plain("other") EXCEPT !.links = <<7, 5>>],
      [Plain("ServiceBusError") EXCEPT !.links = <<3>>],       \* "Handler failed"
      [Plain("ServiceBusAuthenticationError") EXCEPT !.links = <<11, 8>>],
      [Plain("other") EXCEPT !.links = <<8, 6>>],
      [Plain("ServiceBusError") EXCEPT !.text = "requires sessions"],
      [Plain("ServiceBusError") EXCEPT !.text = "not sessionful", !.links = <<12>>],
      Plain("ServiceBusAuthorizationError"), Plain("MessagingEntityNotFoundError"),
      Plain("MessagingEntityDisabledError"), Plain("ServiceBusServerBusyError"),
      Plain("ServiceBusConnectionError"), Plain("OperationTimeoutError"), Plain("ServiceBusError"),
      [Plain("ServiceBusAuthenticationError") EXCEPT !.links = <<20, 4>>]>>
MCManagementErrors == 1..8
MCPeekErrors == 8..21 \ {11}

Row0 ==
    [rowKey |-> FALSE, authType |-> "connection_string", credentials |-> "all", malformed |-> FALSE,
     otherEntity |-> FALSE, topic |-> TRUE, source |-> "named", subQueue |-> FALSE, sessionEnabled |-> FALSE,
     mode |-> "complete", fetchMode |-> "full_fetch", advancedOptions |-> TRUE, prefetch |-> 2,
     tableName |-> TRUE]

\* Who asks, and for what.
AuthRows ==
    {[Row0 EXCEPT !.rowKey = k, !.authType = a, !.credentials = c] :
        k \in BOOLEAN, a \in {"connection_string", "service_principal"}, c \in {"none", "blank", "some", "all"}}
    \cup {[Row0 EXCEPT !.malformed = TRUE], [Row0 EXCEPT !.otherEntity = TRUE], [Row0 EXCEPT !.tableName = FALSE],
          [Row0 EXCEPT !.topic = FALSE, !.source = "partial"],
          [Row0 EXCEPT !.authType = "service_principal", !.source = "none"]}
\* Every combination of the settings the validators of a row relate.
SettingRows ==
    {[Row0 EXCEPT !.subQueue = q, !.sessionEnabled = s, !.mode = m, !.fetchMode = f, !.advancedOptions = a] :
        q \in BOOLEAN, s \in BOOLEAN, a \in BOOLEAN, m \in {"complete", "receive_and_delete", "peek"},
        f \in {"incremental_fetch", "full_fetch"}}
MCRows == AuthRows \cup SettingRows
==============================================================================
