--------------------------- MODULE AnthropicReader ---------------------------
(***************************************************************************)
(* anthropic.Collector.Fetch: load the Claude credentials, ask the usage   *)
(* endpoint, read the whole body, and name its windows.  The client's      *)
(* timeout covers the request and the body, and Fetch takes no context: it *)
(* is not ended by whoever asked.                                          *)
(***************************************************************************)
EXTENDS LimitsReader

CONSTANTS
  HTTPTimeout,  \* HTTPClient.Timeout
  RollingKeys   \* the fields of rawResponse that are rolling windows

ASSUME AnthropicAssumption == HTTPTimeout \in Nat

VARIABLES
  status,  \* resp.StatusCode: "none", "200" or "other"
  body     \* what the endpoint states: [rolling, extra]

anthropicVars == <<status, body>>

(* extra_usage: absent, switched off, on but without a utilization, or on. *)
Extras == {"absent", "disabled", "no_utilization", "enabled"}
Bodies == [rolling : SUBSET RollingKeys, extra : Extras]
NoBody == [rolling |-> {}, extra |-> "absent"]

AnthropicInit == status = "none" /\ body = NoBody

(* A missing or unreadable file, or one without a token. *)
LoadCredentials(found) ==
  /\ pc = "credentials"
  /\ pc' = IF found THEN "request" ELSE "failed"
  /\ blamed' = (blamed \/ ~found)
  /\ UNCHANGED <<time, reply, given, anthropicVars>>

Do(st) ==
  /\ pc = "request"
  /\ status' = st
  /\ pc' = "body"
  /\ blamed' = (blamed \/ st # "200")
  /\ UNCHANGED <<time, reply, given, body>>

(* The endpoint commits to what it states with the last byte of the body.  *)
States(b) ==
  /\ pc = "body" /\ ~reply.made
  /\ body' = b
  /\ reply' = [made |-> TRUE,
               windows |-> b.rolling \cup (IF b.extra = "enabled" THEN {"extra_usage"} ELSE {})]
  /\ UNCHANGED <<pc, time, given, blamed, status>>

(* Mutant: extra_usage is given although it states no utilization. *)
Windows_ExtraIfOn(b) ==
  LET rolling == [k \in {<<key>> : key \in b.rolling} |-> k[1]]
  IN  IF b.extra \in {"enabled", "no_utilization"}
      THEN Put(rolling, <<"extra_usage">>, "extra_usage")
      ELSE rolling

(* addWindow for each rolling window of the body, then extra_usage. *)
Windows(b) ==
  LET rolling == [k \in {<<key>> : key \in b.rolling} |-> k[1]]
  IN  IF b.extra = "enabled" THEN Put(rolling, <<"extra_usage">>, "extra_usage")
      ELSE rolling

(* ReadAll has the body; a status other than 200 or a body that does not   *)
(* parse fails the read.                                                   *)
ReadBody(parses) ==
  /\ pc = "body" /\ reply.made
  /\ IF status = "200" /\ parses
     THEN pc' = "ok" /\ given' = Windows(body) /\ UNCHANGED blamed
     ELSE pc' = "failed" /\ blamed' = TRUE /\ UNCHANGED given
  /\ UNCHANGED <<time, reply, anthropicVars>>

(* Do or ReadAll returns an error: a broken connection at any time, the    *)
(* client's timeout at the latest.                                         *)
HTTPFails ==
  /\ pc \in {"request", "body"}
  /\ pc' = "failed" /\ blamed' = TRUE
  /\ UNCHANGED <<time, reply, given, anthropicVars>>

(* Mutant: http.Client without a Timeout. *)
HTTPAdvance_NoTimeout ==
  /\ pc \in {"request", "body"}
  /\ time' = time + 1
  /\ UNCHANGED <<pc, reply, given, blamed, anthropicVars>>

HTTPAdvance ==
  /\ pc \in {"request", "body"} /\ time < HTTPTimeout
  /\ time' = time + 1
  /\ UNCHANGED <<pc, reply, given, blamed, anthropicVars>>

(* Time does not pass beyond the timeout, which then ends the read. *)
HTTPTimesOut == time >= HTTPTimeout /\ HTTPFails

AnthropicNext ==
  \/ \E found \in BOOLEAN : LoadCredentials(found)
  \/ \E st \in {"200", "other"} : Do(st)
  \/ \E b \in Bodies : States(b)
  \/ \E parses \in BOOLEAN : ReadBody(parses)
  \/ HTTPFails
  \/ HTTPAdvance
=============================================================================
