--------------------------- MODULE RefreshRequest ---------------------------
(***************************************************************************)
(* POST /limits/refresh: handleRefresh reads the provider it is asked for  *)
(* with that provider's collector, stores what the read gives and answers. *)
(* The refresher reads through the same two collectors; there the caller   *)
(* that leaves is shutdown.                                                *)
(***************************************************************************)
EXTENDS AnthropicReader, CodexReader

VARIABLES
  codexOn,   \* main found the codex command: cx is not nil
  provider,  \* the provider asked for
  response,  \* the status of the answer, 0 before it
  stored     \* SaveLimits has written rows of this read

requestVars == <<codexOn, provider, response, stored>>
vars == <<readerVars, anthropicVars, codexVars, requestVars>>

Init ==
  /\ ReaderInit /\ AnthropicInit /\ CodexInit
  /\ codexOn \in BOOLEAN
  /\ provider = "none" /\ response = 0 /\ stored = FALSE

Refuse(p, status_) ==
  /\ provider' = p /\ response' = status_
  /\ UNCHANGED <<codexOn, stored, readerVars>>

Ask(p) ==
  /\ provider = "none" /\ pc = "idle"
  /\ \/ p = "unknown" /\ Refuse(p, 400)
     \/ p = "codex" /\ ~codexOn /\ Refuse(p, 503)
     \/ /\ p = "anthropic" \/ (p = "codex" /\ codexOn)
        /\ provider' = p
        /\ pc' = IF p = "codex" THEN "start" ELSE "credentials"
        /\ UNCHANGED <<time, reply, given, blamed, codexOn, response, stored>>
  /\ UNCHANGED <<anthropicVars, codexVars>>

(* SaveLimits writes one row per window, all of them or none. *)
Store(err) ==
  /\ pc = "ok" /\ response = 0
  /\ response' = IF err THEN 500 ELSE 200
  /\ stored' = (~err /\ given # NoWindows)
  /\ UNCHANGED <<codexOn, provider, readerVars, anthropicVars, codexVars>>

BadGateway ==
  /\ pc = "failed" /\ response = 0
  /\ response' = 502
  /\ UNCHANGED <<codexOn, provider, stored, readerVars, anthropicVars, codexVars>>

(* The client goes: r.Context is done.  Only the Codex read notices. *)
ClientLeaves ==
  /\ provider = "codex"
  /\ CallerLeaves
  /\ UNCHANGED <<requestVars, anthropicVars>>

Codex(A) == A /\ UNCHANGED <<requestVars, anthropicVars>>
Anthropic(A) == A /\ UNCHANGED <<requestVars, codexVars>>

Answer == (\E err \in BOOLEAN : Store(err)) \/ BadGateway

Next ==
  \/ \E p \in {"anthropic", "codex", "unknown"} : Ask(p)
  \/ Codex(CodexNext)
  \/ Anthropic(AnthropicNext)
  \/ Answer
  \/ ClientLeaves

Spec == Init /\ [][Next]_vars

(* Time passes, the goroutine that can run does, and timers fire.  Nothing *)
(* is assumed of the process, the endpoint or the client.                  *)
Fairness ==
  /\ WF_vars(Codex(CodexAdvance)) /\ WF_vars(Anthropic(HTTPAdvance))
  /\ WF_vars(Codex(ReadStep)) /\ WF_vars(Codex(WatcherFires))
  /\ WF_vars(Anthropic(\E found \in BOOLEAN : LoadCredentials(found)))
  /\ WF_vars(Anthropic(HTTPTimesOut))
  /\ WF_vars(Answer)

FairSpec == Spec /\ Fairness

-----------------------------------------------------------------------------
Longest == Timeout + WaitDelay

(* The shape of the state; no clock or deadline runs past its bound. *)
RequestTypeOK ==
  /\ pc \in {"idle", "credentials", "request", "body", "start", "initialize", "await1",
             "ask", "await2", "close", "wait", "result", "drain", "decode", "ok", "failed"}
  /\ time \in 0 .. (IF provider = "codex" THEN Longest ELSE HTTPTimeout)
  /\ reply \in [made : BOOLEAN, windows : SUBSET (RollingKeys \cup {"extra_usage", "primary", "secondary"})]
  /\ blamed \in BOOLEAN
  /\ status \in {"none", "200", "other"} /\ body \in Bodies
  /\ wrapper \in {"none", "alive", "exited0", "exited1", "reaped"}
  /\ native \in {"none", "alive", "gone"}
  /\ pending \subseteq {1, 2} /\ Len(stdout) <= PipeSize
  /\ stdinOpen \in BOOLEAN /\ cancelled \in BOOLEAN
  /\ watcher \in {"none", "watching", "killed", "returned"}
  /\ expiry \in 0 .. Longest
  /\ raw.ok \in BOOLEAN /\ raw.result \in Results /\ waitErr \in BOOLEAN
  /\ codexOn \in BOOLEAN /\ stored \in BOOLEAN
  /\ provider \in {"none", "anthropic", "codex", "unknown"}
  /\ response \in {0, 200, 400, 500, 502, 503}

(* Every request is answered whatever the other side does: a silent        *)
(* endpoint, a process that neither answers nor exits, a native binary     *)
(* that holds stderr.  Two timeouts and WaitDelay see to that.             *)
RequestAnswered == provider # "none" ~> response # 0

(* The time a read may take, known when it starts: the HTTP timeout, or    *)
(* the Codex timeout and the delay Wait adds to it.                        *)
Budget == CASE pc = "idle" -> 0
            [] provider = "codex" -> Longest
            [] OTHER -> HTTPTimeout

Promise == INSTANCE LimitsRead WITH
  phase <- IF pc \in {"idle", "ok", "failed"} THEN pc ELSE "reading",
  left <- Budget - time

(* Both collectors keep the promise of LimitsRead: in time, and with every *)
(* window the provider stated or none, never one in place of another.      *)
KeepsPromise == Promise!Spec
=============================================================================
