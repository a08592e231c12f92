---------------------------- MODULE LimitsReader ----------------------------
(***************************************************************************)
(* What the two collectors of limits, codex.Reader and                     *)
(* anthropic.Collector, have in common: one read in progress, the clock    *)
(* that bounds it, what the provider said and what the read makes of it.   *)
(***************************************************************************)
EXTENDS Integers

VARIABLES
  pc,     \* where the read is; "idle", then one reader's steps, then "ok" or "failed"
  time,   \* since the read began
  reply,  \* what the provider has stated: [made, windows]
  given,  \* ProviderLimits.Windows of a successful read: key -> window
  blamed  \* history: something outside this program went wrong

readerVars == <<pc, time, reply, given, blamed>>

NoWindows == << >>

ReaderInit ==
  /\ pc = "idle" /\ time = 0
  /\ reply = [made |-> FALSE, windows |-> {}]
  /\ given = NoWindows
  /\ blamed = FALSE

(* out.Windows[key] = window *)
Put(windows, key, window) ==
  [k \in DOMAIN windows \cup {key} |-> IF k = key THEN window ELSE windows[k]]

(* A read fails only because of something outside this program: the        *)
(* provider, its process, its answer, or the time.  What the other side is *)
(* allowed to do, such as notifications and requests of its own between    *)
(* two responses, never costs a snapshot.                                  *)
EveryFailureHasACause == pc = "failed" => blamed
=============================================================================
