----------------------------- MODULE LimitsRead -----------------------------
(***************************************************************************)
(* What one read of a provider's limits promises to whoever asked for it:  *)
(* it ends within the time it was given at the start, and it either fails  *)
(* or gives every window the provider stated, each under a key of its own. *)
(***************************************************************************)
EXTENDS Integers

VARIABLES
  phase,  \* "idle", "reading", "ok" or "failed"
  left,   \* how much of its time the read has left
  reply,  \* whether the provider has replied, and the windows it stated
  given   \* the windows a successful read gives, by key

Init ==
  /\ phase = "idle" /\ left = 0
  /\ reply = [made |-> FALSE, windows |-> {}]
  /\ given = << >>

Begin ==
  /\ phase = "idle"
  /\ phase' = "reading" /\ left' \in Nat
  /\ UNCHANGED <<reply, given>>

Pass ==
  /\ phase = "reading" /\ left > 0
  /\ left' = left - 1
  /\ UNCHANGED <<phase, reply, given>>

(* The provider answers once, and may still do so when the read has ended. *)
Reply ==
  /\ ~reply.made /\ reply'.made
  /\ UNCHANGED <<phase, left, given>>

Succeed ==
  /\ phase = "reading" /\ phase' = "ok"
  /\ reply.made
  /\ {given'[key] : key \in DOMAIN given'} = reply.windows
  /\ \A key1, key2 \in DOMAIN given' : given'[key1] = given'[key2] => key1 = key2
  /\ UNCHANGED <<left, reply>>

Fail ==
  /\ phase = "reading" /\ phase' = "failed"
  /\ UNCHANGED <<left, reply, given>>

vars == <<phase, left, reply, given>>

Next == Begin \/ Pass \/ Reply \/ Succeed \/ Fail

Spec == Init /\ [][Next]_vars
=============================================================================
