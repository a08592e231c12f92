----------------------------- MODULE LimitBoard -----------------------------
(***************************************************************************)
(* What the limit snapshots of one provider promise to whoever asks for    *)
(* the latest: snapshots are published whole and never change, and an      *)
(* answer shows one second only, the newest published when the question    *)
(* was put, with at least one whole snapshot of it.                        *)
(***************************************************************************)
EXTENDS Integers, FiniteSets

CONSTANTS Readers, WindowKeys,
  Ids, Seconds  \* what snapshots are numbered and stamped with

VARIABLES
  published,  \* the snapshots: records with an id, a second "at" and "keys"
  question    \* per reader: "idle", "open" or "answered", and what it was told

Newest(snapshots) ==
  IF snapshots = {} THEN 0
  ELSE CHOOSE n \in {x.at : x \in snapshots} : \A x \in snapshots : x.at <= n

Second(n) == {x \in published : x.at = n}

Idle == [state |-> "idle", at |-> 0, keys |-> {}]

Init == published = {} /\ question = [r \in Readers |-> Idle]

Publish ==
  /\ \E x \in [id : Ids, at : Seconds, keys : SUBSET WindowKeys] :
       /\ x.keys # {} /\ \A y \in published : y.id # x.id
       /\ published' = published \cup {x}
  /\ UNCHANGED question

Ask(r) ==
  /\ question[r] = Idle /\ published # {}
  /\ question' = [question EXCEPT ![r] =
                    [state |-> "open", at |-> Newest(published), keys |-> {}]]
  /\ UNCHANGED published

Answer(r) ==
  /\ question[r].state = "open"
  /\ \E keys \in SUBSET UNION {x.keys : x \in Second(question[r].at)} :
       /\ \E x \in Second(question[r].at) : x.keys \subseteq keys
       /\ question' = [question EXCEPT ![r] =
                         [state |-> "answered", at |-> question[r].at, keys |-> keys]]
  /\ UNCHANGED published

(* No answer at all: nothing was published, the read failed, or the reader *)
(* is gone.                                                                *)
Drop(rs) ==
  /\ question' = [r \in Readers |-> IF r \in rs THEN Idle ELSE question[r]]
  /\ UNCHANGED published

vars == <<published, question>>

Next ==
  \/ Publish
  \/ \E r \in Readers : Ask(r) \/ Answer(r)
  \/ \E rs \in SUBSET Readers : Drop(rs)

Spec == Init /\ [][Next]_vars
=============================================================================
