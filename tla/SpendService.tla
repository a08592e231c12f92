---------------------------- MODULE SpendService ----------------------------
(***************************************************************************)
(* The refreshes of SpendRefresh beside the report of SpendReport.  Both   *)
(* work on spend_keys and spend_daily; what the report assumes of those    *)
(* who write them is what the refreshes are shown to keep to.              *)
(***************************************************************************)
EXTENDS SpendRefresh

NoWindows == [w \in {"24h", "7d", "30d"} |-> [k \in Keys |-> 0]]

(* SpendReport without a request and without top-ups: its environment. *)
Books == INSTANCE SpendReport WITH
  Week <- 1, Month <- 1, Amounts <- {}, TopupDays <- {}, MaxTopups <- 0, ReadsFail <- FALSE,
  topups <- {}, lastId <- 0,
  report <- [pc |-> "idle", now |-> 0, per |-> NoWindows,
             keys |-> {}, topups |-> {}, spend |-> 0, failed |-> {}],
  least <- [d \in {} |-> 0], lowered <- {}

(* Ticks and requests that overlap, fail half way, or see midnight between *)
(* the fetch and the save change the books only in the steps the report    *)
(* allows for: one row or one key at a time, totals of days that are over, *)
(* nothing deleted, and the day only ever moving on.                       *)
WritesAsReportAssumes == Books!Init /\ [][Books!Next]_<<today, metas, daily>>
=============================================================================
