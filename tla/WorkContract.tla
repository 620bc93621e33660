---------------------------- MODULE WorkContract ----------------------------
(***************************************************************************)
(* What daemon-util/work.h promises to the owner of a work pool, without    *)
(* threads, queues or locks: a submitted work is pending until exactly one  *)
(* of three things happens (its done callback is called because it ended,   *)
(* the callback is called because it timed out, or the work is cancelled),  *)
(* its data is freed once and only after that, and no callback is called    *)
(* once the pool was freed.                                                 *)
(***************************************************************************)
CONSTANTS Works         \* the works that may be submitted

VARIABLES
    pending,            \* submitted, done callback not called, not cancelled
    outcome,            \* how each work left pending ("none": it has not)
    freed,              \* works whose data was given to free_fn
    open                \* dmn_work_pool_free() was not called

vars == <<pending, outcome, freed, open>>

Outcomes == {"ended", "timed_out", "cancelled"}

Init ==
    /\ pending = {}
    /\ outcome = [w \in Works |-> "none"]
    /\ freed = {}
    /\ open = TRUE

(* dmn_work_submit() succeeded. *)
Submit(w) ==
    /\ open
    /\ w \notin pending \cup freed
    /\ outcome[w] = "none"
    /\ pending' = pending \cup {w}
    /\ UNCHANGED <<outcome, freed, open>>

(* The done callback of w is called. *)
Report(w, o) ==
    /\ open
    /\ w \in pending
    /\ o \in {"ended", "timed_out"}
    /\ pending' = pending \ {w}
    /\ outcome' = [outcome EXCEPT ![w] = o]
    /\ UNCHANGED <<freed, open>>

(* w is cancelled, by its owner or because the pool is freed. Its data is   *)
(* freed at once, or later by the worker that still runs it.                *)
Cancel(w) ==
    /\ w \in pending
    /\ pending' = pending \ {w}
    /\ outcome' = [outcome EXCEPT ![w] = "cancelled"]
    /\ freed' \in {freed, freed \cup {w}}
    /\ UNCHANGED open

(* free_fn(data). *)
Free(w) ==
    /\ outcome[w] # "none"
    /\ w \notin freed
    /\ freed' = freed \cup {w}
    /\ UNCHANGED <<pending, outcome, open>>

(* dmn_work_pool_free() *)
Close ==
    /\ open
    /\ open' = FALSE
    /\ UNCHANGED <<pending, outcome, freed>>

Next ==
    \/ \E w \in Works : Submit(w) \/ Cancel(w) \/ Free(w)
    \/ \E w \in Works, o \in Outcomes : Report(w, o)
    \/ Close

Spec == Init /\ [][Next]_vars
=============================================================================
