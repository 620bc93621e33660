------------------------------ MODULE WorkPool ------------------------------
(***************************************************************************)
(* The worker pool of the daemons, daemon-util/work.c: blocking functions   *)
(* run in detached threads, their end is reported from the sd-event loop.   *)
(*                                                                          *)
(* Processes: the event loop thread (the owner of the pool, and the         *)
(* callbacks sd-event makes) and the worker threads. Everything in struct   *)
(* shared is accessed under s->lock. A critical section of the event loop   *)
(* is one step guarded by LockFree; a worker that loops from the end of one *)
(* work to the next keeps the lock over two steps ("top").                  *)
(***************************************************************************)
EXTENDS Integers, Sequences, FiniteSets, SequencesExt

CONSTANTS
    Works,              \* struct dmn_work; each is submitted at most once
    Threads,            \* identities of worker threads
    MaxWorkers,         \* max_workers of dmn_work_pool_new()
    None                \* no work

ASSUME MaxWorkersAssumption == MaxWorkers \in Nat \ {0}
ASSUME NoneAssumption == None \notin Works
ASSUME ThreadsAssumption == IsFiniteSet(Threads)

VARIABLES
    queued, done,       \* s->queued, s->done: lists of works, in FIFO order
    nr_workers, nr_idle, nr_queued, refs, closing,  \* struct shared
    fd,                 \* s->fd is readable
    state,              \* w->state
    timer,              \* w->timer is armed
    active,             \* p->active
    dispatching, free_pending,                      \* struct dmn_work_pool
    pool,               \* "open", "destroying" (in destroy()) or "gone"
    thread, job,        \* where each worker is, and the work it holds
    loop, cur, owned,   \* where the event loop is; the work of finish(), and
                        \* whether detach() gave it to the event loop
    frees,              \* history: calls of work_free() per work
    outcome,            \* history: how a work left p->active
    start_failed        \* history: a pthread_create() failed

shared == <<queued, done, nr_workers, nr_idle, nr_queued, refs, closing, fd>>
works == <<state, timer, active, frees, outcome>>
ploop == <<dispatching, free_pending, pool, loop, cur, owned>>
workers == <<thread, job>>
vars == <<shared, works, ploop, workers, start_failed>>

(* "start": will lock and enter the loop; "top": holds the lock at the head *)
(* of the loop; "wait": in pthread_cond_wait(); "woken": left it, does not  *)
(* have the lock yet; "run": in fn(); "drop": will free a dropped work.     *)
ThreadStates ==
    {"none", "start", "top", "wait", "woken", "run", "drop", "exit"}
WorkStates == {"new", "queued", "running", "done", "dropped"}
LoopStates == {"idle", "drain", "timeout", "callback"}

TypeOK ==
    /\ queued \in Seq(Works) /\ done \in Seq(Works)
    /\ nr_workers \in Nat /\ nr_idle \in Nat /\ nr_queued \in Nat
    /\ refs \in Nat /\ closing \in BOOLEAN /\ fd \in BOOLEAN
    /\ state \in [Works -> WorkStates] /\ timer \in [Works -> BOOLEAN]
    /\ active \in SUBSET Works
    /\ dispatching \in BOOLEAN /\ free_pending \in BOOLEAN
    /\ pool \in {"open", "destroying", "gone"}
    /\ thread \in [Threads -> ThreadStates]
    /\ job \in [Threads -> Works \cup {None}]
    /\ loop \in LoopStates /\ cur \in Works \cup {None} /\ owned \in BOOLEAN
    /\ frees \in [Works -> Nat]
    /\ outcome \in [Works -> {"none", "ended", "timed_out", "cancelled"}]
    /\ start_failed \in BOOLEAN

(* dmn_work_pool_new() *)
Init ==
    /\ queued = <<>> /\ done = <<>>
    /\ nr_workers = 0 /\ nr_idle = 0 /\ nr_queued = 0 /\ refs = 1
    /\ closing = FALSE /\ fd = FALSE
    /\ state = [w \in Works |-> "new"]
    /\ timer = [w \in Works |-> FALSE]
    /\ active = {}
    /\ dispatching = FALSE /\ free_pending = FALSE /\ pool = "open"
    /\ thread = [t \in Threads |-> "none"]
    /\ job = [t \in Threads |-> None]
    /\ loop = "idle" /\ cur = None /\ owned = FALSE
    /\ frees = [w \in Works |-> 0]
    /\ outcome = [w \in Works |-> "none"]
    /\ start_failed = FALSE

-----------------------------------------------------------------------------

LockFree == \A t \in Threads : thread[t] # "top"

Waiting == {t \in Threads : thread[t] = "wait"}

(* The list s without its element w; s itself if w is not on it. *)
ListDel(s, w) ==
    IF \E i \in DOMAIN s : s[i] = w
    THEN RemoveAt(s, CHOOSE i \in DOMAIN s : s[i] = w)
    ELSE s

\* Mutant: the signal is forgotten.
Signal_Forgotten(th) == thread' = th

(* pthread_cond_signal(): one waiter, if there is one, is woken. th is the  *)
(* function thread after what precedes the signal.                          *)
Signal(th) ==
    IF \E t \in Threads : th[t] = "wait"
    THEN \E t \in Threads :
            th[t] = "wait" /\ thread' = [th EXCEPT ![t] = "woken"]
    ELSE thread' = th

(* The worker threads *)

(* A new worker takes the lock, or one that has freed a dropped work.       *)
WorkerLock(t) ==
    /\ thread[t] = "start"
    /\ LockFree
    /\ thread' = [thread EXCEPT ![t] = "top"]
    /\ UNCHANGED <<shared, works, ploop, job, start_failed>>

\* Mutant: the worker does not count itself as idle.
WorkerWait_NotCounted(t) ==
    /\ thread[t] = "top" /\ ~closing /\ queued = <<>>
    /\ thread' = [thread EXCEPT ![t] = "wait"]
    /\ UNCHANGED <<shared, works, ploop, job, start_failed>>

(* Nothing to do: nr_idle++ and pthread_cond_wait(). *)
WorkerWait(t) ==
    /\ thread[t] = "top"
    /\ ~closing
    /\ queued = <<>>
    /\ nr_idle' = nr_idle + 1
    /\ thread' = [thread EXCEPT ![t] = "wait"]
    /\ UNCHANGED <<queued, done, nr_workers, nr_queued, refs, closing, fd>>
    /\ UNCHANGED <<works, ploop, job, start_failed>>

(* pthread_cond_wait() may return without a signal. *)
SpuriousWakeup(t) ==
    /\ thread[t] = "wait"
    /\ thread' = [thread EXCEPT ![t] = "woken"]
    /\ UNCHANGED <<shared, works, ploop, job, start_failed>>

(* pthread_cond_wait() has the lock again. *)
WorkerWakeup(t) ==
    /\ thread[t] = "woken"
    /\ LockFree
    /\ nr_idle' = nr_idle - 1
    /\ thread' = [thread EXCEPT ![t] = "top"]
    /\ UNCHANGED <<queued, done, nr_workers, nr_queued, refs, closing, fd>>
    /\ UNCHANGED <<works, ploop, job, start_failed>>

(* Take the first queued work, unlock, and call its fn. *)
WorkerPop(t) ==
    /\ thread[t] = "top"
    /\ ~closing
    /\ queued # <<>>
    /\ queued' = Tail(queued)
    /\ nr_queued' = nr_queued - 1
    /\ state' = [state EXCEPT ![Head(queued)] = "running"]
    /\ job' = [job EXCEPT ![t] = Head(queued)]
    /\ thread' = [thread EXCEPT ![t] = "run"]
    /\ UNCHANGED <<done, nr_workers, nr_idle, refs, closing, fd>>
    /\ UNCHANGED <<timer, active, frees, outcome, ploop, start_failed>>

(* fn returned, nobody dropped the work: give it to the event loop. The     *)
(* worker keeps the lock and goes to the head of its loop.                  *)
WorkerEnd(t) ==
    /\ thread[t] = "run"
    /\ LockFree
    /\ state[job[t]] # "dropped"
    /\ state' = [state EXCEPT ![job[t]] = "done"]
    /\ done' = Append(done, job[t])
    /\ fd' = TRUE
    /\ job' = [job EXCEPT ![t] = None]
    /\ thread' = [thread EXCEPT ![t] = "top"]
    /\ UNCHANGED <<queued, nr_workers, nr_idle, nr_queued, refs, closing>>
    /\ UNCHANGED <<timer, active, frees, outcome, ploop, start_failed>>

(* fn returned, the event loop dropped the work meanwhile: unlock... *)
WorkerDropped(t) ==
    /\ thread[t] = "run"
    /\ LockFree
    /\ state[job[t]] = "dropped"
    /\ thread' = [thread EXCEPT ![t] = "drop"]
    /\ UNCHANGED <<shared, works, ploop, job, start_failed>>

(* ...and free it without the lock. *)
WorkerFree(t) ==
    /\ thread[t] = "drop"
    /\ frees' = [frees EXCEPT ![job[t]] = @ + 1]
    /\ job' = [job EXCEPT ![t] = None]
    /\ thread' = [thread EXCEPT ![t] = "start"]
    /\ UNCHANGED <<shared, state, timer, active, outcome, ploop, start_failed>>

(* The pool is gone: drop the reference, unlock, return. *)
WorkerExit(t) ==
    /\ thread[t] = "top"
    /\ closing
    /\ refs' = refs - 1
    /\ thread' = [thread EXCEPT ![t] = "exit"]
    /\ UNCHANGED <<queued, done, nr_workers, nr_idle, nr_queued, closing, fd>>
    /\ UNCHANGED <<works, ploop, job, start_failed>>

-----------------------------------------------------------------------------

(* The event loop: calls of the API, from the event loop or from a callback *)

(* Where the owner of the pool may call it: its own handlers and the done   *)
(* callbacks, as long as it did not free the pool.                          *)
ApiAllowed ==
    /\ loop \in {"idle", "callback"}
    /\ pool = "open"
    /\ ~free_pending

\* Mutants: one worker too many; a new worker only when none is idle.
WantsWorker_OffByOne == nr_queued + 1 > nr_idle /\ nr_workers <= MaxWorkers
WantsWorker_NoneIdle == nr_idle = 0 /\ nr_workers < MaxWorkers

(* Whether dmn_work_submit() wants one more worker for the work it adds. *)
WantsWorker == nr_queued + 1 > nr_idle /\ nr_workers < MaxWorkers

(* The work is queued and active, with or without a timeout. *)
Enqueue(w, timed) ==
    /\ state' = [state EXCEPT ![w] = "queued"]
    /\ queued' = Append(queued, w)
    /\ nr_queued' = nr_queued + 1
    /\ timer' = [timer EXCEPT ![w] = timed]
    /\ active' = active \cup {w}
    /\ UNCHANGED <<done, nr_idle, closing, fd, frees, outcome, ploop, job>>

(* dmn_work_submit(), when start_worker() is called and succeeds. The       *)
(* signal wakes up an idle worker as well, if there is one.                 *)
SubmitStart(w, timed) ==
    /\ ApiAllowed /\ LockFree
    /\ state[w] = "new"
    /\ WantsWorker
    /\ Enqueue(w, timed)
    /\ refs' = refs + 1
    /\ nr_workers' = nr_workers + 1
    /\ \E t \in Threads :
        /\ thread[t] = "none"
        /\ Signal([thread EXCEPT ![t] = "start"])
    /\ UNCHANGED start_failed

\* Mutant: the work is accepted although nobody will run it.
HasWorker_Unchecked == TRUE

(* No new worker is needed, or there is one to run the work later. *)
HasWorker == WantsWorker => nr_workers > 0

(* dmn_work_submit(), when there are workers and no new one is started:     *)
(* none is wanted, or pthread_create() failed.                              *)
SubmitNoStart(w, timed) ==
    /\ ApiAllowed /\ LockFree
    /\ state[w] = "new"
    /\ HasWorker
    /\ Enqueue(w, timed)
    /\ Signal(thread)
    /\ start_failed' = (start_failed \/ WantsWorker)
    /\ UNCHANGED <<refs, nr_workers>>

(* dmn_work_submit(), when pthread_create() fails and there is no worker:   *)
(* everything is undone and the caller keeps its data.                      *)
SubmitReject(w) ==
    /\ ApiAllowed /\ LockFree
    /\ state[w] = "new"
    /\ WantsWorker
    /\ nr_workers = 0
    /\ UNCHANGED vars

(* s->nr_queued after w was taken off its list. *)
\* Mutant: the counter is not decremented.
QueuedAfterDetach_Stale(w) == nr_queued

QueuedAfterDetach(w) ==
    IF state[w] = "queued" THEN nr_queued - 1 ELSE nr_queued

(* detach(): take w away from the workers and from the event loop. *)
Detach(w) ==
    /\ LockFree
    /\ active' = active \ {w}
    /\ timer' = [timer EXCEPT ![w] = FALSE]
    /\ IF state[w] = "running"
       THEN /\ state' = [state EXCEPT ![w] = "dropped"]
            /\ UNCHANGED <<queued, done, nr_queued>>
       ELSE /\ queued' = ListDel(queued, w)
            /\ done' = ListDel(done, w)
            /\ nr_queued' = QueuedAfterDetach(w)
            /\ UNCHANGED state
    /\ UNCHANGED <<nr_workers, nr_idle, refs, closing, fd>>

\* Mutant: the caller frees a work that a worker still runs.
DetachOwns_Always(w) == TRUE

(* Whether detach() returns the work: its caller frees it, not a worker. *)
DetachOwns(w) == state[w] # "running"

(* work_free(detach(w)), for dmn_work_cancel() and destroy(). *)
DetachAndFree(w) ==
    /\ Detach(w)
    /\ frees' = IF DetachOwns(w) THEN [frees EXCEPT ![w] = @ + 1] ELSE frees
    /\ outcome' = [outcome EXCEPT ![w] = "cancelled"]

(* dmn_work_cancel(): w is valid until its callback is called. *)
Cancel(w) ==
    /\ ApiAllowed
    /\ w \in active
    /\ DetachAndFree(w)
    /\ UNCHANGED <<ploop, workers, start_failed>>

(* dmn_work_pool_free(), while on_done() dispatches: left to on_done(). *)
PoolFreeLater ==
    /\ ApiAllowed
    /\ dispatching
    /\ free_pending' = TRUE
    /\ UNCHANGED <<shared, works, dispatching, pool, loop, cur, owned>>
    /\ UNCHANGED <<workers, start_failed>>

(* dmn_work_pool_free() otherwise: destroy() starts. *)
PoolFree ==
    /\ ApiAllowed
    /\ ~dispatching
    /\ pool' = "destroying"
    /\ UNCHANGED <<shared, works, dispatching, free_pending, loop, cur, owned>>
    /\ UNCHANGED <<workers, start_failed>>

(* destroy(): one work of p->active. *)
DestroyWork(w) ==
    /\ pool = "destroying"
    /\ w \in active
    /\ DetachAndFree(w)
    /\ UNCHANGED <<ploop, workers, start_failed>>

\* Mutant: the idle workers are not woken up.
Broadcast_Forgotten == thread

(* pthread_cond_broadcast() *)
Broadcast ==
    [t \in Threads |-> IF thread[t] = "wait" THEN "woken" ELSE thread[t]]

(* destroy(): the rest. *)
DestroyClose ==
    /\ pool = "destroying"
    /\ active = {}
    /\ LockFree
    /\ pool' = "gone"
    /\ closing' = TRUE
    /\ thread' = Broadcast
    /\ refs' = refs - 1
    /\ UNCHANGED <<queued, done, nr_workers, nr_idle, nr_queued, fd, works>>
    /\ UNCHANGED <<dispatching, free_pending, loop, cur, owned, job>>
    /\ UNCHANGED start_failed

-----------------------------------------------------------------------------

(* The event loop: what sd-event dispatches *)

(* on_done() starts: read the eventfd. *)
OnDone ==
    /\ loop = "idle" /\ pool = "open"
    /\ fd
    /\ fd' = FALSE
    /\ dispatching' = TRUE
    /\ loop' = "drain"
    /\ UNCHANGED <<queued, done, nr_workers, nr_idle, nr_queued, refs, closing>>
    /\ UNCHANGED <<works, free_pending, pool, cur, owned, workers>>
    /\ UNCHANGED start_failed

\* Mutant: the work is freed before its callback is called.
Finish_FreesFirst(w, timed_out) ==
    /\ Detach(w)
    /\ frees' = IF DetachOwns(w) THEN [frees EXCEPT ![w] = @ + 1] ELSE frees
    /\ outcome' = [outcome EXCEPT ![w] =
                    IF timed_out THEN "timed_out" ELSE "ended"]
    /\ loop' = "callback" /\ cur' = w /\ owned' = FALSE
    /\ UNCHANGED <<dispatching, free_pending, pool, workers, start_failed>>

(* finish(): w is detached, then its callback is called. *)
Finish(w, timed_out) ==
    /\ Detach(w)
    /\ outcome' = [outcome EXCEPT ![w] =
                    IF timed_out THEN "timed_out" ELSE "ended"]
    /\ loop' = "callback" /\ cur' = w /\ owned' = DetachOwns(w)
    /\ UNCHANGED <<dispatching, free_pending, pool, frees, workers>>
    /\ UNCHANGED start_failed

\* Mutant: on_done() does not look whether a callback freed the pool.
DrainFinish_AfterFree ==
    /\ loop = "drain" /\ done # <<>>
    /\ Finish(Head(done), FALSE)

(* on_done(), the loop body: the first work of s->done. Only the event loop *)
(* removes from the list, so that list_top() and detach() are one step.     *)
DrainFinish ==
    /\ loop = "drain"
    /\ ~free_pending
    /\ done # <<>>
    /\ Finish(Head(done), FALSE)

\* Mutant: the deferred destroy() is forgotten.
PoolAfterDrain_Kept == pool

PoolAfterDrain == IF free_pending THEN "destroying" ELSE pool

(* on_done(), the end: destroy() if a callback freed the pool. *)
DrainEnd ==
    /\ loop = "drain"
    /\ free_pending \/ (LockFree /\ done = <<>>)
    /\ dispatching' = FALSE
    /\ pool' = PoolAfterDrain
    /\ loop' = "idle"
    /\ UNCHANGED <<shared, works, free_pending, cur, owned, workers>>
    /\ UNCHANGED start_failed

\* Mutant: only a work that no worker has taken times out.
TimeoutIgnored_Running(w) == state[w] # "queued"

(* on_timeout() returns early: on_done() reports the work. *)
TimeoutIgnored(w) == state[w] = "done"

(* on_timeout(): a one-shot timer expired. Nothing to do if the work ended; *)
(* otherwise finish() follows, after the lock was released.                 *)
OnTimeout(w) ==
    /\ loop = "idle" /\ pool = "open"
    /\ timer[w]
    /\ LockFree
    /\ timer' = [timer EXCEPT ![w] = FALSE]
    /\ IF TimeoutIgnored(w)
       THEN UNCHANGED <<loop, cur>>
       ELSE loop' = "timeout" /\ cur' = w
    /\ UNCHANGED <<shared, state, active, frees, outcome>>
    /\ UNCHANGED <<dispatching, free_pending, pool, owned>>
    /\ UNCHANGED <<workers, start_failed>>

TimeoutFinish ==
    /\ loop = "timeout"
    /\ Finish(cur, TRUE)

\* Mutant: on_done() reports one work per wakeup.
CallbackReturn_OnlyOne ==
    /\ loop = "callback" /\ pool # "destroying"
    /\ frees' = IF owned THEN [frees EXCEPT ![cur] = @ + 1] ELSE frees
    /\ loop' = "idle" /\ dispatching' = FALSE
    /\ cur' = None /\ owned' = FALSE
    /\ UNCHANGED <<shared, state, timer, active, outcome>>
    /\ UNCHANGED <<free_pending, pool, workers, start_failed>>

(* The done callback returns: work_free() of what detach() gave. The event  *)
(* loop goes on where finish() was called.                                  *)
CallbackReturn ==
    /\ loop = "callback"
    /\ pool # "destroying"
    /\ frees' = IF owned THEN [frees EXCEPT ![cur] = @ + 1] ELSE frees
    /\ loop' = IF dispatching THEN "drain" ELSE "idle"
    /\ cur' = None /\ owned' = FALSE
    /\ UNCHANGED <<shared, state, timer, active, outcome>>
    /\ UNCHANGED <<dispatching, free_pending, pool, workers, start_failed>>

-----------------------------------------------------------------------------

Worker(t) ==
    \/ WorkerLock(t) \/ WorkerWait(t) \/ WorkerWakeup(t) \/ WorkerPop(t)
    \/ WorkerEnd(t) \/ WorkerDropped(t) \/ WorkerFree(t) \/ WorkerExit(t)

Api ==
    \/ \E w \in Works, timed \in BOOLEAN :
        SubmitStart(w, timed) \/ SubmitNoStart(w, timed)
    \/ \E w \in Works : SubmitReject(w) \/ Cancel(w)
    \/ PoolFreeLater \/ PoolFree

Dispatch ==
    \/ OnDone \/ DrainFinish \/ DrainEnd
    \/ \E w \in Works : OnTimeout(w)
    \/ TimeoutFinish \/ CallbackReturn
    \/ \E w \in Works : DestroyWork(w)
    \/ DestroyClose

Next ==
    \/ \E t \in Threads : Worker(t) \/ SpuriousWakeup(t)
    \/ Api
    \/ Dispatch

Spec == Init /\ [][Next]_vars

(* The mutex is not starved and sd-event dispatches what is pending: every  *)
(* lock acquisition that is possible again and again happens, and a timer   *)
(* that is armed expires. Whether fn returns is a separate assumption.      *)
FnReturns(t) == WorkerEnd(t) \/ WorkerDropped(t)

WorkerRuns(t) ==
    \/ WorkerLock(t) \/ WorkerWait(t) \/ WorkerWakeup(t) \/ WorkerPop(t)
    \/ WorkerFree(t) \/ WorkerExit(t)

LoopFairness ==
    /\ SF_vars(Dispatch)
    /\ \A t \in Threads : SF_vars(WorkerRuns(t))

FunctionsReturn == \A t \in Threads : SF_vars(FnReturns(t))

(* A function may block forever (a dead DNS server). *)
FairSpec == Spec /\ LoopFairness

-----------------------------------------------------------------------------

(* Properties *)

Alive == {t \in Threads : thread[t] \notin {"none", "exit"}}
Idle == {t \in Threads : thread[t] \in {"wait", "woken"}}
Takers == {t \in Threads : thread[t] \in {"start", "top", "woken"}}
On(w, s) == \E i \in DOMAIN s : s[i] = w

(* A work is freed once, and when it is, nobody can reach it any more: no   *)
(* list, no armed timer, no worker, no handler of the event loop that still *)
(* uses the structure (work_free() has five callers in two threads).        *)
FreedOnceUnreachable ==
    \A w \in Works :
        /\ frees[w] <= 1
        /\ frees[w] = 1 =>
            /\ w \notin active /\ ~timer[w]
            /\ ~On(w, queued) /\ ~On(w, done)
            /\ \A t \in Threads : job[t] # w
            /\ ~(loop = "timeout" /\ cur = w)
            /\ ~(loop = "callback" /\ owned /\ cur = w)

(* A callback that is told that its work ended reads data that no worker    *)
(* uses, and that nobody has freed.                                         *)
EndedCallbackExclusive ==
    loop = "callback" /\ outcome[cur] = "ended" =>
        /\ frees[cur] = 0
        /\ \A t \in Threads : job[t] # cur

(* A worker that still runs a timed out work frees the data when it is done *)
(* ("read only the fields of @data that the work does not write", work.h):  *)
(* the callback may read data until it returns.                             *)
CallbackDataAlive == loop = "callback" => frees[cur] = 0

(* The counters that start_worker(), the idle test and the release of the   *)
(* shared state depend on agree with the lists and the threads. With refs,  *)
(* no thread and no pool uses the shared state after its last user freed it.*)
CountersExact ==
    /\ nr_queued = Len(queued)
    /\ nr_idle = Cardinality(Idle)
    /\ nr_workers = Cardinality({t \in Threads : thread[t] # "none"})
    /\ refs = Cardinality(Alive) + (IF pool = "gone" THEN 0 ELSE 1)

(* At most max_workers works run at the same time. *)
WorkersBounded == Cardinality({t \in Threads : job[t] # None}) <= MaxWorkers

(* Unless every worker that the pool may have exists, or one could not be   *)
(* created, there is a worker on its way for every queued work: the test in *)
(* dmn_work_submit() counts a worker that was woken up and has not run yet  *)
(* as idle, and another worker can take the work it was woken up for.       *)
WorkConserving ==
    nr_workers < MaxWorkers /\ ~start_failed =>
        Len(queued) <= Cardinality(Takers \cup Waiting)

(* No wakeup is lost: no worker sleeps on the condition while there are     *)
(* more works queued than awake workers that will look at the queue.        *)
NoLostSignal == Waiting # {} => Len(queued) <= Cardinality(Takers)

(* No end is lost: while works wait for their report, the event loop is     *)
(* draining or the eventfd is readable.                                     *)
NoLostEnd == done # <<>> /\ pool = "open" => fd \/ dispatching

(* The pool implements the contract of work.h. *)
Contract == INSTANCE WorkContract WITH
    pending <- active,
    freed <- {w \in Works : frees[w] > 0},
    open <- pool = "open" /\ ~free_pending

RefinesContract == Contract!Spec

(* If functions return, the data of every submitted work is freed in the    *)
(* end, whatever happened to it.                                            *)
DataReclaimed ==
    FunctionsReturn => \A w \in Works : state[w] # "new" ~> frees[w] = 1

(* If functions return, the shared state is freed after the pool. *)
SharedReclaimed ==
    FunctionsReturn => (free_pending \/ pool # "open" ~> refs = 0)

(* Even if functions block forever, a work with a timeout leaves the pool.  *)
TimeoutHonoured == \A w \in Works : timer[w] ~> w \notin active

(* Even if functions block forever, freeing the pool ends. *)
PoolFreeEnds == free_pending \/ pool = "destroying" ~> pool = "gone"
=============================================================================
