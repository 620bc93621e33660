--------------------------- MODULE WorkPoolProofs ---------------------------
(***************************************************************************)
(* Proofs about the worker pool, for any number of works, of threads and    *)
(* of workers: who owns a work at every moment, that it is freed once, that *)
(* the counters are exact, that there are workers for what is queued, and   *)
(* that the pool implements WorkContract.                                   *)
(***************************************************************************)
EXTENDS WorkPool, SequenceTheorems, FiniteSetTheorems, TLAPS

(* No work is on the list s twice. *)
Distinct(s) == \A i, j \in DOMAIN s : s[i] = s[j] => i = j

(* The two lists hold exactly the active works of the matching state. *)
ListInv ==
    /\ Distinct(queued) /\ Distinct(done)
    /\ \A w \in Works :
        /\ On(w, queued) <=> w \in active /\ state[w] = "queued"
        /\ On(w, done) <=> w \in active /\ state[w] = "done"

(* A worker has a job while it runs or frees it, and nobody else has it.    *)
ThreadInv ==
    /\ \A t \in Threads :
        /\ job[t] # None <=> thread[t] \in {"run", "drop"}
        /\ thread[t] = "run" => state[job[t]] \in {"running", "dropped"}
        /\ thread[t] = "drop" => state[job[t]] = "dropped"
    /\ \A t, u \in Threads : job[t] = job[u] /\ job[t] # None => t = u

(* Where the event loop is, against the life of the pool. *)
LoopInv ==
    /\ dispatching => loop \in {"drain", "callback"} /\ pool = "open"
    /\ free_pending => dispatching \/ pool # "open"
    /\ loop = "drain" => dispatching
    /\ loop = "timeout" => pool = "open" /\ ~dispatching
    /\ closing <=> pool = "gone"
    /\ pool = "gone" => active = {}

(* What the state of a work says about who may free it. *)
OwnerInv ==
    /\ \A w \in Works :
        /\ w \in active => state[w] \in {"queued", "running", "done"}
        /\ w \in active => frees[w] = 0 /\ outcome[w] = "none"
        /\ timer[w] => w \in active
        /\ state[w] = "running" => w \in active
        /\ state[w] = "new" => frees[w] = 0 /\ outcome[w] = "none"
        /\ frees[w] <= 1
        /\ frees[w] # 0 => outcome[w] # "none"
        /\ state[w] # "new" /\ w \notin active => outcome[w] # "none"
    /\ \A t \in Threads : job[t] # None => frees[job[t]] = 0
    /\ owned => loop = "callback"
    /\ loop = "timeout" => cur \in active
    /\ loop = "callback" => /\ cur \in Works
                            /\ cur \notin active
                            /\ state[cur] \in {"queued", "done", "dropped"}
                            /\ outcome[cur] \in {"ended", "timed_out"}
                            /\ outcome[cur] = "ended" => owned
    /\ owned => frees[cur] = 0 /\ state[cur] \in {"queued", "done"}

EndInv == done # <<>> /\ pool = "open" => fd \/ dispatching

IInv ==
    /\ TypeOK /\ ListInv /\ ThreadInv /\ LoopInv /\ OwnerInv
    /\ EndInv /\ CountersExact /\ nr_workers <= MaxWorkers

-----------------------------------------------------------------------------

(* Lists *)

(* Appending a work that is not on a list of distinct works. *)
LEMMA AppendList ==
    ASSUME NEW S, NEW s \in Seq(S), NEW x \in S, Distinct(s), ~On(x, s)
    PROVE  /\ Append(s, x) \in Seq(S)
           /\ Len(Append(s, x)) = Len(s) + 1
           /\ Append(s, x) # <<>>
           /\ Distinct(Append(s, x))
           /\ \A y : On(y, Append(s, x)) <=> On(y, s) \/ y = x
  BY AppendProperties, LenProperties DEF Distinct, On

(* Taking the first work off a list of distinct works. *)
LEMMA PopList ==
    ASSUME NEW S, NEW s \in Seq(S), s # <<>>, Distinct(s)
    PROVE  /\ Tail(s) \in Seq(S)
           /\ Len(Tail(s)) = Len(s) - 1
           /\ Head(s) \in S
           /\ On(Head(s), s)
           /\ Distinct(Tail(s))
           /\ \A y : On(y, Tail(s)) <=> On(y, s) /\ y # Head(s)
  <1>1. /\ Tail(s) \in Seq(S) /\ Len(Tail(s)) = Len(s) - 1 /\ Head(s) \in S
        /\ \A i \in 1..Len(Tail(s)) : Tail(s)[i] = s[i + 1]
    BY HeadTailProperties
  <1>2. DOMAIN s = 1..Len(s) /\ DOMAIN Tail(s) = 1..(Len(s) - 1)
        /\ Len(s) \in Nat \ {0} /\ Head(s) = s[1]
    BY <1>1, LenProperties, EmptySeq
  <1>3. On(Head(s), s)
    BY <1>2 DEF On
  <1>4. Distinct(Tail(s))
    BY <1>1, <1>2 DEF Distinct
  <1>5. ASSUME NEW y PROVE On(y, Tail(s)) <=> On(y, s) /\ y # Head(s)
    <2>1. ASSUME On(y, Tail(s)) PROVE On(y, s) /\ y # Head(s)
      BY <1>1, <1>2, <2>1 DEF On, Distinct
    <2>2. ASSUME On(y, s), y # Head(s) PROVE On(y, Tail(s))
      <3>1. PICK i \in 1..Len(s) : s[i] = y
        BY <2>2, <1>2 DEF On
      <3>2. i - 1 \in 1..(Len(s) - 1) /\ (i - 1) + 1 = i
        BY <3>1, <2>2, <1>2
      <3>3. Tail(s)[i - 1] = y
        BY <3>1, <3>2, <1>1
      <3> QED  BY <3>2, <3>3, <1>2 DEF On
    <2> QED  BY <2>1, <2>2
  <1> QED  BY <1>1, <1>3, <1>4, <1>5

(* What RemoveAt() returns, element by element. *)
LEMMA RemoveAtElements ==
    ASSUME NEW S, NEW s \in Seq(S), NEW i \in 1..Len(s)
    PROVE  /\ RemoveAt(s, i) \in Seq(S)
           /\ Len(RemoveAt(s, i)) = Len(s) - 1
           /\ \A j \in 1..(Len(s) - 1) :
                RemoveAt(s, i)[j] = IF j < i THEN s[j] ELSE s[j + 1]
  <1> DEFINE a == SubSeq(s, 1, i - 1)
             b == SubSeq(s, i + 1, Len(s))
  <1>1. Len(s) \in Nat /\ \A j \in 1..Len(s) : s[j] \in S
    BY LenProperties, ElementOfSeq
  <1>2. /\ a \in Seq(S) /\ Len(a) = i - 1
        /\ \A j \in 1..(i - 1) : a[j] = s[j]
    <2>1. \A j \in 1..(i - 1) : s[j] \in S
      BY <1>1
    <2>2. /\ a \in Seq(S)
          /\ Len(a) = IF 1 <= i - 1 THEN (i - 1) - 1 + 1 ELSE 0
          /\ \A j \in 1..((i - 1) - 1 + 1) : a[j] = s[1 + j - 1]
      BY <2>1, SubSeqProperties
    <2>3. \A j \in 1..(i - 1) : 1 + j - 1 = j
      BY <1>1
    <2> QED  BY <2>2, <2>3, <1>1
  <1>3. /\ b \in Seq(S) /\ Len(b) = Len(s) - i
        /\ \A j \in 1..(Len(s) - i) : b[j] = s[i + j]
    <2>1. \A j \in (i + 1)..Len(s) : s[j] \in S
      BY <1>1
    <2>2. /\ b \in Seq(S)
          /\ Len(b) = IF i + 1 <= Len(s) THEN Len(s) - (i + 1) + 1 ELSE 0
          /\ \A j \in 1..(Len(s) - (i + 1) + 1) : b[j] = s[(i + 1) + j - 1]
      BY <2>1, <1>1, SubSeqProperties
    <2>3. \A j \in 1..(Len(s) - i) : (i + 1) + j - 1 = i + j
      BY <1>1
    <2> QED  BY <2>2, <2>3, <1>1
  <1>4. RemoveAt(s, i) = a \o b
    BY DEF RemoveAt
  <1> HIDE DEF a, b
  <1>5. /\ a \o b \in Seq(S) /\ Len(a \o b) = Len(s) - 1
        /\ \A j \in 1..(Len(s) - 1) :
                (a \o b)[j] = IF j <= i - 1 THEN a[j] ELSE b[j - (i - 1)]
    <2>1. /\ a \o b \in Seq(S) /\ Len(a \o b) = Len(a) + Len(b)
          /\ \A j \in 1..(Len(a) + Len(b)) :
                (a \o b)[j] = IF j <= Len(a) THEN a[j] ELSE b[j - Len(a)]
      BY <1>2, <1>3, ConcatProperties
    <2> QED  BY <2>1, <1>1, <1>2, <1>3
  <1>6. ASSUME NEW j \in 1..(Len(s) - 1)
        PROVE  (a \o b)[j] = IF j < i THEN s[j] ELSE s[j + 1]
    <2>1. CASE j < i
      BY <2>1, <1>1, <1>2, <1>5
    <2>2. CASE ~(j < i)
      <3>1. j - (i - 1) \in 1..(Len(s) - i) /\ i + (j - (i - 1)) = j + 1
        BY <2>2, <1>1
      <3>2. b[j - (i - 1)] = s[j + 1]
        BY <3>1, <1>3
      <3>3. (a \o b)[j] = b[j - (i - 1)]
        BY <2>2, <1>1, <1>5
      <3> QED  BY <3>2, <3>3, <2>2
    <2> QED  BY <2>1, <2>2
  <1> QED  BY <1>5, <1>6, <1>4

(* Taking a work off a list of distinct works, wherever it is. *)
LEMMA ListDelWorks ==
    ASSUME NEW S, NEW s \in Seq(S), NEW w, Distinct(s)
    PROVE  /\ ListDel(s, w) \in Seq(S)
           /\ Len(ListDel(s, w)) = IF On(w, s) THEN Len(s) - 1 ELSE Len(s)
           /\ ~On(w, s) => ListDel(s, w) = s
           /\ Distinct(ListDel(s, w))
           /\ \A y : On(y, ListDel(s, w)) <=> On(y, s) /\ y # w
  <1>1. DOMAIN s = 1..Len(s) /\ Len(s) \in Nat
    BY LenProperties
  <1>2. CASE ~On(w, s)
    BY <1>2 DEF ListDel, On
  <1>3. CASE On(w, s)
    <2> DEFINE i == CHOOSE k \in DOMAIN s : s[k] = w
               r == RemoveAt(s, i)
    <2>1. i \in 1..Len(s) /\ s[i] = w
      BY <1>1, <1>3 DEF On
    <2>2. ListDel(s, w) = r
      BY <1>3 DEF ListDel, On
    <2> HIDE DEF i
    <2>3. /\ r \in Seq(S) /\ Len(r) = Len(s) - 1
          /\ \A j \in 1..(Len(s) - 1) : r[j] = IF j < i THEN s[j] ELSE s[j + 1]
      BY <2>1, RemoveAtElements
    <2>4. DOMAIN r = 1..(Len(s) - 1)
      BY <2>3, LenProperties
    <2> HIDE DEF r
    <2>5. Distinct(r)
      <3> SUFFICES ASSUME NEW j \in DOMAIN r, NEW k \in DOMAIN r, r[j] = r[k]
                   PROVE  j = k
        BY DEF Distinct
      <3> DEFINE up(m) == IF m < i THEN m ELSE m + 1
      <3>1. /\ up(j) \in 1..Len(s) /\ up(k) \in 1..Len(s)
            /\ r[j] = s[up(j)] /\ r[k] = s[up(k)]
        BY <2>1, <2>3, <2>4, <1>1
      <3>2. up(j) = up(k)
        BY <3>1, <1>1 DEF Distinct
      <3> QED  BY <3>2, <2>1, <2>4, <1>1
    <2>6. ASSUME NEW y, On(y, r) PROVE On(y, s) /\ y # w
      <3>1. PICK j \in 1..(Len(s) - 1) : r[j] = y
        BY <2>6, <2>4 DEF On
      <3>2. CASE j < i
        BY <3>1, <3>2, <2>1, <2>3, <1>1 DEF On, Distinct
      <3>3. CASE ~(j < i)
        <4>1. j + 1 \in 1..Len(s) /\ j + 1 # i /\ y = s[j + 1]
          BY <3>1, <3>3, <2>1, <2>3, <1>1
        <4> QED  BY <4>1, <2>1, <1>1 DEF On, Distinct
      <3> QED  BY <3>2, <3>3
    <2>7. ASSUME NEW y, On(y, s), y # w PROVE On(y, r)
      <3>1. PICK j \in 1..Len(s) : s[j] = y
        BY <2>7, <1>1 DEF On
      <3>2. j # i
        BY <3>1, <2>1, <2>7
      <3>3. CASE j < i
        <4>1. j \in 1..(Len(s) - 1) /\ r[j] = y
          BY <3>1, <3>3, <2>1, <2>3, <1>1
        <4> QED  BY <4>1, <2>4 DEF On
      <3>4. CASE ~(j < i)
        <4>1. j - 1 \in 1..(Len(s) - 1) /\ ~(j - 1 < i) /\ (j - 1) + 1 = j
          BY <3>2, <3>4, <2>1, <1>1
        <4>2. r[j - 1] = y
          BY <4>1, <3>1, <2>3
        <4> QED  BY <4>1, <4>2, <2>4 DEF On
      <3> QED  BY <3>3, <3>4
    <2> QED  BY <1>3, <2>2, <2>3, <2>5, <2>6, <2>7
  <1> QED  BY <1>2, <1>3

(* An empty list has no work on it, and any other has. *)
LEMMA EmptyList ==
    ASSUME NEW S, NEW s \in Seq(S)
    PROVE  s = <<>> <=> \A y : ~On(y, s)
  <1>1. DOMAIN s = 1..Len(s) /\ Len(s) \in Nat
    BY LenProperties
  <1>2. ASSUME s # <<>> PROVE On(s[1], s)
    BY <1>1, <1>2, EmptySeq DEF On
  <1>3. ASSUME s = <<>> PROVE \A y : ~On(y, s)
    BY <1>1, <1>3 DEF On
  <1> QED  BY <1>2, <1>3

-----------------------------------------------------------------------------

(* Counting threads *)

(* The number of threads whose state, in th, is one of Q. *)
Count(th, Q) == Cardinality({u \in Threads : th[u] \in Q})

(* How moving one thread to another state changes the number of threads     *)
(* whose state is in Q.                                                     *)
LEMMA CountStep ==
    ASSUME NEW Q, NEW th, NEW th2, NEW t \in Threads, NEW v,
           \A u \in Threads : th2[u] = IF u = t THEN v ELSE th[u]
    PROVE  /\ Count(th, Q) \in Nat
           /\ Count(th2, Q) = Count(th, Q) + (IF v \in Q THEN 1 ELSE 0)
                                           - (IF th[t] \in Q THEN 1 ELSE 0)
  <1> DEFINE A == {u \in Threads : th[u] \in Q}
             B == {u \in Threads : th2[u] \in Q}
  <1>1. IsFiniteSet(A) /\ Cardinality(A) \in Nat
    BY ThreadsAssumption, FS_Subset, FS_CardinalityType
  <1>2. B = IF v \in Q THEN A \cup {t} ELSE A \ {t}
    OBVIOUS
  <1>3. t \in A <=> th[t] \in Q
    OBVIOUS
  <1>4. /\ Cardinality(A \cup {t}) =
            IF t \in A THEN Cardinality(A) ELSE Cardinality(A) + 1
        /\ Cardinality(A \ {t}) =
            IF t \in A THEN Cardinality(A) - 1 ELSE Cardinality(A)
    BY <1>1, FS_AddElement, FS_RemoveElement
  <1>5. Count(th, Q) = Cardinality(A) /\ Count(th2, Q) = Cardinality(B)
    BY DEF Count
  <1> HIDE DEF A, B
  <1> QED  BY <1>1, <1>2, <1>3, <1>4, <1>5

-----------------------------------------------------------------------------

(* The steps of the inductive invariant *)

(* detach() of an active work leaves the lists in order, whatever state the *)
(* work is in.                                                              *)
LEMMA DetachLists ==
    ASSUME TypeOK, ListInv, OwnerInv, nr_queued = Len(queued),
           NEW w \in active, Detach(w)
    PROVE  /\ queued' \in Seq(Works) /\ done' \in Seq(Works)
           /\ Distinct(queued') /\ Distinct(done')
           /\ nr_queued' = Len(queued')
           /\ \A x : On(x, queued') <=> On(x, queued) /\ x # w
           /\ \A x : On(x, done') <=> On(x, done) /\ x # w
           /\ (done = <<>> => done' = <<>>)
  <1>1. w \in Works /\ queued \in Seq(Works) /\ done \in Seq(Works)
    BY DEF TypeOK
  <1>2. CASE state[w] = "running"
    <2>1. queued' = queued /\ done' = done /\ nr_queued' = nr_queued
      BY <1>2 DEF Detach
    <2>2. ~On(w, queued) /\ ~On(w, done)
      BY <1>1, <1>2 DEF ListInv
    <2> QED  BY <1>1, <2>1, <2>2 DEF ListInv
  <1>3. CASE state[w] # "running"
    <2>1. queued' = ListDel(queued, w) /\ done' = ListDel(done, w)
          /\ nr_queued' = QueuedAfterDetach(w)
      BY <1>3 DEF Detach
    <2>2. On(w, queued) <=> state[w] = "queued"
      BY <1>1 DEF ListInv
    <2>3. Len(queued) \in Nat
      BY <1>1, LenProperties
    <2>4. Distinct(queued) /\ Distinct(done)
      BY DEF ListInv
    <2>5. /\ queued' \in Seq(Works) /\ Distinct(queued')
          /\ Len(queued') = IF On(w, queued) THEN Len(queued) - 1
                                             ELSE Len(queued)
          /\ \A x : On(x, queued') <=> On(x, queued) /\ x # w
      BY <1>1, <2>1, <2>4, ListDelWorks
    <2>6. /\ done' \in Seq(Works) /\ Distinct(done')
          /\ \A x : On(x, done') <=> On(x, done) /\ x # w
      BY <1>1, <2>1, <2>4, ListDelWorks
    <2>7. done = <<>> => done' = <<>>
      <3>1. done = <<>> => \A x : ~On(x, done')
        BY <1>1, <2>6, EmptyList
      <3> QED  BY <2>6, <3>1, EmptyList
    <2>8. nr_queued' = Len(queued')
      BY <2>1, <2>2, <2>3, <2>5 DEF QueuedAfterDetach
    <2> QED  BY <2>5, <2>6, <2>7, <2>8
  <1> QED  BY <1>2, <1>3

(* The lists, the states and p->active change together, in six ways. *)
LEMMA ListCases ==
    ASSUME IInv, [Next]_vars
    PROVE  \/ \E t \in Threads : WorkerPop(t) \/ WorkerEnd(t)
           \/ \E w \in Works, timed \in BOOLEAN :
                Enqueue(w, timed) /\ state[w] = "new"
           \/ \E w \in active : Detach(w)
           \/ UNCHANGED <<queued, done, nr_queued, active, state>>
  <1> USE DEF shared, works
  <1>1. ASSUME NEW t \in Threads, Worker(t) \/ SpuriousWakeup(t)
        PROVE  \/ WorkerPop(t) \/ WorkerEnd(t)
               \/ UNCHANGED <<queued, done, nr_queued, active, state>>
    BY <1>1 DEF Worker, SpuriousWakeup, WorkerLock, WorkerWait, WorkerWakeup,
                WorkerDropped, WorkerFree, WorkerExit
  <1>2. ASSUME Api
        PROVE  \/ \E w \in Works, timed \in BOOLEAN :
                    Enqueue(w, timed) /\ state[w] = "new"
               \/ \E w \in active : Detach(w)
               \/ UNCHANGED <<queued, done, nr_queued, active, state>>
    BY <1>2 DEF Api, SubmitStart, SubmitNoStart, SubmitReject, Cancel,
                DetachAndFree, PoolFreeLater, PoolFree, vars
  <1>3. ASSUME Dispatch
        PROVE  \/ \E w \in active : Detach(w)
               \/ UNCHANGED <<queued, done, nr_queued, active, state>>
    <2>1. ASSUME DrainFinish PROVE \E w \in active : Detach(w)
      <3>1. Head(done) \in Works /\ On(Head(done), done)
        BY <2>1, PopList DEF DrainFinish, IInv, TypeOK, ListInv
      <3>2. Head(done) \in active
        BY <3>1 DEF IInv, ListInv
      <3> QED  BY <2>1, <3>2 DEF DrainFinish, Finish
    <2>2. ASSUME TimeoutFinish PROVE \E w \in active : Detach(w)
      BY <2>2 DEF TimeoutFinish, Finish, IInv, OwnerInv
    <2>3. ASSUME NEW w \in Works, OnTimeout(w) \/ DestroyWork(w)
          PROVE  \/ \E x \in active : Detach(x)
                 \/ UNCHANGED <<queued, done, nr_queued, active, state>>
      BY <2>3 DEF OnTimeout, DestroyWork, DetachAndFree
    <2>4. ASSUME OnDone \/ DrainEnd \/ CallbackReturn \/ DestroyClose
          PROVE  UNCHANGED <<queued, done, nr_queued, active, state>>
      BY <2>4 DEF OnDone, DrainEnd, CallbackReturn, DestroyClose
    <2> QED  BY <1>3, <2>1, <2>2, <2>3, <2>4 DEF Dispatch
  <1>4. ASSUME UNCHANGED vars
        PROVE  UNCHANGED <<queued, done, nr_queued, active, state>>
    BY <1>4 DEF vars
  <1> QED  BY <1>1, <1>2, <1>3, <1>4 DEF Next

(* The lists stay lists of distinct works that agree with the states, and   *)
(* s->nr_queued stays the length of the queue.                              *)
LEMMA ListStep ==
    ASSUME IInv, [Next]_vars
    PROVE  /\ queued' \in Seq(Works) /\ done' \in Seq(Works)
           /\ state' \in [Works -> WorkStates] /\ active' \in SUBSET Works
           /\ ListInv' /\ nr_queued' = Len(queued')
  <1> USE DEF WorkStates
  <1>1. /\ queued \in Seq(Works) /\ done \in Seq(Works)
        /\ state \in [Works -> WorkStates] /\ active \in SUBSET Works
        /\ Distinct(queued) /\ Distinct(done) /\ nr_queued = Len(queued)
        /\ Len(queued) \in Nat
    BY LenProperties DEF IInv, TypeOK, ListInv, CountersExact
  <1>2. ASSUME NEW t \in Threads, WorkerPop(t)
        PROVE  /\ queued' \in Seq(Works) /\ done' \in Seq(Works)
               /\ state' \in [Works -> WorkStates] /\ active' \in SUBSET Works
               /\ ListInv' /\ nr_queued' = Len(queued')
    <2>1. /\ queued' = Tail(queued) /\ done' = done /\ active' = active
          /\ state' = [state EXCEPT ![Head(queued)] = "running"]
          /\ nr_queued' = nr_queued - 1 /\ queued # <<>>
      BY <1>2 DEF WorkerPop
    <2>2. /\ Tail(queued) \in Seq(Works) /\ Len(Tail(queued)) = Len(queued) - 1
          /\ Head(queued) \in Works /\ On(Head(queued), queued)
          /\ Distinct(Tail(queued))
          /\ \A y : On(y, Tail(queued)) <=> On(y, queued) /\ y # Head(queued)
      BY <1>1, <2>1, PopList
    <2>3. state[Head(queued)] = "queued"
      BY <2>2 DEF IInv, ListInv
    <2> QED  BY <1>1, <2>1, <2>2, <2>3 DEF IInv, ListInv
  <1>3. ASSUME NEW t \in Threads, WorkerEnd(t)
        PROVE  /\ queued' \in Seq(Works) /\ done' \in Seq(Works)
               /\ state' \in [Works -> WorkStates] /\ active' \in SUBSET Works
               /\ ListInv' /\ nr_queued' = Len(queued')
    <2> DEFINE w == job[t]
    <2>1. /\ queued' = queued /\ done' = Append(done, w) /\ active' = active
          /\ state' = [state EXCEPT ![w] = "done"]
          /\ nr_queued' = nr_queued
      BY <1>3 DEF WorkerEnd
    <2>2. w \in Works /\ w \in active /\ state[w] = "running"
      BY <1>3 DEF WorkerEnd, IInv, TypeOK, ThreadInv, OwnerInv
    <2> HIDE DEF w
    <2>3. ~On(w, done) /\ ~On(w, queued)
      BY <2>2 DEF IInv, ListInv
    <2>4. /\ Append(done, w) \in Seq(Works) /\ Distinct(Append(done, w))
          /\ \A y : On(y, Append(done, w)) <=> On(y, done) \/ y = w
      BY <1>1, <2>2, <2>3, AppendList
    <2> QED  BY <1>1, <2>1, <2>2, <2>3, <2>4 DEF IInv, ListInv
  <1>4. ASSUME NEW w \in Works, NEW timed \in BOOLEAN,
               Enqueue(w, timed), state[w] = "new"
        PROVE  /\ queued' \in Seq(Works) /\ done' \in Seq(Works)
               /\ state' \in [Works -> WorkStates] /\ active' \in SUBSET Works
               /\ ListInv' /\ nr_queued' = Len(queued')
    <2>1. /\ queued' = Append(queued, w) /\ done' = done
          /\ active' = active \cup {w}
          /\ state' = [state EXCEPT ![w] = "queued"]
          /\ nr_queued' = nr_queued + 1
      BY <1>4 DEF Enqueue
    <2>2. ~On(w, done) /\ ~On(w, queued)
      BY <1>4 DEF IInv, ListInv
    <2>3. /\ Append(queued, w) \in Seq(Works) /\ Distinct(Append(queued, w))
          /\ Len(Append(queued, w)) = Len(queued) + 1
          /\ \A y : On(y, Append(queued, w)) <=> On(y, queued) \/ y = w
      BY <1>1, <2>2, AppendList
    <2> QED  BY <1>1, <2>1, <2>2, <2>3 DEF IInv, ListInv
  <1>5. ASSUME NEW w \in active, Detach(w)
        PROVE  /\ queued' \in Seq(Works) /\ done' \in Seq(Works)
               /\ state' \in [Works -> WorkStates] /\ active' \in SUBSET Works
               /\ ListInv' /\ nr_queued' = Len(queued')
    <2>1. /\ queued' \in Seq(Works) /\ done' \in Seq(Works)
          /\ Distinct(queued') /\ Distinct(done')
          /\ nr_queued' = Len(queued')
          /\ \A x : On(x, queued') <=> On(x, queued) /\ x # w
          /\ \A x : On(x, done') <=> On(x, done) /\ x # w
      BY <1>1, <1>5, DetachLists DEF IInv
    <2>2. /\ active' = active \ {w}
          /\ state' = IF state[w] = "running"
                      THEN [state EXCEPT ![w] = "dropped"] ELSE state
      BY <1>5 DEF Detach
    <2> QED  BY <1>1, <2>1, <2>2 DEF IInv, ListInv
  <1>6. ASSUME UNCHANGED <<queued, done, nr_queued, active, state>>
        PROVE  /\ queued' \in Seq(Works) /\ done' \in Seq(Works)
               /\ state' \in [Works -> WorkStates] /\ active' \in SUBSET Works
               /\ ListInv' /\ nr_queued' = Len(queued')
    BY <1>1, <1>6 DEF IInv, ListInv
  <1> QED  BY <1>2, <1>3, <1>4, <1>5, <1>6, ListCases

(* pthread_cond_signal() changes no thread but a waiting one. *)
LEMMA SignalThreads ==
    ASSUME NEW th \in [Threads -> ThreadStates], Signal(th)
    PROVE  /\ thread' \in [Threads -> ThreadStates]
           /\ \/ thread' = th
              \/ \E t \in Threads : /\ th[t] = "wait"
                                    /\ thread' = [th EXCEPT ![t] = "woken"]
  BY DEF Signal, ThreadStates

(* A worker keeps a job of its own from the pop to the end of the work,     *)
(* also when the event loop drops the work meanwhile.                       *)
LEMMA ThreadStep ==
    ASSUME IInv, [Next]_vars
    PROVE  /\ thread' \in [Threads -> ThreadStates]
           /\ job' \in [Threads -> Works \cup {None}]
           /\ ThreadInv'
  <1> DEFINE Goal == /\ thread' \in [Threads -> ThreadStates]
                     /\ job' \in [Threads -> Works \cup {None}]
                     /\ ThreadInv'
  <1> SUFFICES Goal
    OBVIOUS
  <1>1. /\ thread \in [Threads -> ThreadStates]
        /\ job \in [Threads -> Works \cup {None}]
        /\ state \in [Works -> WorkStates]
        /\ ThreadInv
    BY DEF IInv, TypeOK
  <1>2. ASSUME NEW t \in Threads,
               WorkerLock(t) \/ WorkerWait(t) \/ WorkerWakeup(t)
               \/ WorkerExit(t) \/ SpuriousWakeup(t) \/ WorkerDropped(t)
        PROVE  Goal
    BY <1>1, <1>2 DEF WorkerLock, WorkerWait, WorkerWakeup, WorkerExit,
        SpuriousWakeup, WorkerDropped, ThreadInv, ThreadStates, works
  <1>3. ASSUME NEW t \in Threads, WorkerPop(t) PROVE Goal
    <2>1. /\ Head(queued) \in Works /\ On(Head(queued), queued)
      BY <1>3, PopList DEF WorkerPop, IInv, TypeOK, ListInv
    <2>2. state[Head(queued)] = "queued"
      BY <2>1 DEF IInv, ListInv
    <2>3. \A u \in Threads : job[u] # Head(queued)
      BY <1>1, <2>1, <2>2, NoneAssumption DEF ThreadInv
    <2> QED  BY <1>1, <1>3, <2>1, <2>2, <2>3, NoneAssumption
             DEF WorkerPop, ThreadInv, ThreadStates, WorkStates
  <1>4. ASSUME NEW t \in Threads, WorkerEnd(t) PROVE Goal
    BY <1>1, <1>4 DEF WorkerEnd, ThreadInv, ThreadStates, WorkStates
  <1>5. ASSUME NEW t \in Threads, WorkerFree(t) PROVE Goal
    BY <1>1, <1>5 DEF WorkerFree, ThreadInv, ThreadStates
  <1>6. ASSUME NEW w \in Works, NEW timed \in BOOLEAN,
               SubmitStart(w, timed) \/ SubmitNoStart(w, timed)
        PROVE  Goal
    <2>1. /\ state' = [state EXCEPT ![w] = "queued"] /\ job' = job
          /\ state[w] = "new"
      BY <1>6 DEF SubmitStart, SubmitNoStart, Enqueue
    <2>2. /\ thread' \in [Threads -> ThreadStates]
          /\ \A t \in Threads : thread'[t] \in {"run", "drop"}
                                <=> thread[t] \in {"run", "drop"}
          /\ \A t \in Threads : thread[t] \in {"run", "drop"}
                                => thread'[t] = thread[t]
      <3>1. CASE SubmitStart(w, timed)
        <4>1. PICK t \in Threads : /\ thread[t] = "none"
                                   /\ Signal([thread EXCEPT ![t] = "start"])
          BY <3>1 DEF SubmitStart
        <4>2. [thread EXCEPT ![t] = "start"] \in [Threads -> ThreadStates]
          BY <1>1 DEF ThreadStates
        <4> QED  BY <1>1, <4>1, <4>2, SignalThreads
      <3>2. CASE SubmitNoStart(w, timed)
        BY <1>1, <3>2, SignalThreads DEF SubmitNoStart
      <3> QED  BY <1>6, <3>1, <3>2
    <2>3. \A t \in Threads : job[t] # w
      BY <1>1, <2>1, NoneAssumption DEF ThreadInv
    <2> QED  BY <1>1, <2>1, <2>2, <2>3 DEF ThreadInv, WorkStates
  <1>7. ASSUME NEW w \in active, Detach(w), UNCHANGED workers PROVE Goal
    <2>1. w \in Works
      BY DEF IInv, TypeOK
    <2> QED  BY <1>1, <1>7, <2>1
             DEF Detach, workers, ThreadInv, ThreadStates, WorkStates
  <1>8. ASSUME DestroyClose PROVE Goal
    BY <1>1, <1>8 DEF DestroyClose, Broadcast, works, ThreadInv, ThreadStates
  <1>9. ASSUME UNCHANGED <<workers, state>> PROVE Goal
    BY <1>1, <1>9 DEF workers, ThreadInv
  <1>10. ASSUME NEW t \in Threads, Worker(t) PROVE Goal
    BY <1>2, <1>3, <1>4, <1>5, <1>10 DEF Worker
  <1>11. ASSUME Api PROVE Goal
    <2>1. ASSUME NEW w \in Works, Cancel(w) PROVE Goal
      BY <1>7, <2>1 DEF Cancel, DetachAndFree
    <2>2. ASSUME PoolFreeLater \/ PoolFree \/ \E w \in Works : SubmitReject(w)
          PROVE  Goal
      BY <1>9, <2>2 DEF PoolFreeLater, PoolFree, SubmitReject, vars, works
    <2> QED  BY <1>6, <1>11, <2>1, <2>2 DEF Api
  <1>12. ASSUME Dispatch PROVE Goal
    <2>1. ASSUME DrainFinish PROVE Goal
      <3>1. Head(done) \in Works /\ On(Head(done), done)
        BY <2>1, PopList DEF DrainFinish, IInv, TypeOK, ListInv
      <3>2. Head(done) \in active
        BY <3>1 DEF IInv, ListInv
      <3> QED  BY <1>7, <2>1, <3>2 DEF DrainFinish, Finish
    <2>2. ASSUME TimeoutFinish PROVE Goal
      BY <1>7, <2>2 DEF TimeoutFinish, Finish, IInv, OwnerInv
    <2>3. ASSUME NEW w \in Works, DestroyWork(w) PROVE Goal
      BY <1>7, <2>3 DEF DestroyWork, DetachAndFree
    <2>4. ASSUME \/ OnDone \/ DrainEnd \/ CallbackReturn
                 \/ \E w \in Works : OnTimeout(w)
          PROVE  Goal
      BY <1>9, <2>4 DEF OnDone, DrainEnd, CallbackReturn, OnTimeout, works
    <2> QED  BY <1>8, <1>12, <2>1, <2>2, <2>3, <2>4 DEF Dispatch
  <1>13. ASSUME UNCHANGED vars PROVE Goal
    BY <1>9, <1>13 DEF vars, works
  <1> HIDE DEF Goal
  <1> QED  BY <1>2, <1>10, <1>11, <1>12, <1>13 DEF Next

(* The types that the three lemmas on lists, threads and counters leave.    *)
TypeRest ==
    /\ closing \in BOOLEAN /\ fd \in BOOLEAN
    /\ timer \in [Works -> BOOLEAN]
    /\ dispatching \in BOOLEAN /\ free_pending \in BOOLEAN
    /\ pool \in {"open", "destroying", "gone"}
    /\ loop \in LoopStates /\ cur \in Works \cup {None} /\ owned \in BOOLEAN
    /\ frees \in [Works -> Nat]
    /\ outcome \in [Works -> {"none", "ended", "timed_out", "cancelled"}]
    /\ start_failed \in BOOLEAN

(* Every work has one owner that will free it, and the event loop is where  *)
(* the life of the pool allows it to be.                                    *)
LEMMA OwnerStep ==
    ASSUME IInv, [Next]_vars
    PROVE  TypeRest' /\ LoopInv' /\ OwnerInv' /\ EndInv'
  <1> DEFINE Goal == TypeRest' /\ LoopInv' /\ OwnerInv' /\ EndInv'
  <1> SUFFICES Goal
    OBVIOUS
  <1>1. /\ TypeRest /\ LoopInv /\ OwnerInv /\ EndInv /\ ThreadInv
        /\ thread \in [Threads -> ThreadStates]
        /\ job \in [Threads -> Works \cup {None}]
        /\ state \in [Works -> WorkStates]
        /\ active \in SUBSET Works
        /\ done \in Seq(Works)
    BY DEF IInv, TypeOK, TypeRest
  <1>a. \A t \in Threads : job[t] # None =>
            /\ job[t] \in Works /\ frees[job[t]] = 0
            /\ state[job[t]] \in {"running", "dropped"}
            /\ \A u \in Threads : u # t => job[u] # job[t]
    BY <1>1 DEF ThreadInv, OwnerInv
  <1>b. \A w \in active, t \in Threads :
            state[w] # "running" => job[t] # w
    BY <1>1, <1>a, NoneAssumption DEF OwnerInv
  <1> USE DEF TypeRest, LoopInv, OwnerInv, EndInv, LoopStates
  <1>2. ASSUME NEW t \in Threads,
               WorkerLock(t) \/ WorkerWait(t) \/ WorkerWakeup(t)
               \/ WorkerExit(t) \/ SpuriousWakeup(t) \/ WorkerDropped(t)
        PROVE  Goal
    BY <1>1, <1>2 DEF WorkerLock, WorkerWait, WorkerWakeup, WorkerExit,
        SpuriousWakeup, WorkerDropped, shared, works, ploop
  <1>3. ASSUME NEW t \in Threads, WorkerPop(t) PROVE Goal
    <2>1. /\ Head(queued) \in Works /\ On(Head(queued), queued)
      BY <1>3, PopList DEF WorkerPop, IInv, TypeOK, ListInv
    <2>2. state[Head(queued)] = "queued" /\ Head(queued) \in active
      BY <2>1 DEF IInv, ListInv
    <2> QED  BY <1>1, <1>3, <2>1, <2>2 DEF WorkerPop, WorkStates, ploop
  <1>4. ASSUME NEW t \in Threads, WorkerEnd(t) PROVE Goal
    <2>1. job[t] \in Works /\ job[t] \in active /\ state[job[t]] = "running"
      BY <1>1, <1>4 DEF WorkerEnd, ThreadInv
    <2> QED  BY <1>1, <1>4, <2>1 DEF WorkerEnd, WorkStates, ploop
  <1>5. ASSUME NEW t \in Threads, WorkerFree(t) PROVE Goal
    <2>1. job[t] # None /\ state[job[t]] = "dropped"
      BY <1>1, <1>5 DEF WorkerFree, ThreadInv
    <2>2. /\ job[t] \in Works /\ frees[job[t]] = 0
          /\ \A u \in Threads : u # t => job[u] # job[t]
      BY <1>a, <2>1
    <2>3. job[t] \notin active
      BY <1>1, <2>1, <2>2
    <2> QED  BY <1>1, <1>5, <2>1, <2>2, <2>3 DEF WorkerFree, shared, ploop
  <1>6. ASSUME NEW w \in Works, NEW timed \in BOOLEAN,
               SubmitStart(w, timed) \/ SubmitNoStart(w, timed)
        PROVE  Goal
    <2>1. /\ state' = [state EXCEPT ![w] = "queued"]
          /\ timer' = [timer EXCEPT ![w] = timed]
          /\ active' = active \cup {w}
          /\ UNCHANGED <<done, closing, fd, frees, outcome, ploop, job>>
          /\ start_failed' \in BOOLEAN
          /\ state[w] = "new" /\ pool = "open"
      BY <1>1, <1>6 DEF SubmitStart, SubmitNoStart, Enqueue, ApiAllowed
    <2> QED  BY <1>1, <2>1 DEF WorkStates, ploop
  <1>7. ASSUME NEW w \in active, DetachAndFree(w), pool # "gone",
               UNCHANGED <<ploop, workers, start_failed>>,
               loop \in {"idle", "callback"}
        PROVE  Goal
    <2>1. /\ w \in Works
          /\ active' = active \ {w}
          /\ timer' = [timer EXCEPT ![w] = FALSE]
          /\ state' = IF state[w] = "running"
                      THEN [state EXCEPT ![w] = "dropped"] ELSE state
          /\ frees' = IF state[w] # "running"
                      THEN [frees EXCEPT ![w] = @ + 1] ELSE frees
          /\ outcome' = [outcome EXCEPT ![w] = "cancelled"]
          /\ UNCHANGED <<closing, fd>>
      BY <1>1, <1>7 DEF DetachAndFree, Detach, DetachOwns
    <2>2. done = <<>> => done' = <<>>
      BY <1>7, DetachLists DEF IInv, CountersExact, DetachAndFree
    <2>3. UNCHANGED <<dispatching, free_pending, pool, loop, cur, owned,
                      thread, job, start_failed>>
      BY <1>7 DEF ploop, workers
    <2>4. \A t \in Threads : state[w] # "running" => job[t] # w
      BY <1>b
    <2> QED  BY <1>1, <1>7, <2>1, <2>2, <2>3, <2>4 DEF WorkStates
  <1>8. ASSUME NEW w \in active, NEW timed_out \in BOOLEAN,
               Finish(w, timed_out), loop \in {"drain", "timeout"},
               timed_out = FALSE => state[w] = "done"
        PROVE  Goal
    <2>1. /\ w \in Works
          /\ active' = active \ {w}
          /\ timer' = [timer EXCEPT ![w] = FALSE]
          /\ state' = IF state[w] = "running"
                      THEN [state EXCEPT ![w] = "dropped"] ELSE state
          /\ outcome' = [outcome EXCEPT ![w] =
                            IF timed_out THEN "timed_out" ELSE "ended"]
          /\ loop' = "callback" /\ cur' = w
          /\ owned' = (state[w] # "running")
          /\ UNCHANGED <<closing, fd, frees, dispatching, free_pending, pool,
                         thread, job, start_failed>>
      BY <1>1, <1>8 DEF Finish, Detach, DetachOwns, workers
    <2>2. done = <<>> => done' = <<>>
      BY <1>8, DetachLists DEF IInv, CountersExact, Finish
    <2>3. state[w] \in {"queued", "running", "done"} /\ frees[w] = 0
      BY <1>1, <2>1
    <2>4. timer' \in [Works -> BOOLEAN]
          /\ outcome' \in [Works -> {"none", "ended", "timed_out", "cancelled"}]
      BY <1>1, <2>1
    <2>5. TypeRest' /\ LoopInv' /\ EndInv'
      BY <1>1, <1>8, <2>1, <2>2, <2>4
    <2>6. OwnerInv'
      BY <1>1, <1>8, <2>1, <2>3 DEF WorkStates
    <2> QED  BY <2>5, <2>6
  <1>9. ASSUME UNCHANGED vars \/ \E w \in Works : SubmitReject(w) PROVE Goal
    BY <1>1, <1>9 DEF SubmitReject, vars, shared, works, ploop, workers
  <1>10. ASSUME PoolFreeLater \/ PoolFree PROVE Goal
    <2>1. CASE PoolFreeLater
      BY <1>1, <2>1 DEF PoolFreeLater, ApiAllowed, shared, works, workers
    <2>2. CASE PoolFree
      BY <1>1, <2>2 DEF PoolFree, ApiAllowed, shared, works, workers
    <2> QED  BY <1>10, <2>1, <2>2
  <1>11. ASSUME DestroyClose PROVE Goal
    BY <1>1, <1>11 DEF DestroyClose, works
  <1>12. ASSUME OnDone \/ DrainEnd PROVE Goal
    <2>1. CASE OnDone
      BY <1>1, <2>1 DEF OnDone, works, workers
    <2>2. CASE DrainEnd
      <3>1. TypeRest' /\ LoopInv' /\ EndInv'
        BY <1>1, <2>2 DEF DrainEnd, PoolAfterDrain, shared, works
      <3>2. OwnerInv'
        BY <1>1, <2>2 DEF DrainEnd, works, workers
      <3> QED  BY <3>1, <3>2
    <2> QED  BY <1>12, <2>1, <2>2
  <1>13. ASSUME NEW w \in Works, OnTimeout(w) PROVE Goal
    BY <1>1, <1>13 DEF OnTimeout, TimeoutIgnored, shared, workers
  <1>14. ASSUME CallbackReturn PROVE Goal
    <2>1. cur \in Works /\ (owned => \A t \in Threads : job[t] # cur)
      BY <1>1, <1>14, <1>a, NoneAssumption DEF CallbackReturn
    <2>2. frees' \in [Works -> Nat]
      BY <1>1, <1>14, <2>1 DEF CallbackReturn
    <2>3. TypeRest' /\ LoopInv' /\ EndInv'
      BY <1>1, <1>14, <2>2 DEF CallbackReturn, shared
    <2>4. OwnerInv'
      BY <1>1, <1>14, <2>1 DEF CallbackReturn, workers
    <2> QED  BY <2>3, <2>4
  <1>15. ASSUME DrainFinish PROVE Goal
    <2>1. Head(done) \in Works /\ On(Head(done), done)
      BY <1>15, PopList DEF DrainFinish, IInv, TypeOK, ListInv
    <2>2. Head(done) \in active /\ state[Head(done)] = "done"
      BY <2>1 DEF IInv, ListInv
    <2> QED  BY <1>8, <1>15, <2>2 DEF DrainFinish
  <1>16. ASSUME TimeoutFinish PROVE Goal
    BY <1>1, <1>8, <1>16 DEF TimeoutFinish
  <1>17. ASSUME NEW w \in Works, Cancel(w) \/ DestroyWork(w) PROVE Goal
    <2>1. loop \in {"idle", "callback"} /\ pool # "gone"
      BY <1>1, <1>17 DEF Cancel, DestroyWork, ApiAllowed
    <2> QED  BY <1>7, <1>17, <2>1 DEF Cancel, DestroyWork
  <1> HIDE DEF Goal
  <1> QED
    BY <1>2, <1>3, <1>4, <1>5, <1>6, <1>9, <1>10, <1>11, <1>12, <1>13, <1>14,
       <1>15, <1>16, <1>17 DEF Next, Worker, Api, Dispatch

IdleStates == {"wait", "woken"}
CreatedStates == ThreadStates \ {"none"}
AliveStates == ThreadStates \ {"none", "exit"}

(* CountersExact, but for the queue, of thread states th. *)
Counts(th, idle, nworkers, nrefs, p) ==
    /\ idle = Count(th, IdleStates)
    /\ nworkers = Count(th, CreatedStates)
    /\ nrefs = Count(th, AliveStates) + (IF p = "gone" THEN 0 ELSE 1)

LEMMA CountsIsExact ==
    ASSUME thread \in [Threads -> ThreadStates]
    PROVE  CountersExact <=> /\ nr_queued = Len(queued)
                             /\ Counts(thread, nr_idle, nr_workers, refs, pool)
  <1>1. /\ Idle = {u \in Threads : thread[u] \in IdleStates}
        /\ Alive = {u \in Threads : thread[u] \in AliveStates}
        /\ {t \in Threads : thread[t] # "none"} =
                {u \in Threads : thread[u] \in CreatedStates}
    BY DEF Idle, Alive, IdleStates, AliveStates, CreatedStates
  <1> QED  BY <1>1 DEF CountersExact, Counts, Count

(* One thread moves, the three counters follow. *)
LEMMA CountsStep ==
    ASSUME NEW th, NEW th2, NEW t \in Threads, NEW v,
           \A u \in Threads : th2[u] = IF u = t THEN v ELSE th[u],
           NEW i, NEW n, NEW r, NEW p, Counts(th, i, n, r, p)
    PROVE  /\ i \in Nat /\ n \in Nat /\ r \in Nat
           /\ Counts(th2,
                i + (IF v \in IdleStates THEN 1 ELSE 0)
                  - (IF th[t] \in IdleStates THEN 1 ELSE 0),
                n + (IF v \in CreatedStates THEN 1 ELSE 0)
                  - (IF th[t] \in CreatedStates THEN 1 ELSE 0),
                r + (IF v \in AliveStates THEN 1 ELSE 0)
                  - (IF th[t] \in AliveStates THEN 1 ELSE 0),
                p)
  <1>1. ASSUME NEW Q
        PROVE  /\ Count(th, Q) \in Nat
               /\ Count(th2, Q) = Count(th, Q) + (IF v \in Q THEN 1 ELSE 0)
                                     - (IF th[t] \in Q THEN 1 ELSE 0)
    BY CountStep
  <1> QED  BY <1>1 DEF Counts

(* Threads that move between states the counters do not tell apart. *)
LEMMA CountsSame ==
    ASSUME NEW th, NEW th2,
           \A u \in Threads :
                /\ th2[u] \in IdleStates <=> th[u] \in IdleStates
                /\ th2[u] \in CreatedStates <=> th[u] \in CreatedStates
                /\ th2[u] \in AliveStates <=> th[u] \in AliveStates,
           NEW i, NEW n, NEW r, NEW p, Counts(th, i, n, r, p)
    PROVE  Counts(th2, i, n, r, p)
  <1>1. /\ Count(th2, IdleStates) = Count(th, IdleStates)
        /\ Count(th2, CreatedStates) = Count(th, CreatedStates)
        /\ Count(th2, AliveStates) = Count(th, AliveStates)
    BY DEF Count
  <1> QED  BY <1>1 DEF Counts

(* pthread_cond_signal() moves a thread from one idle state to another. *)
LEMMA CountsSignal ==
    ASSUME NEW th \in [Threads -> ThreadStates], Signal(th),
           NEW i, NEW n, NEW r, NEW p, Counts(th, i, n, r, p)
    PROVE  Counts(thread', i, n, r, p)
  <1>1. CASE thread' = th
    BY <1>1
  <1>2. ASSUME NEW t \in Threads, th[t] = "wait",
               thread' = [th EXCEPT ![t] = "woken"]
        PROVE  Counts(thread', i, n, r, p)
    BY <1>2, CountsSame
       DEF ThreadStates, IdleStates, CreatedStates, AliveStates
  <1> QED  BY <1>1, <1>2, SignalThreads

(* The counters stay exact, and there are never more workers than allowed. *)
LEMMA CountersStep ==
    ASSUME IInv, [Next]_vars
    PROVE  /\ CountersExact' /\ nr_workers' <= MaxWorkers
           /\ nr_workers' \in Nat /\ nr_idle' \in Nat /\ refs' \in Nat
  <1> DEFINE C == Counts(thread, nr_idle, nr_workers, refs, pool)
             Goal == C' /\ nr_workers' <= MaxWorkers
  <1>1. /\ thread \in [Threads -> ThreadStates] /\ C
        /\ nr_workers \in Nat /\ nr_idle \in Nat /\ refs \in Nat
        /\ nr_workers <= MaxWorkers /\ MaxWorkers \in Nat
    BY CountsIsExact, MaxWorkersAssumption DEF IInv, TypeOK
  <1> USE DEF ThreadStates, IdleStates, CreatedStates, AliveStates
  <1>2. ASSUME NEW t \in Threads,
               WorkerLock(t) \/ WorkerPop(t) \/ WorkerEnd(t)
               \/ WorkerDropped(t) \/ WorkerFree(t) \/ SpuriousWakeup(t)
        PROVE  Goal
    <2>1. UNCHANGED <<nr_idle, nr_workers, refs, pool>>
      BY <1>2 DEF WorkerLock, WorkerPop, WorkerEnd, WorkerDropped, WorkerFree,
                  SpuriousWakeup, shared, ploop
    <2>2. \A u \in Threads :
                /\ thread'[u] \in IdleStates <=> thread[u] \in IdleStates
                /\ thread'[u] \in CreatedStates <=> thread[u] \in CreatedStates
                /\ thread'[u] \in AliveStates <=> thread[u] \in AliveStates
      BY <1>1, <1>2 DEF WorkerLock, WorkerPop, WorkerEnd, WorkerDropped,
                        WorkerFree, SpuriousWakeup
    <2> QED  BY <1>1, <2>1, <2>2, CountsSame
  <1>3. ASSUME NEW t \in Threads, WorkerWait(t) PROVE Goal
    <2>1. /\ thread[t] = "top" /\ nr_idle' = nr_idle + 1
          /\ \A u \in Threads : thread'[u] = IF u = t THEN "wait" ELSE thread[u]
          /\ UNCHANGED <<nr_workers, refs, pool>>
      BY <1>1, <1>3 DEF WorkerWait, ploop
    <2> DEFINE th == thread'
    <2> HIDE DEF th
    <2>2. \A u \in Threads : th[u] = IF u = t THEN "wait" ELSE thread[u]
      BY <2>1 DEF th
    <2>3. ASSUME NEW Q
          PROVE  /\ Count(thread, Q) \in Nat
                 /\ Count(th, Q) = Count(thread, Q)
                                    + (IF "wait" \in Q THEN 1 ELSE 0)
                                    - (IF thread[t] \in Q THEN 1 ELSE 0)
      BY <2>2, CountStep
    <2>4. /\ Count(th, IdleStates) = Count(thread, IdleStates) + 1
          /\ Count(th, CreatedStates) = Count(thread, CreatedStates)
          /\ Count(th, AliveStates) = Count(thread, AliveStates)
          /\ Count(thread, AliveStates) \in Nat
      BY <2>1, <2>3
    <2> QED  BY <1>1, <2>1, <2>4 DEF th, Counts
  <1>4. ASSUME NEW t \in Threads, WorkerWakeup(t) PROVE Goal
    <2>1. /\ thread[t] = "woken" /\ nr_idle' = nr_idle - 1
          /\ \A u \in Threads : thread'[u] = IF u = t THEN "top" ELSE thread[u]
          /\ UNCHANGED <<nr_workers, refs, pool>>
      BY <1>1, <1>4 DEF WorkerWakeup, ploop
    <2> DEFINE th == thread'
    <2> HIDE DEF th
    <2>2. \A u \in Threads : th[u] = IF u = t THEN "top" ELSE thread[u]
      BY <2>1 DEF th
    <2>3. ASSUME NEW Q
          PROVE  /\ Count(thread, Q) \in Nat
                 /\ Count(th, Q) = Count(thread, Q)
                                    + (IF "top" \in Q THEN 1 ELSE 0)
                                    - (IF thread[t] \in Q THEN 1 ELSE 0)
      BY <2>2, CountStep
    <2>4. /\ Count(th, IdleStates) = Count(thread, IdleStates) - 1
          /\ Count(th, CreatedStates) = Count(thread, CreatedStates)
          /\ Count(th, AliveStates) = Count(thread, AliveStates)
          /\ Count(thread, AliveStates) \in Nat
      BY <2>1, <2>3
    <2> QED  BY <1>1, <2>1, <2>4 DEF th, Counts
  <1>5. ASSUME NEW t \in Threads, WorkerExit(t) PROVE Goal
    <2>1. /\ thread[t] = "top" /\ refs' = refs - 1
          /\ \A u \in Threads : thread'[u] = IF u = t THEN "exit" ELSE thread[u]
          /\ UNCHANGED <<nr_workers, nr_idle, pool>>
      BY <1>1, <1>5 DEF WorkerExit, ploop
    <2> DEFINE th == thread'
    <2> HIDE DEF th
    <2>2. \A u \in Threads : th[u] = IF u = t THEN "exit" ELSE thread[u]
      BY <2>1 DEF th
    <2>3. ASSUME NEW Q
          PROVE  /\ Count(thread, Q) \in Nat
                 /\ Count(th, Q) = Count(thread, Q)
                                    + (IF "exit" \in Q THEN 1 ELSE 0)
                                    - (IF thread[t] \in Q THEN 1 ELSE 0)
      BY <2>2, CountStep
    <2>4. /\ Count(th, IdleStates) = Count(thread, IdleStates)
          /\ Count(th, CreatedStates) = Count(thread, CreatedStates)
          /\ Count(th, AliveStates) = Count(thread, AliveStates) - 1
          /\ Count(thread, AliveStates) \in Nat
      BY <2>1, <2>3
    <2> QED  BY <1>1, <2>1, <2>4 DEF th, Counts
  <1>6. ASSUME NEW w \in Works, NEW timed \in BOOLEAN, SubmitStart(w, timed)
        PROVE  Goal
    <2>1. /\ refs' = refs + 1 /\ nr_workers' = nr_workers + 1
          /\ nr_workers < MaxWorkers /\ UNCHANGED <<nr_idle, pool>>
      BY <1>6 DEF SubmitStart, Enqueue, WantsWorker, ploop
    <2>2. PICK t \in Threads : /\ thread[t] = "none"
                               /\ Signal([thread EXCEPT ![t] = "start"])
      BY <1>6 DEF SubmitStart
    <2> DEFINE th == [thread EXCEPT ![t] = "start"]
    <2>3. /\ th \in [Threads -> ThreadStates]
          /\ \A u \in Threads : th[u] = IF u = t THEN "start" ELSE thread[u]
      BY <1>1
    <2> HIDE DEF th
    <2>4. Counts(th, nr_idle + 0 - 0, nr_workers + 1 - 0, refs + 1 - 0, pool)
      BY <1>1, <2>2, <2>3, CountsStep
    <2>5. Counts(thread', nr_idle + 0 - 0, nr_workers + 1 - 0, refs + 1 - 0,
                 pool)
      BY <2>2, <2>3, <2>4, CountsSignal DEF th
    <2> QED  BY <1>1, <2>1, <2>5
  <1>7. ASSUME NEW w \in Works, NEW timed \in BOOLEAN, SubmitNoStart(w, timed)
        PROVE  Goal
    <2>1. Signal(thread) /\ UNCHANGED <<nr_idle, nr_workers, refs, pool>>
      BY <1>7 DEF SubmitNoStart, Enqueue, ploop
    <2>2. Counts(thread', nr_idle, nr_workers, refs, pool)
      BY <1>1, <2>1, CountsSignal
    <2> QED  BY <1>1, <2>1, <2>2
  <1>8. ASSUME DestroyClose PROVE Goal
    <2>1. /\ pool = "destroying" /\ pool' = "gone" /\ refs' = refs - 1
          /\ thread' = Broadcast /\ UNCHANGED <<nr_idle, nr_workers>>
      BY <1>8 DEF DestroyClose
    <2>2. Counts(thread, nr_idle, nr_workers, refs - 1, "gone")
      <3>1. Count(thread, AliveStates) \in Nat
        BY ThreadsAssumption, FS_Subset, FS_CardinalityType DEF Count
      <3> QED  BY <1>1, <2>1, <3>1 DEF Counts
    <2>3. \A u \in Threads :
                /\ thread'[u] \in IdleStates <=> thread[u] \in IdleStates
                /\ thread'[u] \in CreatedStates <=> thread[u] \in CreatedStates
                /\ thread'[u] \in AliveStates <=> thread[u] \in AliveStates
      BY <1>1, <2>1 DEF Broadcast
    <2> QED  BY <1>1, <2>1, <2>2, <2>3, CountsSame
  <1>9. ASSUME UNCHANGED <<thread, nr_idle, nr_workers, refs>>,
               pool' = "gone" <=> pool = "gone"
        PROVE  Goal
    BY <1>1, <1>9 DEF Counts
  <1>10. ASSUME NEW w \in active, Detach(w), UNCHANGED <<workers, pool>>
         PROVE  Goal
    BY <1>9, <1>10 DEF Detach, workers
  <1>11. ASSUME Api PROVE Goal
    <2>1. ASSUME NEW w \in Works, Cancel(w) PROVE Goal
      BY <1>10, <2>1 DEF Cancel, DetachAndFree, ploop
    <2>2. ASSUME PoolFreeLater \/ PoolFree \/ \E w \in Works : SubmitReject(w)
          PROVE  Goal
      BY <1>9, <2>2 DEF PoolFreeLater, PoolFree, SubmitReject, ApiAllowed,
                        vars, shared, ploop, workers
    <2> QED  BY <1>6, <1>7, <1>11, <2>1, <2>2 DEF Api
  <1>12. ASSUME Dispatch PROVE Goal
    <2>1. ASSUME DrainFinish \/ TimeoutFinish PROVE Goal
      BY <1>9, <2>1 DEF DrainFinish, TimeoutFinish, Finish, Detach, workers
    <2>2. ASSUME NEW w \in Works, DestroyWork(w) PROVE Goal
      BY <1>10, <2>2 DEF DestroyWork, DetachAndFree, ploop
    <2>3. ASSUME \/ OnDone \/ CallbackReturn
                 \/ \E w \in Works : OnTimeout(w)
          PROVE  Goal
      BY <1>9, <2>3 DEF OnDone, CallbackReturn, OnTimeout, shared, workers
    <2>4. ASSUME DrainEnd PROVE Goal
      <3>1. pool = "open"
        BY <2>4 DEF DrainEnd, IInv, LoopInv
      <3> QED  BY <1>9, <2>4, <3>1 DEF DrainEnd, PoolAfterDrain, shared, workers
    <2> QED  BY <1>8, <1>12, <2>1, <2>2, <2>3, <2>4 DEF Dispatch
  <1>13. ASSUME UNCHANGED vars PROVE Goal
    BY <1>9, <1>13 DEF vars, shared, ploop, workers
  <1>14. Goal
    <2> HIDE DEF Goal
    <2> QED  BY <1>2, <1>3, <1>4, <1>5, <1>11, <1>12, <1>13 DEF Next, Worker
  <1>15. CountersExact'
    <2>1. thread' \in [Threads -> ThreadStates] /\ nr_queued' = Len(queued')
      BY ListStep, ThreadStep
    <2>2. /\ Idle' = {u \in Threads : thread'[u] \in IdleStates}
          /\ Alive' = {u \in Threads : thread'[u] \in AliveStates}
          /\ {t \in Threads : thread[t] # "none"}' =
                {u \in Threads : thread'[u] \in CreatedStates}
      BY <2>1 DEF Idle, Alive
    <2> QED  BY <1>14, <2>1, <2>2 DEF CountersExact, Counts, Count
  <1>16. nr_workers' \in Nat /\ nr_idle' \in Nat /\ refs' \in Nat
    <2>1. \A Q : Count(thread', Q) \in Nat
      BY ThreadsAssumption, FS_Subset, FS_CardinalityType DEF Count
    <2> QED  BY <1>14, <2>1 DEF Counts
  <1> QED  BY <1>14, <1>15, <1>16

-----------------------------------------------------------------------------

(* The theorems *)

(* The inductive invariant of the pool: every list, thread, counter and     *)
(* work of daemon-util/work.c is where the other ones say it is.            *)
THEOREM Invariance == Spec => []IInv
  <1>1. Init => IInv
    <2> SUFFICES ASSUME Init PROVE IInv
      OBVIOUS
    <2> USE DEF Init
    <2>1. TypeOK
      <3>1. <<>> \in Seq(Works)
        BY EmptySeq
      <3> QED  BY <3>1 DEF TypeOK, WorkStates, ThreadStates, LoopStates
    <2>2. ListInv
      BY DEF ListInv, Distinct, On
    <2>3. ThreadInv /\ LoopInv /\ OwnerInv /\ EndInv
      BY DEF ThreadInv, LoopInv, OwnerInv, EndInv
    <2>4. CountersExact
      <3> DEFINE T == {t \in Threads : thread[t] # "none"}
      <3>1. Idle = {} /\ Alive = {} /\ T = {}
        BY DEF Idle, Alive
      <3>2. Len(queued) = 0 /\ Cardinality({}) = 0
        BY EmptySeq, FS_EmptySet
      <3> HIDE DEF T
      <3>3. /\ nr_queued = Len(queued) /\ nr_idle = Cardinality(Idle)
            /\ nr_workers = Cardinality(T)
            /\ refs = Cardinality(Alive) + (IF pool = "gone" THEN 0 ELSE 1)
        BY <3>1, <3>2
      <3> QED  BY <3>3, Zenon DEF CountersExact, T
    <2> QED  BY <2>1, <2>2, <2>3, <2>4, MaxWorkersAssumption DEF IInv
  <1>2. IInv /\ [Next]_vars => IInv'
    <2> SUFFICES ASSUME IInv, [Next]_vars PROVE IInv'
      OBVIOUS
    <2>1. nr_queued' \in Nat
      BY ListStep, LenProperties
    <2>2. TypeOK'
      BY <2>1, ListStep, ThreadStep, OwnerStep, CountersStep
         DEF TypeOK, TypeRest
    <2> QED  BY <2>2, ListStep, ThreadStep, OwnerStep, CountersStep DEF IInv
  <1> QED  BY <1>1, <1>2, PTL DEF Spec

(* Every variable keeps its type: in particular no counter of struct shared *)
(* wraps below zero.                                                        *)
THEOREM TypeCorrect == Spec => []TypeOK
  <1>1. IInv => TypeOK
    BY DEF IInv
  <1> QED  BY <1>1, Invariance, PTL

(* work_free() is called once per work, when nobody can reach the work any  *)
(* more, whichever of the event loop and the workers calls it.              *)
THEOREM MemorySafety == Spec => []FreedOnceUnreachable
  <1>1. IInv => FreedOnceUnreachable
    <2> SUFFICES ASSUME IInv, NEW w \in Works
                 PROVE  /\ frees[w] <= 1
                        /\ frees[w] = 1 =>
                            /\ w \notin active /\ ~timer[w]
                            /\ ~On(w, queued) /\ ~On(w, done)
                            /\ \A t \in Threads : job[t] # w
                            /\ ~(loop = "timeout" /\ cur = w)
                            /\ ~(loop = "callback" /\ owned /\ cur = w)
      BY DEF FreedOnceUnreachable
    <2> QED  BY NoneAssumption DEF IInv, OwnerInv, ListInv
  <1> QED  BY <1>1, Invariance, PTL

(* A callback that reports an ended work has its data for itself. *)
THEOREM EndedExclusive == Spec => []EndedCallbackExclusive
  <1>1. IInv => EndedCallbackExclusive
    <2> SUFFICES ASSUME IInv, loop = "callback", outcome[cur] = "ended"
                 PROVE  frees[cur] = 0 /\ \A t \in Threads : job[t] # cur
      BY DEF EndedCallbackExclusive
    <2>1. /\ owned /\ frees[cur] = 0 /\ cur \in Works
          /\ state[cur] \in {"queued", "done"}
      BY DEF IInv, OwnerInv
    <2>2. \A t \in Threads : job[t] # None =>
                                state[job[t]] \in {"running", "dropped"}
      BY DEF IInv, ThreadInv
    <2> QED  BY <2>1, <2>2, NoneAssumption
  <1> QED  BY <1>1, Invariance, PTL

(* The counters that decide when a worker is started and when the shared    *)
(* state is freed are exact.                                                *)
THEOREM CountersCorrect == Spec => []CountersExact
  <1>1. IInv => CountersExact
    BY DEF IInv
  <1> QED  BY <1>1, Invariance, PTL

(* dmn_work_pool_new(): at most max_workers works run at the same time. *)
THEOREM Bounded == Spec => []WorkersBounded
  <1>1. IInv => WorkersBounded
    <2> SUFFICES ASSUME IInv PROVE WorkersBounded
      OBVIOUS
    <2> DEFINE J == {t \in Threads : job[t] # None}
               T == {t \in Threads : thread[t] # "none"}
    <2>1. J \in SUBSET T
      BY DEF IInv, ThreadInv
    <2>2. IsFiniteSet(T)
      BY ThreadsAssumption, FS_Subset
    <2> HIDE DEF J, T
    <2>3. /\ Cardinality(J) <= Cardinality(T)
          /\ Cardinality(J) \in Nat /\ Cardinality(T) \in Nat
      BY <2>1, <2>2, FS_Subset, FS_CardinalityType
    <2>4. Cardinality(T) <= MaxWorkers
      BY DEF IInv, CountersExact, T
    <2>5. Cardinality(J) <= MaxWorkers
      BY <2>3, <2>4, MaxWorkersAssumption
    <2> QED  BY <2>5 DEF WorkersBounded, J
  <1> QED  BY <1>1, Invariance, PTL

(* The event loop never sleeps over works that wait for their report. *)
THEOREM EndsReported == Spec => []NoLostEnd
  <1>1. IInv => NoLostEnd
    BY DEF IInv, EndInv, NoLostEnd
  <1> QED  BY <1>1, Invariance, PTL

-----------------------------------------------------------------------------

(* Enough workers for the queue *)

(* The states of a worker that will look at the queue, and of one that will *)
(* or that a signal can make look.                                          *)
AwakeStates == {"start", "top", "woken"}
ReadyStates == AwakeStates \cup {"wait"}

(* NoLostSignal and WorkConserving, of thread states th and q queued works. *)
Supply(th, q, nworkers, failed) ==
    /\ (\E t \in Threads : th[t] = "wait") => q <= Count(th, AwakeStates)
    /\ nworkers < MaxWorkers /\ ~failed => q <= Count(th, ReadyStates)

SupplyInv == Supply(thread, nr_queued, nr_workers, start_failed)

(* One thread moves.  A worker leaves the queue alone only with a work of   *)
(* it or when it is empty, and sleeps only when it is empty.                *)
LEMMA SupplyMove ==
    ASSUME NEW th, NEW th2, NEW t \in Threads, NEW v,
           \A u \in Threads : th2[u] = IF u = t THEN v ELSE th[u],
           NEW q \in Nat, NEW q2 \in Nat, NEW n, NEW f, Supply(th, q, n, f), q2 <= q,
           th[t] \in AwakeStates /\ v \notin ReadyStates => q2 < q \/ q2 = 0,
           v = "wait" => q2 = 0,
           th[t] = "wait" => v \in AwakeStates
    PROVE  Supply(th2, q2, n, f)
  <1>1. ASSUME NEW Q
        PROVE  /\ Count(th, Q) \in Nat
               /\ Count(th2, Q) = Count(th, Q) + (IF v \in Q THEN 1 ELSE 0)
                                     - (IF th[t] \in Q THEN 1 ELSE 0)
    BY CountStep
  <1>2. \A Q : Count(th2, Q) \in Nat
    BY ThreadsAssumption, FS_Subset, FS_CardinalityType DEF Count
  <1>3. CASE q2 = 0
    BY <1>2, <1>3 DEF Supply
  <1>4. CASE q2 # 0
    <2>1. v # "wait" /\ (v \in ReadyStates <=> v \in AwakeStates)
      BY <1>4 DEF ReadyStates
    <2>2. th[t] \in ReadyStates <=> th[t] \in AwakeStates \/ th[t] = "wait"
      BY DEF ReadyStates
    <2>3. (\E u \in Threads : th2[u] = "wait") => \E u \in Threads : th[u] = "wait"
      BY <2>1
    <2>4. q <= Count(th, AwakeStates) => q2 <= Count(th2, AwakeStates)
      BY <1>1, <1>4, <2>1
    <2>5. q <= Count(th, ReadyStates) => q2 <= Count(th2, ReadyStates)
      BY <1>1, <1>4, <2>1, <2>2
    <2> QED  BY <2>3, <2>4, <2>5 DEF Supply
  <1> QED  BY <1>3, <1>4

(* dmn_work_submit() signals for the work it adds, and starts a worker for  *)
(* it unless there are as many idle ones as works queued; what else happens *)
(* adds no work and takes no worker away from one.                          *)
LEMMA SupplyStep ==
    ASSUME IInv, IInv', SupplyInv, [Next]_vars
    PROVE  SupplyInv'
  <1>1. /\ thread \in [Threads -> ThreadStates] /\ nr_queued \in Nat /\ nr_queued' \in Nat
        /\ nr_idle \in Nat /\ nr_workers \in Nat /\ MaxWorkers \in Nat
        /\ nr_queued = Len(queued)
    BY MaxWorkersAssumption DEF IInv, TypeOK, CountersExact
  <1>2. \A th, Q : Count(th, Q) \in Nat
    BY ThreadsAssumption, FS_Subset, FS_CardinalityType DEF Count
  <1>3. queued = <<>> => nr_queued = 0
    BY <1>1, EmptySeq
  <1>4. active = {} => queued = <<>>
    <2>1. queued \in Seq(Works) /\ \A w : On(w, queued) => w \in Works
      <3>1. queued \in Seq(Works)
        BY DEF IInv, TypeOK
      <3> QED  BY <3>1, ElementOfSeq, LenProperties DEF On
    <2>2. active = {} => \A w : ~On(w, queued)
      BY <2>1 DEF IInv, ListInv
    <2> QED  BY <2>1, <2>2, EmptyList
  <1>5. ASSUME NEW t \in Threads, NEW v, thread' = [thread EXCEPT ![t] = v],
               UNCHANGED <<nr_workers, start_failed>>, nr_queued' <= nr_queued,
               thread[t] \in AwakeStates /\ v \notin ReadyStates
                   => nr_queued' < nr_queued \/ nr_queued' = 0,
               v = "wait" => nr_queued' = 0,
               thread[t] = "wait" => v \in AwakeStates
        PROVE  SupplyInv'
    <2>1. \A u \in Threads : thread'[u] = IF u = t THEN v ELSE thread[u]
      BY <1>1, <1>5
    <2>2. Supply(thread', nr_queued', nr_workers, start_failed)
      BY <1>1, <1>5, <2>1, SupplyMove DEF SupplyInv
    <2> QED  BY <1>5, <2>2 DEF SupplyInv
  <1>6. ASSUME NEW t \in Threads, Worker(t) \/ SpuriousWakeup(t) PROVE SupplyInv'
    <2> USE DEF AwakeStates, ReadyStates
    <2>1. CASE WorkerLock(t) \/ WorkerWakeup(t) \/ WorkerEnd(t) \/ WorkerDropped(t)
               \/ WorkerFree(t) \/ SpuriousWakeup(t)
      <3>1. UNCHANGED <<nr_workers, nr_queued, start_failed>>
        BY <2>1 DEF WorkerLock, WorkerWakeup, WorkerEnd, WorkerDropped, WorkerFree,
                    SpuriousWakeup, shared
      <3>2. \/ thread' = [thread EXCEPT ![t] = "top"] /\ thread[t] # "wait"
            \/ thread' = [thread EXCEPT ![t] = "drop"] /\ thread[t] = "run"
            \/ thread' = [thread EXCEPT ![t] = "start"] /\ thread[t] = "drop"
            \/ thread' = [thread EXCEPT ![t] = "woken"]
        BY <2>1 DEF WorkerLock, WorkerWakeup, WorkerEnd, WorkerDropped, WorkerFree,
                    SpuriousWakeup
      <3> QED  BY <1>1, <1>5, <3>1, <3>2
    <2>2. CASE WorkerWait(t)
      <3>1. /\ thread' = [thread EXCEPT ![t] = "wait"] /\ thread[t] = "top"
            /\ nr_queued' = 0 /\ nr_queued = 0 /\ UNCHANGED <<nr_workers, start_failed>>
        BY <1>3, <2>2 DEF WorkerWait
      <3>2. nr_queued' <= nr_queued /\ thread[t] # "wait"
        BY <3>1
      <3> QED  BY <1>5, <3>1, <3>2
    <2>3. CASE WorkerPop(t)
      <3>1. /\ thread' = [thread EXCEPT ![t] = "run"] /\ thread[t] = "top"
            /\ nr_queued' = nr_queued - 1 /\ UNCHANGED <<nr_workers, start_failed>>
        BY <2>3 DEF WorkerPop
      <3>2. nr_queued' <= nr_queued /\ nr_queued' < nr_queued /\ thread[t] # "wait"
        BY <1>1, <3>1
      <3> QED  BY <1>5, <3>1, <3>2
    <2>4. CASE WorkerExit(t)
      <3>1. nr_queued = 0
        BY <1>3, <1>4, <2>4 DEF WorkerExit, IInv, LoopInv
      <3>2. /\ thread' = [thread EXCEPT ![t] = "exit"] /\ thread[t] = "top"
            /\ nr_queued' = 0 /\ UNCHANGED <<nr_workers, start_failed>>
        BY <2>4, <3>1 DEF WorkerExit
      <3>3. nr_queued' <= nr_queued /\ thread[t] # "wait"
        BY <3>1, <3>2
      <3> QED  BY <1>5, <3>2, <3>3
    <2> QED  BY <1>6, <2>1, <2>2, <2>3, <2>4 DEF Worker
  <1>7. ASSUME NEW w \in Works, NEW timed \in BOOLEAN, SubmitStart(w, timed)
        PROVE  SupplyInv'
    <2>1. /\ nr_queued' = nr_queued + 1 /\ nr_workers' = nr_workers + 1
          /\ UNCHANGED start_failed
      BY <1>7 DEF SubmitStart, Enqueue
    <2>2. PICK t \in Threads : /\ thread[t] = "none"
                               /\ Signal([thread EXCEPT ![t] = "start"])
      BY <1>7 DEF SubmitStart
    <2> DEFINE th == [thread EXCEPT ![t] = "start"]
    <2>3. /\ th \in [Threads -> ThreadStates]
          /\ \A u \in Threads : th[u] = IF u = t THEN "start" ELSE thread[u]
      BY <1>1 DEF ThreadStates
    <2>4. Signal(th)
      BY <2>2
    <2> HIDE DEF th
    <2>5. ASSUME NEW Q
          PROVE  /\ Count(thread, Q) \in Nat
                 /\ Count(th, Q) = Count(thread, Q) + (IF "start" \in Q THEN 1 ELSE 0)
                                       - (IF thread[t] \in Q THEN 1 ELSE 0)
      BY <2>3, CountStep
    <2>6. /\ Count(th, AwakeStates) = Count(thread, AwakeStates) + 1
          /\ Count(th, ReadyStates) = Count(thread, ReadyStates) + 1
      BY <2>2, <2>5 DEF AwakeStates, ReadyStates
    <2>7. (\E u \in Threads : th[u] = "wait") => \E u \in Threads : thread[u] = "wait"
      BY <2>3
    <2>8. Supply(th, nr_queued + 1, nr_workers + 1, start_failed)
      BY <1>1, <1>2, <2>6, <2>7 DEF SupplyInv, Supply
    <2>9. Supply(thread', nr_queued + 1, nr_workers + 1, start_failed)
      <3>1. CASE thread' = th
        BY <2>8, <3>1
      <3>2. ASSUME NEW u \in Threads, th[u] = "wait", thread' = [th EXCEPT ![u] = "woken"]
            PROVE  Supply(thread', nr_queued + 1, nr_workers + 1, start_failed)
        <4>1. \A x \in Threads : thread'[x] = IF x = u THEN "woken" ELSE th[x]
          BY <2>3, <3>2
        <4> DEFINE q == nr_queued + 1
                   n == nr_workers + 1
                   th2 == thread'
        <4>2. q \in Nat /\ q <= q /\ Supply(th, q, n, start_failed)
          BY <1>1, <2>8
        <4>3. /\ "woken" # "wait" /\ "woken" \in AwakeStates /\ th[u] \notin AwakeStates
              /\ \A x \in Threads : th2[x] = IF x = u THEN "woken" ELSE th[x]
          BY <3>2, <4>1 DEF AwakeStates
        <4> HIDE DEF q, n, th2
        <4>4. Supply(th2, q, n, start_failed)
          BY <4>2, <4>3, SupplyMove
        <4> QED  BY <4>4 DEF q, n, th2
      <3> QED  BY <2>3, <2>4, <3>1, <3>2, SignalThreads
    <2> QED  BY <2>1, <2>9 DEF SupplyInv
  <1>8. ASSUME NEW w \in Works, NEW timed \in BOOLEAN, SubmitNoStart(w, timed)
        PROVE  SupplyInv'
    <2>1. /\ nr_queued' = nr_queued + 1 /\ UNCHANGED nr_workers /\ Signal(thread)
          /\ start_failed' = (start_failed \/ WantsWorker)
      BY <1>8 DEF SubmitNoStart, Enqueue
    <2>2. thread' \in [Threads -> ThreadStates]
      BY <1>1, <2>1, SignalThreads
    <2>3. nr_idle = Count(thread, IdleStates) /\ nr_idle <= Count(thread', ReadyStates)
      <3>1. nr_idle = Count(thread, IdleStates)
        BY <1>1, CountsIsExact DEF IInv, Counts
      <3>2. \A u \in Threads : thread[u] \in IdleStates => thread'[u] \in ReadyStates
        BY <1>1, <2>1, SignalThreads DEF IdleStates, ReadyStates, AwakeStates
      <3>3. {u \in Threads : thread[u] \in IdleStates}
                \subseteq {u \in Threads : thread'[u] \in ReadyStates}
        BY <3>2
      <3>4. Count(thread, IdleStates) <= Count(thread', ReadyStates)
        BY <3>3, ThreadsAssumption, FS_Subset DEF Count
      <3> QED  BY <3>1, <3>4
    <2>4. nr_workers < MaxWorkers /\ ~start_failed' => nr_queued + 1 <= nr_idle
      <3>1. ~start_failed' => ~WantsWorker
        BY <2>1
      <3> QED  BY <1>1, <3>1 DEF WantsWorker
    <2>5. nr_workers < MaxWorkers /\ ~start_failed'
              => nr_queued + 1 <= Count(thread', ReadyStates)
      BY <1>1, <1>2, <2>3, <2>4
    <2>6. ASSUME \E u \in Threads : thread'[u] = "wait"
          PROVE  nr_queued + 1 <= Count(thread', AwakeStates)
      <3>1. \E u \in Threads : thread[u] = "wait"
        BY <1>1, <2>1, <2>6, SignalThreads
      <3>2. PICK t \in Threads : thread[t] = "wait" /\ thread' = [thread EXCEPT ![t] = "woken"]
        BY <2>1, <3>1 DEF Signal
      <3> DEFINE th == thread'
      <3>3. \A u \in Threads : th[u] = IF u = t THEN "woken" ELSE thread[u]
        BY <1>1, <3>2
      <3> HIDE DEF th
      <3>4. ASSUME NEW Q
            PROVE  Count(th, Q) = Count(thread, Q) + (IF "woken" \in Q THEN 1 ELSE 0)
                                      - (IF thread[t] \in Q THEN 1 ELSE 0)
        BY <3>3, CountStep
      <3>5. Count(th, AwakeStates) = Count(thread, AwakeStates) + 1
        BY <1>2, <3>2, <3>4 DEF AwakeStates
      <3>6. nr_queued <= Count(thread, AwakeStates)
        BY <3>1 DEF SupplyInv, Supply
      <3> QED  BY <1>1, <1>2, <3>5, <3>6 DEF th
    <2> QED  BY <2>1, <2>5, <2>6 DEF SupplyInv, Supply
  <1>9. ASSUME DestroyClose PROVE SupplyInv'
    <2>1. nr_queued' = 0
      BY <1>3, <1>4, <1>9 DEF DestroyClose
    <2> QED  BY <1>2, <2>1 DEF SupplyInv, Supply
  <1>10. ASSUME UNCHANGED <<thread, nr_workers, start_failed>>, nr_queued' <= nr_queued
         PROVE  SupplyInv'
    BY <1>1, <1>2, <1>10 DEF SupplyInv, Supply
  <1>11. ASSUME NEW w, Detach(w), UNCHANGED <<workers, start_failed>>
         PROVE  SupplyInv'
    <2>1. nr_queued' = nr_queued \/ nr_queued' = QueuedAfterDetach(w)
      BY <1>11 DEF Detach
    <2>2. nr_queued' <= nr_queued
      BY <1>1, <2>1 DEF QueuedAfterDetach
    <2> QED  BY <1>10, <1>11, <2>2 DEF Detach, workers
  <1>12. ASSUME Api PROVE SupplyInv'
    <2>1. ASSUME NEW w \in Works, Cancel(w) PROVE SupplyInv'
      BY <1>11, <2>1 DEF Cancel, DetachAndFree
    <2>2. ASSUME PoolFreeLater \/ PoolFree \/ \E w \in Works : SubmitReject(w)
          PROVE  SupplyInv'
      BY <1>1, <1>10, <2>2 DEF PoolFreeLater, PoolFree, SubmitReject, vars, shared, workers
    <2> QED  BY <1>7, <1>8, <1>12, <2>1, <2>2 DEF Api
  <1>13. ASSUME Dispatch PROVE SupplyInv'
    <2>1. ASSUME DrainFinish \/ TimeoutFinish PROVE SupplyInv'
      BY <1>11, <2>1 DEF DrainFinish, TimeoutFinish, Finish
    <2>2. ASSUME NEW w \in Works, DestroyWork(w) PROVE SupplyInv'
      BY <1>11, <2>2 DEF DestroyWork, DetachAndFree
    <2>3. ASSUME \/ OnDone \/ CallbackReturn \/ DrainEnd
                 \/ \E w \in Works : OnTimeout(w)
          PROVE  SupplyInv'
      BY <1>1, <1>10, <2>3 DEF OnDone, CallbackReturn, DrainEnd, OnTimeout, shared, workers
    <2> QED  BY <1>9, <1>13, <2>1, <2>2, <2>3 DEF Dispatch
  <1>14. ASSUME UNCHANGED vars PROVE SupplyInv'
    BY <1>1, <1>10, <1>14 DEF vars, shared, workers
  <1> QED  BY <1>6, <1>12, <1>13, <1>14 DEF Next

(* There are always enough workers for the queue: what dmn_work_submit()    *)
(* starts and signals, the workers do not sleep or run away from.           *)
THEOREM SupplyInvariance == Spec => []SupplyInv
  <1>1. Init => SupplyInv
    <2> SUFFICES ASSUME Init PROVE SupplyInv
      OBVIOUS
    <2>1. nr_queued = 0 /\ \A Q : Count(thread, Q) \in Nat
      BY ThreadsAssumption, FS_Subset, FS_CardinalityType DEF Count, Init
    <2> QED  BY <2>1 DEF SupplyInv, Supply
  <1>2. IInv /\ IInv' /\ SupplyInv /\ [Next]_vars => SupplyInv'
    BY SupplyStep
  <1> QED  BY <1>1, <1>2, Invariance, PTL DEF Spec

(* No wakeup is lost: while a worker sleeps, as many others as there are    *)
(* works queued will look at the queue.                                     *)
THEOREM NoWakeupLost == Spec => []NoLostSignal
  <1>1. IInv /\ SupplyInv => NoLostSignal
    <2> SUFFICES ASSUME IInv, SupplyInv PROVE NoLostSignal
      OBVIOUS
    <2>1. Takers = {u \in Threads : thread[u] \in AwakeStates} /\ nr_queued = Len(queued)
      BY DEF Takers, AwakeStates, IInv, CountersExact
    <2>2. Waiting # {} => \E t \in Threads : thread[t] = "wait"
      BY DEF Waiting
    <2> QED  BY <2>1, <2>2 DEF NoLostSignal, SupplyInv, Supply, Count
  <1> QED  BY <1>1, Invariance, SupplyInvariance, PTL

(* While more workers may be started, and none failed to, there is one on   *)
(* its way for every queued work: the idle test of dmn_work_submit() is     *)
(* enough, although nr_idle counts workers that were woken up for others.   *)
THEOREM WorkIsConserved == Spec => []WorkConserving
  <1>1. IInv /\ SupplyInv => WorkConserving
    <2> SUFFICES ASSUME IInv, SupplyInv PROVE WorkConserving
      OBVIOUS
    <2>1. Takers \cup Waiting = {u \in Threads : thread[u] \in ReadyStates}
          /\ nr_queued = Len(queued)
      BY DEF Takers, Waiting, AwakeStates, ReadyStates, IInv, CountersExact
    <2> QED  BY <2>1 DEF WorkConserving, SupplyInv, Supply, Count
  <1> QED  BY <1>1, Invariance, SupplyInvariance, PTL

-----------------------------------------------------------------------------

(* The threads, lists and locks of work.c implement the contract of work.h: *)
(* one outcome per work, no callback after a cancel or after the pool was   *)
(* freed, data freed once and only after the outcome.                       *)
THEOREM Refinement == Spec => RefinesContract
  <1> DEFINE Freed == {w \in Works : frees[w] > 0}
             Open == pool = "open" /\ ~free_pending
             Same == UNCHANGED <<active, outcome, Freed, Open>>
  <1>1. Init => Contract!Init
    BY DEF Init, Contract!Init
  <1>2. IInv /\ [Next]_vars => [Contract!Next]_(Contract!vars)
    <2> SUFFICES ASSUME IInv, [Next]_vars
                 PROVE  Contract!Next \/ Same
      BY DEF Contract!vars
    <2>1. /\ frees \in [Works -> Nat] /\ active \in SUBSET Works
          /\ outcome \in [Works -> {"none", "ended", "timed_out", "cancelled"}]
          /\ pool \in {"open", "destroying", "gone"} /\ free_pending \in BOOLEAN
          /\ job \in [Threads -> Works \cup {None}]
      BY DEF IInv, TypeOK
    <2>2. ASSUME NEW t \in Threads, Worker(t) \/ SpuriousWakeup(t)
          PROVE  Contract!Next \/ Same
      <3>1. CASE WorkerFree(t)
        <4>1. /\ job[t] \in Works /\ state[job[t]] = "dropped"
              /\ frees[job[t]] = 0
          BY <2>1, <3>1 DEF WorkerFree, IInv, ThreadInv, OwnerInv
        <4>2. outcome[job[t]] # "none"
          BY <4>1 DEF IInv, OwnerInv
        <4>3. /\ frees' = [frees EXCEPT ![job[t]] = @ + 1]
              /\ UNCHANGED <<active, outcome, pool, free_pending>>
          BY <3>1 DEF WorkerFree, ploop
        <4>4. Freed' = Freed \cup {job[t]} /\ job[t] \notin Freed
          BY <2>1, <4>1, <4>3
        <4> QED  BY <4>1, <4>2, <4>3, <4>4 DEF Contract!Next, Contract!Free
      <3>2. CASE ~WorkerFree(t)
        BY <2>2, <3>2 DEF Worker, SpuriousWakeup, WorkerLock, WorkerWait,
            WorkerWakeup, WorkerPop, WorkerEnd, WorkerDropped, WorkerExit,
            works, ploop
      <3> QED  BY <3>1, <3>2
    <2>3. ASSUME NEW w \in Works, NEW timed \in BOOLEAN,
                 SubmitStart(w, timed) \/ SubmitNoStart(w, timed)
          PROVE  Contract!Next
      <3>1. /\ state[w] = "new" /\ pool = "open" /\ ~free_pending
            /\ active' = active \cup {w}
            /\ UNCHANGED <<frees, outcome, pool, free_pending>>
        BY <2>3 DEF SubmitStart, SubmitNoStart, Enqueue, ApiAllowed, ploop
      <3>2. w \notin active /\ frees[w] = 0 /\ outcome[w] = "none"
        BY <3>1 DEF IInv, OwnerInv
      <3> QED  BY <2>1, <3>1, <3>2 DEF Contract!Next, Contract!Submit
    <2>4. ASSUME NEW w \in Works, Cancel(w) \/ DestroyWork(w)
          PROVE  Contract!Next
      <3>1. /\ w \in active /\ active' = active \ {w}
            /\ outcome' = [outcome EXCEPT ![w] = "cancelled"]
            /\ frees' = IF DetachOwns(w) THEN [frees EXCEPT ![w] = @ + 1]
                                         ELSE frees
            /\ UNCHANGED <<pool, free_pending>>
        BY <2>4 DEF Cancel, DestroyWork, DetachAndFree, Detach, ploop
      <3>2. frees[w] = 0
        BY <3>1 DEF IInv, OwnerInv
      <3>3. Freed' \in {Freed, Freed \cup {w}}
        <4>1. CASE DetachOwns(w)
          <5>1. Freed' = Freed \cup {w}
            BY <2>1, <3>1, <3>2, <4>1
          <5> QED  BY <5>1
        <4>2. CASE ~DetachOwns(w)
          BY <3>1, <4>2
        <4> QED  BY <4>1, <4>2
      <3> QED  BY <3>1, <3>3 DEF Contract!Next, Contract!Cancel
    <2>5. ASSUME NEW w \in active, NEW o \in BOOLEAN, Finish(w, o),
                 pool = "open", ~free_pending
          PROVE  Contract!Next
      <3>1. /\ active' = active \ {w}
            /\ outcome' = [outcome EXCEPT ![w] =
                                IF o THEN "timed_out" ELSE "ended"]
            /\ UNCHANGED <<frees, pool, free_pending>>
        BY <2>5 DEF Finish, Detach
      <3>2. w \in Works
        BY <2>1
      <3> DEFINE r == IF o THEN "timed_out" ELSE "ended"
      <3>3. r \in {"ended", "timed_out"} /\ r \in Contract!Outcomes
        BY DEF Contract!Outcomes
      <3>4. Contract!Report(w, r)
        BY <2>5, <3>1, <3>3 DEF Contract!Report
      <3> HIDE DEF r
      <3> QED  BY <3>2, <3>3, <3>4 DEF Contract!Next
    <2>6. ASSUME DrainFinish PROVE Contract!Next
      <3>1. Head(done) \in Works /\ On(Head(done), done)
        BY <2>6, PopList DEF DrainFinish, IInv, TypeOK, ListInv
      <3>2. Head(done) \in active
        BY <3>1 DEF IInv, ListInv
      <3>3. pool = "open" /\ ~free_pending
        BY <2>6 DEF DrainFinish, IInv, LoopInv
      <3> QED  BY <2>5, <2>6, <3>2, <3>3 DEF DrainFinish
    <2>7. ASSUME TimeoutFinish PROVE Contract!Next
      <3>1. cur \in active /\ pool = "open" /\ ~free_pending
        BY <2>7 DEF TimeoutFinish, IInv, OwnerInv, LoopInv
      <3> QED  BY <2>5, <2>7, <3>1 DEF TimeoutFinish
    <2>8. ASSUME PoolFreeLater \/ PoolFree PROVE Contract!Next
      <3>1. /\ pool = "open" /\ ~free_pending
            /\ free_pending' = TRUE \/ pool' = "destroying"
            /\ UNCHANGED <<active, outcome, frees>>
        BY <2>8 DEF PoolFreeLater, PoolFree, ApiAllowed, works
      <3> QED  BY <3>1 DEF Contract!Next, Contract!Close
    <2>9. ASSUME CallbackReturn PROVE Contract!Next \/ Same
      <3>1. UNCHANGED <<active, outcome, pool, free_pending>>
        BY <2>9 DEF CallbackReturn
      <3>2. CASE owned
        <4>1. /\ cur \in Works /\ frees[cur] = 0 /\ outcome[cur] # "none"
              /\ frees' = [frees EXCEPT ![cur] = @ + 1]
          BY <2>9, <3>2 DEF CallbackReturn, IInv, OwnerInv
        <4>2. Freed' = Freed \cup {cur} /\ cur \notin Freed
          BY <2>1, <4>1
        <4> QED  BY <3>1, <4>1, <4>2 DEF Contract!Next, Contract!Free
      <3>3. CASE ~owned
        BY <2>9, <3>1, <3>3 DEF CallbackReturn
      <3> QED  BY <3>2, <3>3
    <2>10. ASSUME DrainEnd PROVE Same
      <3>1. pool = "open"
        BY <2>10 DEF DrainEnd, IInv, LoopInv
      <3> QED  BY <2>1, <2>10, <3>1 DEF DrainEnd, PoolAfterDrain, works
    <2>11. ASSUME \/ OnDone \/ DestroyClose
                  \/ \E w \in Works : OnTimeout(w) \/ SubmitReject(w)
                  \/ UNCHANGED vars
           PROVE  Same
      BY <2>11 DEF OnDone, DestroyClose, OnTimeout, SubmitReject, vars, works,
                   ploop
    <2> HIDE DEF Same
    <2> QED  BY <2>2, <2>3, <2>4, <2>6, <2>7, <2>8, <2>9, <2>10, <2>11
             DEF Next, Api, Dispatch
  <1> QED  BY <1>1, <1>2, Invariance, PTL DEF Spec, RefinesContract, Contract!Spec
=============================================================================
