---------------------------- MODULE InventoryProofs ----------------------------
(***************************************************************************)
(* Proofs about the desired-connection set (Inventory)                     *)
(*                                                                         *)
(* hops() is recursive, so what it returns is proved by induction over its *)
(* budget.  SmallestElement gives induction in a first-order form: finite  *)
(* sets are well founded under inclusion, so a nonempty set of numbers has *)
(* a smallest element, and BoundedInduction follows.  HopsUnfold then      *)
(* shows that the recursion of hops has a solution, HopsUpTo that with any *)
(* budget b it finds the shortest chains of at most b referrals, and the   *)
(* properties of inventory_is_desired() and inventory_source() follow in   *)
(* every state that satisfies CacheInv.                                    *)
(*                                                                         *)
(* CacheInv adds to the types that a DC without an entry in dlp_cache has  *)
(* no page left: chains are defined by the pages, hops() by the entries.   *)
(* The lemmas on single operations (UpdateDlpStep, LoadConfigStep, ...)    *)
(* are used again for the daemon in DesiredProofs.                         *)
(***************************************************************************)
EXTENDS Inventory, FiniteSetTheorems, SequenceTheorems, TLAPS

(* A nonempty set of natural numbers has a smallest element. *)
LEMMA SmallestElement ==
  ASSUME NEW T \in SUBSET Nat, T # {}
  PROVE  \E n \in T : \A m \in T : n <= m
PROOF
  <1> DEFINE R == StrictSubsetOrdering(Nat)
             F == {0..n : n \in T}
  <1>1. F \subseteq FiniteSubsetsOf(Nat)
    <2> SUFFICES ASSUME NEW n \in T PROVE 0..n \in FiniteSubsetsOf(Nat)
      OBVIOUS
    <2>1. IsFiniteSet(0..n)
      BY FS_Interval
    <2>2. 0..n \in SUBSET Nat
      OBVIOUS
    <2> QED
      BY <2>1, <2>2 DEF FiniteSubsetsOf
  <1>2. F # {}
    OBVIOUS
  <1>3. PICK x \in F : \A y \in F : ~(<<y, x>> \in R)
    <2>1. IsWellFoundedOn(R, FiniteSubsetsOf(Nat))
      BY FS_StrictSubsetOrderingWellFounded
    <2> HIDE DEF R, F
    <2> QED
      BY <1>1, <1>2, <2>1, WFMin
  <1>4. PICK n \in T : x = 0..n
    OBVIOUS
  <1>5. ASSUME NEW m \in T, m < n PROVE FALSE
    <2>1. 0..m \subseteq 0..n /\ n \in 0..n /\ n \notin 0..m
      BY <1>5
    <2>2. <<0..m, 0..n>> \in R
      BY <2>1 DEF StrictSubsetOrdering
    <2> QED
      BY <2>2, <1>3, <1>4
  <1> QED
    BY <1>5

(* Induction up to a bound, with the property as a set. *)
LEMMA BoundedInduction ==
  ASSUME NEW N \in Nat, NEW S, 0 \in S,
         \A n \in 0..N : n + 1 \in 0..N /\ n \in S => n + 1 \in S
  PROVE  0..N \subseteq S
PROOF
  <1> DEFINE T == {n \in 0..N : n \notin S}
  <1> SUFFICES ASSUME T # {} PROVE FALSE
    OBVIOUS
  <1>1. PICK n \in T : \A m \in T : n <= m
    <2>1. T \in SUBSET Nat
      OBVIOUS
    <2> HIDE DEF T
    <2> QED BY <2>1, SmallestElement
  <1>2. n \in 1..N
    OBVIOUS
  <1>3. n - 1 \in 0..N /\ n - 1 \in S
    BY <1>1, <1>2
  <1>4. (n - 1) + 1 = n
    BY <1>2
  <1> QED
    BY <1>1, <1>3, <1>4

(* What hops() returns with budget b, when f is hops() with less budget. *)
Row(f, b) ==
    [t \in DC |->
        LET via == {f[b - 1][d] : d \in {d \in ToSet(cache) : t \in dlp[d]}}
            reached == {h \in via : h >= 0}
        IN  IF t \in Roots THEN 0
            ELSE IF b = 0 \/ reached = {} THEN -1 ELSE MinOf(reached) + 1]


(* hops() with budget b depends on hops() with budget b - 1 only. *)
LEMMA RowAgrees ==
  ASSUME NEW f, NEW g, NEW b, b = 0 \/ f[b - 1] = g[b - 1]
  PROVE  Row(f, b) = Row(g, b)
PROOF
  <1>1. CASE b = 0
    BY <1>1 DEF Row
  <1>2. CASE f[b - 1] = g[b - 1]
    BY <1>2 DEF Row
  <1> QED
    BY <1>1, <1>2

(* The recursive definition of hops has a solution, by induction over the  *)
(* budget: hops() terminates, whatever loops the log pages make.           *)
LEMMA HopsUnfold ==
    hops = [b \in 0..MaxHops |-> Row(hops, b)]
PROOF
  <1> DEFINE Solves(f, n) == f = [b \in 0..n |-> Row(f, b)]
             S == {n \in 0..MaxHops : \E f : Solves(f, n)}
  <1>1. 0 \in S
    <2> DEFINE f == [b \in 0..0 |-> Row(<<>>, 0)]
    <2>1. \A b \in 0..0 : Row(<<>>, 0) = Row(f, b)
      BY RowAgrees
    <2>2. Solves(f, 0)
      BY <2>1
    <2> QED
      BY <2>2, InventoryAssumption DEF InventoryAssumption
  <1>2. ASSUME NEW n \in 0..MaxHops, n + 1 \in 0..MaxHops, n \in S
        PROVE  n + 1 \in S
    <2>1. PICK f : Solves(f, n)
      BY <1>2
    <2> DEFINE g == [b \in 0..n + 1 |-> IF b = n + 1 THEN Row(f, b) ELSE f[b]]
    <2>2. \A b \in 0..n : g[b] = f[b] /\ f[b] = Row(f, b)
      BY <2>1
    <2>3. g[n + 1] = Row(f, n + 1)
      OBVIOUS
    <2> HIDE DEF g
    <2>4. ASSUME NEW b \in 0..n + 1 PROVE g[b] = Row(g, b)
      <3>1. b = 0 \/ b - 1 \in 0..n
        OBVIOUS
      <3>2. Row(f, b) = Row(g, b)
        BY <2>2, <3>1, RowAgrees
      <3>3. b = n + 1 \/ b \in 0..n
        OBVIOUS
      <3> QED
        BY <2>2, <2>3, <3>2, <3>3
    <2>5. Solves(g, n + 1)
      <3>1. g = [b \in 0..n + 1 |-> g[b]]
        BY DEF g
      <3> QED
        BY <3>1, <2>4
    <2> HIDE DEF Solves
    <2> QED
      BY <1>2, <2>5
  <1>3. MaxHops \in S
    <2>1. MaxHops \in Nat /\ MaxHops \in 0..MaxHops
      BY InventoryAssumption DEF InventoryAssumption
    <2> HIDE DEF S
    <2> QED
      BY <2>1, <1>1, <1>2, BoundedInduction
  <1>4. \E f : f = [b \in 0..MaxHops |-> Row(f, b)]
    BY <1>3
  <1>5. hops = CHOOSE f : f = [b \in 0..MaxHops |-> Row(f, b)]
    BY DEF hops, Row
  <1> QED
    BY <1>4, <1>5, Zenon

(* The invariant of discovered_dcs and dlp_cache: one entry for each DC,   *)
(* and no page of a DC that has no entry.                                  *)
CacheInv ==
    /\ discovered \subseteq DC
    /\ cache \in Seq(DC) /\ IsInjective(cache)
    /\ dlp \in [DC -> SUBSET TID]
    /\ \A d \in DC : d \notin ToSet(cache) => dlp[d] = {}

(* A DC that lists something has an entry in dlp_cache. *)
LEMMA CachedAreDcs ==
  ASSUME CacheInv
  PROVE  /\ ToSet(cache) \subseteq DC
         /\ \A d \in DC : \A t : t \in dlp[d] => d \in ToSet(cache)
PROOF
  <1>1. ToSet(cache) \subseteq DC
    BY DEF CacheInv, ToSet
  <1> QED
    BY <1>1 DEF CacheInv

(* A chain without referrals ends at a DC with a source. *)
LEMMA RootChain ==
  ASSUME NEW t \in DC
  PROVE  Chain(t, 0) <=> t \in Roots
PROOF
  <1>1. ASSUME t \in Roots PROVE Chain(t, 0)
    <2> DEFINE p == [k \in 0..0 |-> t]
    <2>1. p \in [0..0 -> DC] /\ p[0] = t
      OBVIOUS
    <2>2. \A k \in 0..0-1 : FALSE
      OBVIOUS
    <2> HIDE DEF p
    <2> QED
      BY <1>1, <2>1, <2>2 DEF Chain
  <1>2. ASSUME Chain(t, 0) PROVE t \in Roots
    BY <1>2 DEF Chain
  <1> QED
    BY <1>1, <1>2

(* A referral makes a chain one longer. *)
LEMMA LongerChain ==
  ASSUME NEW t \in DC, NEW d \in DC, NEW n \in Nat, Chain(d, n), t \in dlp[d]
  PROVE  Chain(t, n + 1)
PROOF
  <1>1. PICK p \in [0..n -> DC] : /\ p[0] \in Roots /\ p[n] = d
                                  /\ \A k \in 0..n-1 : p[k + 1] \in dlp[p[k]]
    BY DEF Chain
  <1> DEFINE q == [k \in 0..n + 1 |-> IF k = n + 1 THEN t ELSE p[k]]
  <1>2. q \in [0..n + 1 -> DC] /\ q[n + 1] = t /\ \A k \in 0..n : q[k] = p[k]
    OBVIOUS
  <1> HIDE DEF q
  <1>3. ASSUME NEW k \in 0..(n + 1)-1 PROVE q[k + 1] \in dlp[q[k]]
    <2>1. CASE k = n
      BY <2>1, <1>1, <1>2
    <2>2. CASE k # n
      <3>1. k \in 0..n-1 /\ k \in 0..n /\ k + 1 \in 0..n
        BY <2>2
      <3> QED
        BY <3>1, <1>1, <1>2
    <2> QED
      BY <2>1, <2>2
  <1>4. q[0] \in Roots
    <2>1. 0 \in 0..n
      OBVIOUS
    <2> QED
      BY <2>1, <1>1, <1>2
  <1> QED
    BY <1>2, <1>3, <1>4 DEF Chain

(* The last referral of a chain comes from a DC with a chain one shorter. *)
LEMMA ShorterChain ==
  ASSUME NEW t \in DC, NEW n \in Nat \ {0}, Chain(t, n)
  PROVE  \E d \in DC : Chain(d, n - 1) /\ t \in dlp[d]
PROOF
  <1>1. PICK p \in [0..n -> DC] : /\ p[0] \in Roots /\ p[n] = t
                                  /\ \A k \in 0..n-1 : p[k + 1] \in dlp[p[k]]
    BY DEF Chain
  <1> DEFINE q == [k \in 0..n - 1 |-> p[k]]
             d == p[n - 1]
  <1>2. n - 1 \in 0..n-1 /\ n - 1 \in 0..n /\ 0 \in 0..n-1 /\ (n - 1) + 1 = n
    OBVIOUS
  <1>3. d \in DC /\ t \in dlp[d]
    BY <1>1, <1>2
  <1>4. q \in [0..n - 1 -> DC] /\ q[n - 1] = d /\ q[0] = p[0]
    BY <1>2
  <1>5. ASSUME NEW k \in 0..(n - 1)-1 PROVE q[k + 1] \in dlp[q[k]]
    <2>1. k \in 0..n-1 /\ k + 1 \in 0..n - 1
      OBVIOUS
    <2> QED
      BY <2>1, <1>1
  <1>6. Chain(d, n - 1)
    <2> HIDE DEF q, d
    <2> QED
      BY <1>1, <1>4, <1>5 DEF Chain
  <1> QED
    BY <1>3, <1>6

(* n is the length of the shortest chain to t among those of at most b     *)
(* referrals, or -1.                                                       *)
Shortest(t, n, b) ==
    /\ n \in -1..b
    /\ n >= 0 => Chain(t, n)
    /\ \A m \in 0..b : Chain(t, m) => n >= 0 /\ n <= m

(* The results of hops() for the DCs that refer to t. *)
Reached(t, b) ==
    {h \in {hops[b - 1][d] : d \in {d \in ToSet(cache) : t \in dlp[d]}} : h >= 0}

(* One step of hops(): the early returns and the loop over dlp_cache. *)
LEMMA HopsRow ==
  ASSUME NEW b \in 0..MaxHops, NEW t \in DC
  PROVE  hops[b][t] = IF t \in Roots THEN 0
                      ELSE IF b = 0 \/ Reached(t, b) = {} THEN -1
                           ELSE MinOf(Reached(t, b)) + 1
PROOF
  <1>1. hops[b] = Row(hops, b)
    BY HopsUnfold
  <1> QED
    BY <1>1 DEF Row, Reached

(* MinOf is the smallest element. *)
LEMMA MinOfReached ==
  ASSUME NEW T \in SUBSET Nat, T # {}
  PROVE  MinOf(T) \in T /\ \A m \in T : MinOf(T) <= m
  BY SmallestElement, Zenon DEF MinOf

(* hops() with budget b finds the shortest chain of at most b referrals, by *)
(* induction over b.                                                       *)
LEMMA HopsUpTo ==
  ASSUME CacheInv
  PROVE  \A b \in 0..MaxHops : \A t \in DC : Shortest(t, hops[b][t], b)
PROOF
  <1> DEFINE S == {b \in 0..MaxHops : \A t \in DC : Shortest(t, hops[b][t], b)}
  <1>0. MaxHops \in Nat
    BY InventoryAssumption DEF InventoryAssumption
  <1>1. 0 \in S
    <2> SUFFICES ASSUME NEW t \in DC PROVE Shortest(t, hops[0][t], 0)
      BY <1>0
    <2>1. hops[0][t] = IF t \in Roots THEN 0 ELSE -1
      BY <1>0, HopsRow
    <2> QED
      BY <2>1, RootChain DEF Shortest
  <1>2. ASSUME NEW b \in 0..MaxHops, b + 1 \in 0..MaxHops, b \in S
        PROVE  b + 1 \in S
    <2> SUFFICES ASSUME NEW t \in DC PROVE Shortest(t, hops[b + 1][t], b + 1)
      BY <1>2
    <2> DEFINE T == Reached(t, b + 1)
    <2>1. /\ (b + 1) - 1 = b /\ b \in Nat /\ b + 1 # 0
          /\ \A d \in DC : Shortest(d, hops[b][d], b)
      BY <1>2
    <2>2. hops[b + 1][t] = IF t \in Roots THEN 0
                           ELSE IF T = {} THEN -1 ELSE MinOf(T) + 1
      BY <1>2, <2>1, HopsRow
    <2>3. \A h : h \in T <=>
             \E d \in DC : t \in dlp[d] /\ h = hops[b][d] /\ h >= 0
      BY <2>1, CachedAreDcs DEF Reached
    <2>4. CASE t \in Roots
      <3>1. hops[b + 1][t] = 0 /\ Chain(t, 0)
        BY <2>2, <2>4, RootChain
      <3> QED
        BY <2>1, <3>1 DEF Shortest
    <2>5. ASSUME t \notin Roots, NEW m \in 0..b + 1, Chain(t, m)
          PROVE  \E h \in T : h \in 0..b /\ h + 1 <= m
      <3>1. m \in Nat \ {0}
        BY <2>5, RootChain
      <3>2. PICK d \in DC : Chain(d, m - 1) /\ t \in dlp[d]
        BY <2>5, <3>1, ShorterChain
      <3>3. m - 1 \in 0..b
        BY <3>1
      <3>4. hops[b][d] \in 0..b /\ hops[b][d] <= m - 1
        BY <2>1, <3>2, <3>3 DEF Shortest
      <3>5. hops[b][d] \in T
        BY <2>3, <3>2, <3>4
      <3> QED
        BY <3>4, <3>5, <2>1
    <2>6. CASE t \notin Roots /\ T = {}
      <3>1. hops[b + 1][t] = -1
        BY <2>2, <2>6
      <3>2. \A m \in 0..b + 1 : ~Chain(t, m)
        BY <2>5, <2>6
      <3> QED
        BY <2>1, <3>1, <3>2 DEF Shortest
    <2>7. CASE t \notin Roots /\ T # {}
      <3>1. \A h \in T : h \in 0..b
        BY <2>1, <2>3 DEF Shortest
      <3>2. MinOf(T) \in T /\ \A h \in T : MinOf(T) <= h
        <4>1. T \in SUBSET Nat
          BY <3>1
        <4> HIDE DEF T
        <4> QED
          BY <4>1, <2>7, MinOfReached
      <3>3. PICK h \in T : h = MinOf(T) /\ \A k \in T : h <= k
        BY <3>2
      <3>4. hops[b + 1][t] = h + 1
        BY <2>2, <2>7, <3>3
      <3>5. Chain(t, h + 1)
        <4>1. PICK d \in DC : t \in dlp[d] /\ h = hops[b][d]
          BY <2>3
        <4>2. Chain(d, h)
          BY <2>1, <3>1, <4>1 DEF Shortest
        <4> QED
          BY <4>1, <4>2, <3>1, LongerChain
      <3>6. ASSUME NEW m \in 0..b + 1, Chain(t, m) PROVE h + 1 <= m
        BY <2>5, <2>7, <3>6, <3>1, <3>3
      <3> QED
        BY <3>1, <3>4, <3>5, <3>6 DEF Shortest
    <2> QED
      BY <2>4, <2>6, <2>7
  <1>3. 0..MaxHops \subseteq S
    <2> HIDE DEF S
    <2> QED
      BY <1>0, <1>1, <1>2, BoundedInduction
  <1> QED
    BY <1>3

(* inventory_referral_hops() finds the fewest referrals, in every state    *)
(* whose pages are cached.                                                 *)
LEMMA HopsCorrect ==
  ASSUME CacheInv
  PROVE  HopsAreShortest
PROOF
  <1>1. MaxHops \in 0..MaxHops
    BY InventoryAssumption DEF InventoryAssumption
  <1>2. \A t \in DC : Shortest(t, referral_hops(t), MaxHops)
    BY <1>1, HopsUpTo DEF referral_hops
  <1> QED
    BY <1>2 DEF Shortest, HopsAreShortest

(* A DC is within the limit exactly when a chain reaches it, and one       *)
(* without a source of its own is then listed by a DC within the limit.    *)
LEMMA ReachedDcs ==
  ASSUME CacheInv, NEW t \in DC
  PROVE  /\ referral_hops(t) >= 0 <=> \E n \in 0..MaxHops : Chain(t, n)
         /\ t \in Roots => referral_hops(t) >= 0
         /\ referral_hops(t) >= 0 => t \in Roots \/ Listing(t) # {}
PROOF
  <1>1. MaxHops \in Nat /\ MaxHops \in 0..MaxHops /\ 0 \in 0..MaxHops
    BY InventoryAssumption DEF InventoryAssumption
  <1>2. \A d \in DC : Shortest(d, referral_hops(d), MaxHops)
    BY <1>1, HopsUpTo DEF referral_hops
  <1>3. \A d \in DC : referral_hops(d) >= 0 <=> \E n \in 0..MaxHops : Chain(d, n)
    <2> SUFFICES ASSUME NEW d \in DC
                 PROVE  referral_hops(d) >= 0 <=> \E n \in 0..MaxHops : Chain(d, n)
      OBVIOUS
    <2>1. Shortest(d, referral_hops(d), MaxHops)
      BY <1>2
    <2>2. ASSUME referral_hops(d) >= 0 PROVE \E n \in 0..MaxHops : Chain(d, n)
      <3>1. referral_hops(d) \in 0..MaxHops /\ Chain(d, referral_hops(d))
        BY <1>1, <2>1, <2>2 DEF Shortest
      <3> QED
        BY <3>1
    <2>3. ASSUME NEW n \in 0..MaxHops, Chain(d, n) PROVE referral_hops(d) >= 0
      BY <2>1, <2>3 DEF Shortest
    <2> QED
      BY <2>2, <2>3
  <1>4. t \in Roots => referral_hops(t) >= 0
    BY <1>1, <1>3, RootChain
  <1>5. ASSUME referral_hops(t) >= 0, t \notin Roots PROVE Listing(t) # {}
    <2>1. PICK n \in 0..MaxHops : Chain(t, n)
      BY <1>3, <1>5
    <2>2. n \in Nat \ {0}
      BY <1>1, <1>5, <2>1, RootChain
    <2>3. PICK d \in DC : Chain(d, n - 1) /\ t \in dlp[d]
      BY <2>1, <2>2, ShorterChain
    <2>4. n - 1 \in 0..MaxHops
      BY <1>1, <2>2
    <2>5. referral_hops(d) >= 0 /\ d \in ToSet(cache)
      BY <1>3, <2>3, <2>4, CachedAreDcs
    <2> QED
      BY <2>3, <2>5 DEF Listing
  <1> QED
    BY <1>3, <1>4, <1>5

(* inventory_is_desired() holds exactly for what a chain within the limit  *)
(* reaches.                                                                *)
LEMMA DesiredIsChained ==
  ASSUME CacheInv, cfg \subseteq TID
  PROVE  DesiredByChain
PROOF
  <1> SUFFICES ASSUME NEW t \in TID
               PROVE  is_desired(t) <=>
                        \/ t \in Nbft \cup cfg \cup discovered
                        \/ t \in DC /\ \E n \in 0..MaxHops : Chain(t, n)
                        \/ t \in IOC /\ \E d \in DC, n \in 0..MaxHops :
                                            Chain(d, n) /\ t \in dlp[d]
    BY DEF DesiredByChain
  <1>0. DC \cap IOC = {} /\ Nbft \subseteq TID /\ discovered \subseteq DC
    BY InventoryAssumption DEF InventoryAssumption, CacheInv
  <1>1. CASE t \in DC
    <2>1. t \notin IOC /\ (t \in Roots <=> t \in Nbft \cup cfg \cup discovered)
      BY <1>0, <1>1 DEF Roots
    <2> QED
      BY <1>1, <2>1, ReachedDcs DEF is_desired
  <1>2. CASE t \in IOC
    <2>1. t \notin DC /\ t \notin discovered
      BY <1>0, <1>2
    <2>2. Listing(t) # {} <=>
            \E d \in DC, n \in 0..MaxHops : Chain(d, n) /\ t \in dlp[d]
      BY CachedAreDcs, ReachedDcs DEF Listing
    <2> QED
      BY <1>2, <2>1, <2>2 DEF is_desired
  <1> QED
    BY <1>1, <1>2 DEF TID

(* The entry that inventory_source() stops at lists t and is within the    *)
(* limit.                                                                  *)
LEMMA ListingParent ==
  ASSUME CacheInv, NEW t, Listing(t) # {}
  PROVE  cache[SelectInSeq(cache, LAMBDA d : d \in Listing(t))] \in Listing(t)
PROOF
  <1> DEFINE I == {i \in 1..Len(cache) : cache[i] \in Listing(t)}
  <1>1. I # {} /\ I \in SUBSET Nat
    <2>1. PICK d : d \in Listing(t)
      OBVIOUS
    <2>2. PICK i \in DOMAIN cache : cache[i] = d
      BY <2>1 DEF Listing, ToSet
    <2>3. DOMAIN cache = 1..Len(cache) /\ Len(cache) \in Nat
      BY DEF CacheInv
    <2> QED
      BY <2>1, <2>2, <2>3
  <1>2. Min(I) \in I
    <2>1. \E n \in I : \A m \in I : n <= m
      <3> HIDE DEF I
      <3> QED
        BY <1>1, SmallestElement
    <2> HIDE DEF I
    <2> QED
      BY <2>1, Zenon DEF Min
  <1>3. SelectInSeq(cache, LAMBDA d : d \in Listing(t)) = Min(I)
    BY <1>1, Zenon DEF SelectInSeq
  <1> QED
    BY <1>2, <1>3

(* inventory_source() gives a desired TID a source, and a parent that is   *)
(* desired and lists it.                                                   *)
LEMMA SourceIsExplained ==
  ASSUME CacheInv, cfg \subseteq TID
  PROVE  SourceExplains
PROOF
  <1> SUFFICES ASSUME NEW t \in TID, is_desired(t)
               PROVE  /\ source(t).source # None
                      /\ source(t).source = "dlp" =>
                            /\ is_desired(source(t).parent)
                            /\ t \in dlp[source(t).parent]
    BY DEF SourceExplains
  <1> DEFINE R(s, d) == [source |-> s, parent |-> d]
  <1>0. None \notin {"nbft", "config", "discovered", "dlp"}
    BY InventoryAssumption DEF InventoryAssumption
  <1>1. CASE t \in Nbft
    <2>1. source(t) = R("nbft", None)
      BY <1>1, Zenon DEF source
    <2> QED
      BY <1>0, <2>1
  <1>2. CASE t \in cfg \ Nbft
    <2>1. source(t) = R("config", None)
      BY <1>2, Zenon DEF source
    <2> QED
      BY <1>0, <2>1
  <1>3. CASE t \in discovered \ (Nbft \cup cfg)
    <2>1. source(t) = R("discovered", None)
      BY <1>3, Zenon DEF source
    <2> QED
      BY <1>0, <2>1
  <1>4. CASE t \notin Nbft \cup cfg \cup discovered
    <2>1. Listing(t) # {}
      BY <1>4, ReachedDcs DEF is_desired, TID, Roots
    <2> DEFINE d == cache[SelectInSeq(cache, LAMBDA e : e \in Listing(t))]
    <2>2. d \in Listing(t)
      BY <2>1, ListingParent
    <2>3. source(t) = R("dlp", d)
      BY <1>4, <2>1, Zenon DEF source
    <2>4. d \in DC /\ t \in dlp[d] /\ referral_hops(d) >= 0
      BY <2>2, CachedAreDcs DEF Listing
    <2> HIDE DEF d
    <2>5. source(t).source = "dlp" /\ source(t).parent = d
      BY <2>3
    <2> QED
      BY <1>0, <2>4, <2>5 DEF is_desired
  <1> QED
    BY <1>1, <1>2, <1>3, <1>4

(* Removing an entry from a cache without duplicates removes its DC and    *)
(* keeps the rest.                                                         *)
LEMMA RemoveFirstProperties ==
  ASSUME NEW s \in Seq(DC), IsInjective(s), NEW d
  PROVE  /\ RemoveFirst(s, d) \in Seq(DC)
         /\ IsInjective(RemoveFirst(s, d))
         /\ ToSet(RemoveFirst(s, d)) = ToSet(s) \ {d}
PROOF
  <1>0. Len(s) \in Nat /\ DOMAIN s = 1..Len(s) /\ \A i \in 1..Len(s) : s[i] \in DC
    OBVIOUS
  <1>1. CASE ~\E i \in 1..Len(s) : s[i] = d
    <2>1. RemoveFirst(s, d) = s
      BY <1>1 DEF RemoveFirst
    <2>2. d \notin ToSet(s)
      BY <1>0, <1>1 DEF ToSet
    <2> QED
      BY <2>1, <2>2
  <1>2. CASE \E i \in 1..Len(s) : s[i] = d
    <2> DEFINE I == {i \in 1..Len(s) : s[i] = d}
               k == Min(I)
               r == RemoveFirst(s, d)
    <2>1. k \in 1..Len(s) /\ s[k] = d
      <3>1. I \in SUBSET Nat /\ I # {}
        BY <1>2
      <3>2. \E n \in I : \A m \in I : n <= m
        <4> HIDE DEF I
        <4> QED
          BY <3>1, SmallestElement
      <3>3. Min(I) \in I
        <4> HIDE DEF I
        <4> QED
          BY <3>2, Zenon DEF Min
      <3> QED
        BY <3>3
    <2>2. r = SubSeq(s, 1, k - 1) \o SubSeq(s, k + 1, Len(s))
      <3>1. I # {}
        BY <1>2
      <3>2. SelectInSeq(s, LAMBDA v : v = d) = k
        BY <3>1, Zenon DEF SelectInSeq
      <3> QED
        BY <1>2, <3>2, Zenon DEF RemoveFirst, RemoveAt
    <2> HIDE DEF k, r
    <2> DEFINE u == SubSeq(s, 1, k - 1)
               v == SubSeq(s, k + 1, Len(s))
    <2>3. u \in Seq(DC) /\ Len(u) = k - 1 /\ \A i \in 1..k - 1 : u[i] = s[i]
      <3>1. \A i \in 1..k - 1 : s[i] \in DC
        BY <1>0, <2>1
      <3> QED
        BY <1>0, <2>1, <3>1, SubSeqProperties
    <2>4. v \in Seq(DC) /\ Len(v) = Len(s) - k
                        /\ \A i \in 1..Len(s) - k : v[i] = s[k + i]
      <3>1. \A i \in k + 1..Len(s) : s[i] \in DC
        BY <1>0, <2>1
      <3>2. k + 1 \in Int /\ Len(s) \in Int
        BY <1>0, <2>1
      <3>3. /\ v \in Seq(DC)
            /\ Len(v) = IF k + 1 <= Len(s) THEN Len(s) - (k + 1) + 1 ELSE 0
            /\ \A i \in 1..Len(s) - (k + 1) + 1 : v[i] = s[(k + 1) + i - 1]
        BY <3>1, <3>2, SubSeqProperties
      <3>4. Len(s) - (k + 1) + 1 = Len(s) - k /\ \A i \in Int : (k + 1) + i - 1 = k + i
        BY <1>0, <2>1
      <3>5. Len(v) = Len(s) - k
        <4> HIDE DEF v
        <4>1. k \in Nat /\ Len(s) \in Nat /\ k <= Len(s)
          BY <1>0, <2>1
        <4>2. Len(v) = IF k + 1 <= Len(s) THEN Len(s) - (k + 1) + 1 ELSE 0
          BY <3>3, Zenon
        <4>3. CASE k + 1 <= Len(s)
          BY <3>4, <4>2, <4>3
        <4>4. CASE ~(k + 1 <= Len(s))
          <5>1. Len(v) = 0
            BY <4>2, <4>4
          <5> QED
            BY <4>1, <4>4, <5>1
        <4> QED
          BY <4>3, <4>4
      <3>6. ASSUME NEW i \in 1..Len(s) - k PROVE v[i] = s[k + i]
        <4> HIDE DEF v
        <4>1. i \in 1..Len(s) - (k + 1) + 1 /\ i \in Int
          BY <3>4
        <4> QED
          BY <3>3, <3>4, <4>1
      <3> QED
        BY <3>3, <3>5, <3>6
    <2> HIDE DEF u, v
    <2>5. r \in Seq(DC) /\ Len(r) = Len(s) - 1
      <3>1. r \in Seq(DC) /\ Len(r) = Len(u) + Len(v)
        BY <2>2, <2>3, <2>4, ConcatProperties DEF u, v
      <3> QED
        BY <1>0, <2>1, <2>3, <2>4, <3>1
    <2>6. \A i \in 1..Len(s) - 1 : r[i] = IF i < k THEN s[i] ELSE s[i + 1]
      <3> SUFFICES ASSUME NEW i \in 1..Len(s) - 1
                   PROVE  r[i] = IF i < k THEN s[i] ELSE s[i + 1]
        OBVIOUS
      <3>1. i \in 1..Len(u) + Len(v)
        BY <1>0, <2>1, <2>3, <2>4
      <3>2. r[i] = IF i <= Len(u) THEN u[i] ELSE v[i - Len(u)]
        BY <2>2, <2>3, <2>4, <3>1, ConcatProperties DEF u, v
      <3>3. CASE i < k
        <4>1. i \in 1..k - 1
          BY <2>1, <3>3
        <4> QED
          BY <2>1, <2>3, <3>2, <3>3, <4>1
      <3>4. CASE ~(i < k)
        <4>1. i - (k - 1) \in 1..Len(s) - k /\ k + (i - (k - 1)) = i + 1
          BY <1>0, <2>1, <3>4
        <4> QED
          BY <2>1, <2>3, <2>4, <3>2, <3>4, <4>1
      <3> QED
        BY <3>3, <3>4
    <2>7. DOMAIN r = 1..Len(s) - 1
      BY <2>5
    <2>8. \A i, j \in 1..Len(s) : s[i] = s[j] => i = j
      BY <1>0 DEF IsInjective
    <2>9. IsInjective(r)
      <3> SUFFICES ASSUME NEW i \in 1..Len(s) - 1, NEW j \in 1..Len(s) - 1, r[i] = r[j]
                   PROVE  i = j
        BY <2>7 DEF IsInjective
      <3>1. /\ i \in 1..Len(s) /\ i + 1 \in 1..Len(s)
            /\ j \in 1..Len(s) /\ j + 1 \in 1..Len(s)
        BY <1>0
      <3> QED
        BY <1>0, <2>1, <2>6, <2>8, <3>1
    <2>10. ASSUME NEW e PROVE e \in ToSet(r) <=> e \in ToSet(s) \ {d}
      <3>1. ASSUME NEW i \in 1..Len(s) - 1, e = r[i] PROVE e \in ToSet(s) \ {d}
        <4>1. i \in 1..Len(s) /\ i + 1 \in 1..Len(s)
          BY <1>0
        <4>2. PICK j \in 1..Len(s) : e = s[j] /\ j # k
          BY <1>0, <2>1, <2>6, <3>1, <4>1
        <4> QED
          BY <1>0, <2>1, <2>8, <4>2 DEF ToSet
      <3>2. ASSUME NEW i \in 1..Len(s), e = s[i], e # d PROVE e \in ToSet(r)
        <4>1. CASE i < k
          <5>1. i \in 1..Len(s) - 1
            BY <1>0, <2>1, <4>1
          <5> QED
            BY <2>6, <2>7, <3>2, <4>1, <5>1 DEF ToSet
        <4>2. CASE ~(i < k)
          <5>1. i # k
            BY <2>1, <3>2
          <5>2. i - 1 \in 1..Len(s) - 1 /\ ~(i - 1 < k) /\ (i - 1) + 1 = i
            BY <1>0, <2>1, <4>2, <5>1
          <5> QED
            BY <2>6, <2>7, <3>2, <5>2 DEF ToSet
        <4> QED
          BY <4>1, <4>2
      <3> QED
        BY <1>0, <2>7, <3>1, <3>2 DEF ToSet
    <2> QED
      BY <2>5, <2>9, <2>10 DEF r
  <1> QED
    BY <1>1, <1>2

(* A new entry at the head of the cache adds its DC. *)
LEMMA PrependProperties ==
  ASSUME NEW s \in Seq(DC), IsInjective(s), NEW d \in DC, d \notin ToSet(s)
  PROVE  /\ <<d>> \o s \in Seq(DC)
         /\ IsInjective(<<d>> \o s)
         /\ ToSet(<<d>> \o s) = ToSet(s) \cup {d}
PROOF
  <1> DEFINE r == <<d>> \o s
  <1>0. Len(s) \in Nat /\ DOMAIN s = 1..Len(s)
    OBVIOUS
  <1>1. /\ r \in Seq(DC) /\ DOMAIN r = 1..Len(s) + 1
        /\ \A i \in 1..Len(s) + 1 : r[i] = IF i = 1 THEN d ELSE s[i - 1]
    OBVIOUS
  <1> HIDE DEF r
  <1>2. \A i \in 2..Len(s) + 1 : i - 1 \in 1..Len(s) /\ s[i - 1] # d
    BY <1>0 DEF ToSet
  <1>3. IsInjective(r)
    <2> SUFFICES ASSUME NEW i \in 1..Len(s) + 1, NEW j \in 1..Len(s) + 1, r[i] = r[j]
                 PROVE  i = j
      BY <1>1 DEF IsInjective
    <2>1. CASE i = 1 \/ j = 1
      BY <1>0, <1>1, <1>2, <2>1
    <2>2. CASE i # 1 /\ j # 1
      <3>1. s[i - 1] = s[j - 1] /\ i - 1 \in 1..Len(s) /\ j - 1 \in 1..Len(s)
        BY <1>0, <1>1, <2>2
      <3>2. i - 1 = j - 1
        BY <1>0, <3>1 DEF IsInjective
      <3> QED
        BY <1>0, <3>2
    <2> QED
      BY <2>1, <2>2
  <1>4. ASSUME NEW e PROVE e \in ToSet(r) <=> e \in ToSet(s) \cup {d}
    <2>1. ASSUME NEW i \in 1..Len(s) + 1, e = r[i] PROVE e \in ToSet(s) \cup {d}
      BY <1>0, <1>1, <1>2, <2>1 DEF ToSet
    <2>2. ASSUME NEW i \in 1..Len(s), e = s[i] PROVE e \in ToSet(r)
      <3>1. i + 1 \in 1..Len(s) + 1 /\ i + 1 # 1 /\ (i + 1) - 1 = i
        BY <1>0
      <3> QED
        BY <1>1, <2>2, <3>1 DEF ToSet
    <2>3. d \in ToSet(r)
      <3>1. 1 \in 1..Len(s) + 1
        BY <1>0
      <3> QED
        BY <1>1, <3>1 DEF ToSet
    <2> QED
      BY <1>0, <1>1, <2>1, <2>2, <2>3 DEF ToSet
  <1> QED
    BY <1>1, <1>3, <1>4 DEF r

(* The invariant of the configuration and its name lookups. *)
LookupInv ==
    /\ cfg \subseteq TID
    /\ lookup \in [TID -> LookupState]
    /\ FirstLookupsCounted

(* The inductive invariant of the inventory. *)
InventoryInv == CacheInv /\ LookupInv

(* The lookups are finitely many. *)
LEMMA FirstLookupsFinite ==
  ASSUME NEW S \in SUBSET TID
  PROVE  IsFiniteSet(S) /\ Cardinality(S) \in 0..Cardinality(TID)
PROOF
  <1>1. IsFiniteSet(TID)
    BY InventoryAssumption, FS_Union DEF InventoryAssumption, TID
  <1>2. IsFiniteSet(S) /\ Cardinality(S) <= Cardinality(TID)
    BY <1>1, FS_Subset
  <1>3. Cardinality(S) \in Nat /\ Cardinality(TID) \in Nat
    BY <1>1, <1>2, FS_CardinalityType
  <1> QED
    BY <1>2, <1>3

(* The inductive invariant gives the types. *)
LEMMA InventoryInvType ==
  ASSUME InventoryInv
  PROVE  InventoryTypeOK
PROOF
  <1>1. nr_first \in 0..Cardinality(TID)
    <2>1. {t \in TID : lookup[t] = "first"} \in SUBSET TID
      OBVIOUS
    <2> QED
      BY <2>1, FirstLookupsFinite DEF InventoryInv, LookupInv, FirstLookupsCounted
  <1> QED
    BY <1>1 DEF InventoryInv, LookupInv, CacheInv, InventoryTypeOK

(* inventory_new() establishes the invariant. *)
LEMMA EmptyInventory ==
  ASSUME cfg = {}, discovered = {}, cache = <<>>, dlp = [d \in DC |-> {}],
         lookup = [t \in TID |-> "none"], nr_first = 0
  PROVE  InventoryInv
PROOF
  <1>1. CacheInv
    BY DEF CacheInv, IsInjective
  <1>2. {t \in TID : lookup[t] = "first"} = {}
    OBVIOUS
  <1>3. LookupInv
    BY <1>2, FS_EmptySet DEF LookupInv, LookupState, FirstLookupsCounted
  <1> QED
    BY <1>1, <1>3 DEF InventoryInv

(* inventory_update_dlp() keeps one entry for each DC. *)
LEMMA UpdateDlpStep ==
  ASSUME CacheInv, NEW d \in DC, NEW log \in SUBSET TID, update_dlp(d, log)
  PROVE  CacheInv'
PROOF
  <1>1. /\ cache' \in Seq(DC) /\ IsInjective(cache')
        /\ ToSet(cache') = ToSet(cache) \cup {d}
    <2>1. CASE d \in ToSet(cache)
      BY <2>1 DEF CacheInv, update_dlp
    <2>2. CASE d \notin ToSet(cache)
      BY <2>2, PrependProperties DEF CacheInv, update_dlp
    <2> QED
      BY <2>1, <2>2
  <1>2. discovered' \subseteq DC /\ dlp' \in [DC -> SUBSET TID]
    BY DEF CacheInv, update_dlp
  <1>3. ASSUME NEW e \in DC, e \notin ToSet(cache') PROVE dlp'[e] = {}
    BY <1>1, <1>3 DEF CacheInv, update_dlp
  <1> QED
    BY <1>1, <1>2, <1>3 DEF CacheInv, ToSet

(* inventory_forget_dc() drops the entry with the page. *)
LEMMA ForgetDcStep ==
  ASSUME CacheInv, NEW d \in DC, forget_dc(d)
  PROVE  CacheInv'
PROOF
  <1>1. /\ cache' \in Seq(DC) /\ IsInjective(cache')
        /\ ToSet(cache') = ToSet(cache) \ {d}
    BY RemoveFirstProperties DEF CacheInv, forget_dc
  <1>2. discovered' \subseteq DC /\ dlp' \in [DC -> SUBSET TID]
    BY DEF CacheInv, forget_dc
  <1>3. ASSUME NEW e \in DC, e \notin ToSet(cache') PROVE dlp'[e] = {}
    BY <1>1, <1>3 DEF CacheInv, forget_dc
  <1> QED
    BY <1>1, <1>2, <1>3 DEF CacheInv, ToSet

(* The other operations leave the cache alone. *)
LEMMA CacheUnchanged ==
  ASSUME CacheInv, UNCHANGED <<cache, dlp>>, discovered' \subseteq DC
  PROVE  CacheInv'
  BY DEF CacheInv, ToSet

(* inventory_load_config() counts exactly the lookups it starts. *)
LEMMA LoadConfigStep ==
  ASSUME NEW c \in Confs, NEW failed \in SUBSET TID, load_config(c, failed)
  PROVE  LookupInv'
PROOF
  <1>1. c.num \subseteq TID /\ c.name \subseteq TID
    BY InventoryAssumption DEF InventoryAssumption
  <1>2. ASSUME NEW t \in TID
        PROVE  /\ lookup'[t] \in LookupState
               /\ lookup'[t] = "first" <=> t \in c.name \ failed
    <2>1. lookup'[t] = CASE t \in c.name \ failed -> "first"
                         [] t \in c.name \cap failed -> "wait"
                         [] OTHER -> "none"
      BY DEF load_config
    <2>2. CASE t \in c.name \ failed
      <3>1. lookup'[t] = "first"
        BY <2>1, <2>2, Zenon
      <3> QED
        BY <2>2, <3>1 DEF LookupState
    <2>3. CASE t \in c.name \cap failed
      <3>1. lookup'[t] = "wait"
        BY <2>1, <2>3, Zenon
      <3> QED
        BY <2>3, <3>1 DEF LookupState
    <2>4. CASE t \notin c.name
      <3>1. lookup'[t] = "none"
        BY <2>1, <2>4, Zenon
      <3> QED
        BY <2>4, <3>1 DEF LookupState
    <2> QED
      BY <2>2, <2>3, <2>4
  <1>3. lookup' \in [TID -> LookupState]
    <2>1. lookup' = [t \in TID |-> lookup'[t]]
      BY Zenon DEF load_config
    <2> QED
      BY <1>2, <2>1
  <1>4. {t \in TID : lookup'[t] = "first"} = c.name \ failed
    BY <1>1, <1>2
  <1>5. nr_first' = Cardinality(c.name \ failed) /\ cfg' = c.num
    BY DEF load_config
  <1> QED
    BY <1>1, <1>3, <1>4, <1>5 DEF LookupInv, FirstLookupsCounted

(* on_lookup() takes back the count of a first lookup, once. *)
LEMMA OnLookupStep ==
  ASSUME LookupInv, NEW t \in TID, NEW resolved \in BOOLEAN, on_lookup(t, resolved)
  PROVE  LookupInv'
PROOF
  <1> DEFINE F == {u \in TID : lookup[u] = "first"}
             after == IF resolved THEN "none" ELSE "wait"
  <1>1. after \in LookupState \ {"first"}
    BY DEF LookupState
  <1>2. lookup' = [lookup EXCEPT ![t] = after]
    BY DEF on_lookup
  <1>3. cfg' \subseteq TID
    BY DEF LookupInv, on_lookup
  <1> HIDE DEF after
  <1>4. lookup' \in [TID -> LookupState]
    BY <1>1, <1>2 DEF LookupInv
  <1>5. {u \in TID : lookup'[u] = "first"} = F \ {t}
    BY <1>1, <1>2 DEF LookupInv
  <1>6. IsFiniteSet(F) /\ nr_first = Cardinality(F)
    <2>1. F \in SUBSET TID
      OBVIOUS
    <2> QED
      BY <2>1, FirstLookupsFinite DEF LookupInv, FirstLookupsCounted
  <1>7. Cardinality(F \ {t}) = IF t \in F THEN Cardinality(F) - 1 ELSE Cardinality(F)
    <2> HIDE DEF F
    <2> QED
      BY <1>6, FS_RemoveElement
  <1>8. nr_first' = Cardinality(F \ {t})
    BY <1>6, <1>7 DEF on_lookup
  <1> QED
    BY <1>3, <1>4, <1>5, <1>8 DEF LookupInv, FirstLookupsCounted

(* A retry is never a first lookup. *)
LEMMA RetryLookupStep ==
  ASSUME LookupInv, NEW t \in TID, retry_lookup(t)
  PROVE  LookupInv'
PROOF
  <1>1. lookup' \in [TID -> LookupState] /\ cfg' \subseteq TID
    BY DEF LookupInv, retry_lookup, LookupState
  <1>2. {u \in TID : lookup'[u] = "first"} = {u \in TID : lookup[u] = "first"}
    BY DEF LookupInv, retry_lookup
  <1> QED
    BY <1>1, <1>2 DEF LookupInv, FirstLookupsCounted, retry_lookup

(* The other operations leave the lookups alone. *)
LEMMA LookupUnchanged ==
  ASSUME LookupInv, UNCHANGED <<cfg, lookup, nr_first>>
  PROVE  LookupInv'
  BY DEF LookupInv, FirstLookupsCounted

(* InventoryInv is inductive. *)
THEOREM Invariance == InventorySpec => []InventoryInv
PROOF
  <1>1. InventoryInit => InventoryInv
    BY EmptyInventory DEF InventoryInit
  <1>2. InventoryInv /\ [InventoryNext]_inventory => InventoryInv'
    <2> SUFFICES ASSUME CacheInv, LookupInv, [InventoryNext]_inventory
                 PROVE  CacheInv' /\ LookupInv'
      BY DEF InventoryInv
    <2>1. ASSUME NEW d \in DC, NEW log \in Pages[d], update_dlp(d, log)
          PROVE  CacheInv' /\ LookupInv'
      <3>1. log \in SUBSET TID
        BY InventoryAssumption DEF InventoryAssumption
      <3> QED
        BY <2>1, <3>1, UpdateDlpStep, LookupUnchanged DEF update_dlp
    <2>2. ASSUME NEW d \in DC, add_discovered_dc(d)
          PROVE  CacheInv' /\ LookupInv'
      <3>1. discovered' \subseteq DC
        BY <2>2 DEF add_discovered_dc, CacheInv
      <3> QED
        BY <2>2, <3>1, CacheUnchanged, LookupUnchanged DEF add_discovered_dc
    <2>3. ASSUME NEW d \in DC, forget_dc(d)
          PROVE  CacheInv' /\ LookupInv'
      BY <2>3, ForgetDcStep, LookupUnchanged DEF forget_dc
    <2>4. ASSUME NEW c \in Confs, NEW failed \in SUBSET TID, load_config(c, failed),
                 UNCHANGED <<discovered, cache, dlp>>
          PROVE  CacheInv' /\ LookupInv'
      <3>1. discovered' \subseteq DC
        BY <2>4 DEF CacheInv
      <3> QED
        BY <2>4, <3>1, LoadConfigStep, CacheUnchanged
    <2>5. ASSUME NEW t \in TID, NEW resolved \in BOOLEAN, on_lookup(t, resolved)
          PROVE  CacheInv' /\ LookupInv'
      <3>1. discovered' \subseteq DC /\ UNCHANGED <<cache, dlp>>
        BY <2>5 DEF CacheInv, on_lookup
      <3> QED
        BY <2>5, <3>1, OnLookupStep, CacheUnchanged
    <2>6. ASSUME NEW t \in TID, retry_lookup(t)
          PROVE  CacheInv' /\ LookupInv'
      <3>1. discovered' \subseteq DC /\ UNCHANGED <<cache, dlp>>
        BY <2>6 DEF CacheInv, retry_lookup
      <3> QED
        BY <2>6, <3>1, RetryLookupStep, CacheUnchanged
    <2>7. CASE UNCHANGED inventory
      <3>1. discovered' \subseteq DC
        BY <2>7 DEF CacheInv, inventory
      <3> QED
        BY <2>7, <3>1, CacheUnchanged, LookupUnchanged DEF inventory
    <2> QED
      BY <2>1, <2>2, <2>3, <2>4, <2>5, <2>6, <2>7 DEF InventoryNext
  <1> QED
    BY <1>1, <1>2, PTL DEF InventorySpec

(* For any number of DCs, any limit and any log pages, with any loops and  *)
(* diamonds: hops() finds the fewest referrals to each DC, and -1 exactly  *)
(* where no chain within the limit leads.                                  *)
THEOREM HopsAreCorrect == InventorySpec => []HopsAreShortest
PROOF
  <1>1. InventoryInv => HopsAreShortest
    BY HopsCorrect DEF InventoryInv
  <1> QED
    BY <1>1, Invariance, PTL

(* A TID is desired exactly when a source names it or a chain within the   *)
(* limit leads to a DC that lists it: nothing stays desired through a DC   *)
(* that lost its source.                                                   *)
THEOREM DesiredIsReachable == InventorySpec => []DesiredByChain
PROOF
  <1>1. InventoryInv => DesiredByChain
    BY DesiredIsChained DEF InventoryInv, LookupInv
  <1> QED
    BY <1>1, Invariance, PTL

(* Every desired TID can be saved with a source, and the parent that       *)
(* inventory_source() names is desired and lists it.                       *)
THEOREM SourcesExplain == InventorySpec => []SourceExplains
PROOF
  <1>1. InventoryInv => SourceExplains
    BY SourceIsExplained DEF InventoryInv, LookupInv
  <1> QED
    BY <1>1, Invariance, PTL

(* nr_first_lookups is the number of first lookups that run, through any   *)
(* sequence of reloads, answers and retries; it never goes below zero. The *)
(* types, and a cache without duplicates, are part of the theorem.         *)
THEOREM LookupsAreCounted == InventorySpec => [](InventoryTypeOK /\ FirstLookupsCounted)
PROOF
  <1>1. InventoryInv => InventoryTypeOK /\ FirstLookupsCounted
    BY InventoryInvType DEF InventoryInv, LookupInv
  <1> QED
    BY <1>1, Invariance, PTL

================================================================================
