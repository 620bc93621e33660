------------------------------ MODULE MdnsProofs ------------------------------
(***************************************************************************)
(* Proofs about mDNS discovery (Mdns)                                      *)
(*                                                                         *)
(* TypeOK relates the browse calls to the interfaces and the checks to the *)
(* endpoints, and is not inductive: IInv adds that a call is linked only   *)
(* while its browse exists, that an instance without state has no check,   *)
(* and that no event is left when mDNS is stopped.  Without the last one   *)
(* net_monitor_handler() would open browses of a stopped mDNS.             *)
(***************************************************************************)
EXTENDS Mdns, FiniteSetTheorems, SequenceTheorems, TLAPS

(* The reachability checks of an instance. *)
Checks == UNION {[S -> 0..MaxIdx] : S \in SUBSET Tcp}

(* What is known of an instance. *)
Inst == [st : {"none", "asked", "answered", "service"}, eps : SUBSET Ep, checks : Checks]

(* A browse. *)
BrowseRecord == [open : BOOLEAN, link : BOOLEAN, sec : 1..MaxDelay, inst : [Name -> Inst]]

(* A reply of a browse call. *)
ReplyRecord == [k : {"added", "removed"}, n : Name] \cup [k : {"end"}]

(* An endpoint is not reported while it is checked, and what is not Nothing *)
(* belongs to an open call.                                                *)
InstInv(s, link) ==
    /\ DOMAIN s.checks \subseteq Tcp \ s.eps
    /\ s.st # "none" => link
    /\ s.st = "none" => DOMAIN s.checks = {}

(* A call is linked only while its browse exists. *)
BrowseInv(br) ==
    /\ br.link => br.open
    /\ \A n \in Name : InstInv(br.inst[n], br.link)

(* There is a browse for each tracked interface and service type. *)
OpenInv == \A b \in Browse : browse[b].open <=> on /\ b[1] \in tracked

(* The browses. *)
BrowseType == browse \in [Browse -> BrowseRecord] /\ \A b \in Browse : BrowseInv(browse[b])

(* The events and the replies that are on their way. *)
QueueType ==
    /\ events \in Seq([i : If, removed : BOOLEAN])
    /\ calls \in [Browse -> Seq(ReplyRecord)]

(* All that is not a browse or a queue. *)
OtherType ==
    /\ on \in BOOLEAN /\ up \in BOOLEAN
    /\ tracked \subseteq If
    /\ iface \in [If -> {"absent", "down", "up"}]
    /\ adv \in [Browse -> [Name -> Ads \cup {{}}]]
    /\ listening \subseteq Tcp
    /\ changes \in 0..MaxChange /\ stops \in 0..MaxStop

(* No event is left when mDNS is stopped. *)
EventsInv == events # <<>> => on

(* The inductive invariant. *)
IInv == OtherType /\ QueueType /\ BrowseType /\ OpenInv /\ EventsInv

(* No checks. *)
LEMMA EmptyChecks == <<>> \in Checks /\ DOMAIN <<>> = {}
PROOF
  <1>1. <<>> \in Seq(0..MaxIdx) /\ Len(<<>>) = 0
    BY EmptySeq
  <1>2. <<>> \in [1..0 -> 0..MaxIdx] /\ DOMAIN <<>> = 1..0
    BY <1>1, LenProperties
  <1>3. 1..0 = {}
    OBVIOUS
  <1>4. <<>> \in [{} -> 0..MaxIdx]
    BY <1>2, <1>3
  <1> QED
    BY <1>2, <1>3, <1>4 DEF Checks

(* The states of an instance without a service. *)
LEMMA NothingType ==
    /\ Nothing \in Inst /\ Asked \in Inst
    /\ Nothing.st = "none" /\ Asked.st = "asked"
    /\ DOMAIN Nothing.checks = {} /\ DOMAIN Asked.checks = {}
    /\ \A eps \in SUBSET Ep : /\ Answered(eps) \in Inst
                              /\ DOMAIN Answered(eps).checks = {}
  BY EmptyChecks DEF Nothing, Asked, Answered, Inst

(* The restart delay stays between 1 and BROWSE_RESTART_MAX_SEC. *)
LEMMA DoubledType ==
  ASSUME NEW sec \in 1..MaxDelay
  PROVE  Doubled(sec) \in 1..MaxDelay
PROOF
  <1> DEFINE S == {2 * sec, MaxDelay}
  <1>1. MaxDelay \in Nat \ {0}
    BY MdnsAssumption DEF MdnsAssumption
  <1>2. \E x \in S : \A y \in S : x =< y
    BY <1>1
  <1>3. Min(S) \in S /\ \A y \in S : Min(S) =< y
    <2> HIDE DEF S
    <2> QED
      BY <1>2, Zenon DEF Min
  <1>4. Min(S) \in {2 * sec, MaxDelay} /\ Min(S) =< MaxDelay
    BY <1>3
  <1> HIDE DEF S
  <1> QED
    BY <1>1, <1>4 DEF Doubled, S

(* A new call is told a finite list of instances. *)
LEMMA FoundType ==
  ASSUME NEW b \in Browse
  PROVE  Found(b) \in Seq(ReplyRecord)
PROOF
  <1> DEFINE there == {n \in Name : adv[b][n] # {}}
             f == [n \in there |-> [k |-> "added", n |-> n]]
             S == {[k |-> "added", n |-> n] : n \in there}
  <1>1. IsFiniteSet(there)
    <2>1. there \in SUBSET Name
      OBVIOUS
    <2> HIDE DEF there
    <2> QED
      BY <2>1, FS_Subset, MdnsAssumption DEF MdnsAssumption
  <1>2. S \subseteq ReplyRecord
    BY DEF ReplyRecord
  <1>3. f \in Surjection(there, S)
    BY DEF Surjection
  <1> HIDE DEF there, f, S
  <1>4. IsFiniteSet(S)
    BY <1>1, <1>3, FS_Surjection
  <1>5. Cardinality(S) \in Nat /\ \E g \in [1..Cardinality(S) -> S] : IsInjective(g)
    BY <1>4, FS_CardinalityType DEF ExistsBijection, Bijection, Injection
  <1>6. SetToSeq(S) \in [1..Cardinality(S) -> S]
    BY <1>5, Zenon DEF SetToSeq
  <1>7. SetToSeq(S) \in Seq(S)
    BY <1>5, <1>6
  <1>8. Found(b) = SetToSeq(S)
    BY DEF Found, S, there
  <1> QED
    BY <1>2, <1>7, <1>8, SeqMonotonic

(* A browse that is not open satisfies the invariant. *)
LEMMA NoBrowseType ==
    /\ NoBrowse \in BrowseRecord /\ BrowseInv(NoBrowse)
    /\ NoBrowse.open = FALSE /\ NoBrowse.link = FALSE
    /\ \A n \in Name : NoBrowse.inst[n] = Nothing
  BY NothingType, MdnsAssumption
     DEF NoBrowse, BrowseRecord, BrowseInv, InstInv, MdnsAssumption

(* A step that changes the state of one instance. *)
LEMMA SetInstStep ==
  ASSUME BrowseType, OpenInv, NEW b \in Browse, NEW n \in Name,
         NEW s \in Inst, InstInv(s, browse[b].link), SetInst(b, n, s),
         UNCHANGED <<on, tracked>>
  PROVE  BrowseType' /\ OpenInv'
PROOF
  <1> DEFINE br == [browse[b] EXCEPT !.inst = [browse[b].inst EXCEPT ![n] = s]]
  <1>1. browse' = [browse EXCEPT ![b] = br]
    BY DEF SetInst
  <1>2. browse[b] \in BrowseRecord /\ BrowseInv(browse[b])
    BY DEF BrowseType
  <1>3. /\ br \in BrowseRecord /\ br.open = browse[b].open /\ br.link = browse[b].link
        /\ br.inst = [browse[b].inst EXCEPT ![n] = s]
    BY <1>2 DEF BrowseRecord
  <1> HIDE DEF br
  <1>4. BrowseInv(br)
    BY <1>2, <1>3 DEF BrowseInv, BrowseRecord
  <1>5. BrowseType'
    BY <1>1, <1>3, <1>4 DEF BrowseType
  <1>6. OpenInv'
    BY <1>1, <1>3 DEF OpenInv, BrowseType
  <1> QED
    BY <1>5, <1>6

(* browse_connect() of a browse that knows nothing. *)
LEMMA ConnectType ==
  ASSUME NEW br \in BrowseRecord, br.open, \A n \in Name : br.inst[n] = Nothing
  PROVE  /\ browse_connect(br) \in BrowseRecord
         /\ BrowseInv(browse_connect(br))
         /\ browse_connect(br).open = br.open
PROOF
  <1>1. Doubled(br.sec) \in 1..MaxDelay
    BY DoubledType DEF BrowseRecord
  <1>2. CASE up
    <2> DEFINE r == [br EXCEPT !.link = TRUE]
    <2>1. r \in BrowseRecord /\ r.open = br.open /\ r.inst = br.inst
      BY DEF BrowseRecord
    <2>2. browse_connect(br) = r
      BY <1>2 DEF browse_connect
    <2> HIDE DEF r
    <2> QED
      BY <2>1, <2>2, NothingType DEF BrowseInv, InstInv
  <1>3. CASE ~up
    <2> DEFINE d == Doubled(br.sec)
               r == [br EXCEPT !.link = FALSE, !.sec = d]
    <2>1. browse_connect(br) = r
      BY <1>3 DEF browse_connect
    <2> HIDE DEF d
    <2>2. r \in BrowseRecord /\ r.open = br.open /\ r.inst = br.inst
      BY <1>1 DEF BrowseRecord, d
    <2> HIDE DEF r
    <2> QED
      BY <2>1, <2>2, NothingType DEF BrowseInv, InstInv
  <1> QED
    BY <1>2, <1>3

(* browse_start() opens the browses bs. *)
LEMMA StartStep ==
  ASSUME BrowseType, QueueType, NEW bs \in SUBSET Browse, browse_start(bs)
  PROVE  /\ BrowseType'
         /\ calls' \in [Browse -> Seq(ReplyRecord)]
         /\ \A b \in Browse : browse'[b].open = (b \in bs \/ browse[b].open)
PROOF
  <1> DEFINE nb == [NoBrowse EXCEPT !.open = TRUE]
             r == browse_connect(nb)
  <1>1. nb \in BrowseRecord /\ nb.open = TRUE /\ \A n \in Name : nb.inst[n] = Nothing
    BY NoBrowseType DEF BrowseRecord
  <1> HIDE DEF nb
  <1>2. r \in BrowseRecord /\ BrowseInv(r) /\ r.open = TRUE
    BY <1>1, ConnectType
  <1>3. browse' = [b \in Browse |-> IF b \in bs THEN r ELSE browse[b]]
    BY DEF browse_start, nb
  <1> HIDE DEF r
  <1>4. BrowseType'
    BY <1>2, <1>3 DEF BrowseType
  <1>5. calls' \in [Browse -> Seq(ReplyRecord)]
    <2>1. <<>> \in Seq(ReplyRecord)
      BY EmptySeq
    <2>2. \A b \in Browse : Found(b) \in Seq(ReplyRecord)
      BY FoundType
    <2> QED
      BY <2>1, <2>2 DEF browse_start, QueueType
  <1>6. ASSUME NEW b \in Browse
        PROVE  browse'[b].open = (b \in bs \/ browse[b].open)
    <2>1. CASE b \in bs
      BY <1>2, <1>3, <2>1
    <2>2. CASE b \notin bs
      <3>1. browse'[b] = browse[b] /\ browse[b].open \in BOOLEAN
        BY <1>3, <2>2 DEF BrowseType, BrowseRecord
      <3> QED
        BY <2>2, <3>1, Zenon
    <2> QED
      BY <2>1, <2>2
  <1> QED
    BY <1>4, <1>5, <1>6

(* browse_free() closes the browses bs. *)
LEMMA FreeStep ==
  ASSUME BrowseType, QueueType, NEW bs \in SUBSET Browse, browse_free(bs)
  PROVE  /\ BrowseType'
         /\ calls' \in [Browse -> Seq(ReplyRecord)]
         /\ \A b \in Browse : browse'[b].open = (b \notin bs /\ browse[b].open)
PROOF
  <1>1. browse' = [b \in Browse |-> IF b \in bs THEN NoBrowse ELSE browse[b]]
    BY DEF browse_free
  <1>2. BrowseType'
    BY <1>1, NoBrowseType DEF BrowseType
  <1>3. calls' \in [Browse -> Seq(ReplyRecord)]
    <2>1. <<>> \in Seq(ReplyRecord)
      BY EmptySeq
    <2> QED
      BY <2>1 DEF browse_free, QueueType
  <1>4. ASSUME NEW b \in Browse
        PROVE  browse'[b].open = (b \notin bs /\ browse[b].open)
    <2>1. CASE b \in bs
      BY <1>1, <2>1, NoBrowseType
    <2>2. CASE b \notin bs
      <3>1. browse'[b] = browse[b] /\ browse[b].open \in BOOLEAN
        BY <1>1, <2>2 DEF BrowseType, BrowseRecord
      <3> QED
        BY <2>2, <3>1, Zenon
    <2> QED
      BY <2>1, <2>2
  <1> QED
    BY <1>2, <1>3, <1>4

(* A step that leaves all but the browses and the queues alone. *)
LEMMA OtherUnchanged ==
  ASSUME OtherType, UNCHANGED <<on, up, tracked, network, stops>>
  PROVE  OtherType'
  BY DEF OtherType, network

(* A restarted call knows nothing, as its predecessor was disconnected. *)
LEMMA RestartStep ==
  ASSUME IInv, NEW b \in Browse, browse_restart(b)
  PROVE  IInv'
PROOF
  <1> DEFINE c == browse_connect(browse[b])
             r == IF up THEN [c EXCEPT !.sec = 1] ELSE c
  <1>1. browse' = [browse EXCEPT ![b] = r] /\ UNCHANGED <<on, up, tracked, network, stops, events>>
    BY DEF browse_restart
  <1>2. browse[b] \in BrowseRecord /\ BrowseInv(browse[b]) /\ browse[b].link = FALSE
    BY DEF IInv, BrowseType, browse_restart, BrowseRecord
  <1>3. \A n \in Name : browse[b].inst[n].st = "none"
    BY <1>2 DEF BrowseInv, InstInv, BrowseRecord, Inst
  <1>4. /\ c \in BrowseRecord /\ c.open = browse[b].open /\ c.inst = browse[b].inst
    <2>1. Doubled(browse[b].sec) \in 1..MaxDelay
      BY <1>2, DoubledType DEF BrowseRecord
    <2> DEFINE d == Doubled(browse[b].sec)
    <2> HIDE DEF d
    <2>2. /\ [browse[b] EXCEPT !.link = TRUE] \in BrowseRecord
          /\ [browse[b] EXCEPT !.link = TRUE].open = browse[b].open
          /\ [browse[b] EXCEPT !.link = TRUE].inst = browse[b].inst
      BY <1>2 DEF BrowseRecord
    <2>3. /\ [browse[b] EXCEPT !.link = FALSE, !.sec = d] \in BrowseRecord
          /\ [browse[b] EXCEPT !.link = FALSE, !.sec = d].open = browse[b].open
          /\ [browse[b] EXCEPT !.link = FALSE, !.sec = d].inst = browse[b].inst
      BY <1>2, <2>1 DEF BrowseRecord, d
    <2>4. c \in {[browse[b] EXCEPT !.link = TRUE], [browse[b] EXCEPT !.link = FALSE, !.sec = d]}
      BY DEF browse_connect, d
    <2> HIDE DEF c
    <2> QED
      BY <2>2, <2>3, <2>4
  <1> HIDE DEF c
  <1>5. r \in BrowseRecord /\ r.open = browse[b].open /\ r.inst = browse[b].inst
    <2>1. 1 \in 1..MaxDelay
      BY MdnsAssumption DEF MdnsAssumption
    <2>2. /\ [c EXCEPT !.sec = 1] \in BrowseRecord
          /\ [c EXCEPT !.sec = 1].open = c.open
          /\ [c EXCEPT !.sec = 1].inst = c.inst
      BY <1>4, <2>1 DEF BrowseRecord
    <2> QED
      BY <1>4, <2>2
  <1> HIDE DEF r
  <1>6. BrowseInv(r)
    <2>1. r.open
      BY <1>5 DEF browse_restart
    <2> QED
      BY <1>2, <1>3, <1>5, <2>1 DEF BrowseInv, InstInv
  <1>7. BrowseType'
    BY <1>1, <1>5, <1>6 DEF IInv, BrowseType
  <1>8. OpenInv'
    BY <1>1, <1>5 DEF IInv, OpenInv, BrowseType
  <1>9. QueueType'
    <2>1. <<>> \in Seq(ReplyRecord) /\ Found(b) \in Seq(ReplyRecord)
      BY EmptySeq, FoundType
    <2> QED
      BY <1>1, <2>1 DEF browse_restart, IInv, QueueType
  <1> QED
    BY <1>1, <1>7, <1>8, <1>9, OtherUnchanged DEF IInv, EventsInv

(* The first reply of a call. *)
LEMMA HeadReply ==
  ASSUME QueueType, NEW b \in Browse, NEW k, Reply(b, k)
  PROVE  /\ Head(calls[b]) \in ReplyRecord /\ Head(calls[b]).k = k
         /\ [calls EXCEPT ![b] = Tail(@)] \in [Browse -> Seq(ReplyRecord)]
         /\ k # "end" => Head(calls[b]).n \in Name
PROOF
  <1>1. calls[b] \in Seq(ReplyRecord) /\ calls[b] # <<>>
    BY DEF QueueType, Reply
  <1>2. Head(calls[b]) \in ReplyRecord /\ Tail(calls[b]) \in Seq(ReplyRecord)
    BY <1>1, HeadTailProperties
  <1>3. Head(calls[b]).k = k
    BY DEF Reply
  <1>4. k # "end" => Head(calls[b]).n \in Name
    BY <1>2, <1>3 DEF ReplyRecord
  <1>5. [calls EXCEPT ![b] = Tail(@)] \in [Browse -> Seq(ReplyRecord)]
    BY <1>2 DEF QueueType
  <1> QED
    BY <1>2, <1>3, <1>4, <1>5

(* A callback that changes one instance keeps the invariant. *)
LEMMA InstStep ==
  ASSUME IInv, NEW b \in Browse, NEW n \in Name,
         NEW s \in Inst, InstInv(s, browse[b].link), SetInst(b, n, s),
         UNCHANGED <<on, up, tracked, network, stops, events>>,
         calls' \in [Browse -> Seq(ReplyRecord)]
  PROVE  IInv'
PROOF
  <1>1. BrowseType' /\ OpenInv'
    BY SetInstStep DEF IInv
  <1>2. OtherType'
    BY OtherUnchanged DEF IInv
  <1>3. QueueType' /\ EventsInv'
    BY DEF IInv, QueueType, EventsInv
  <1> QED
    BY <1>1, <1>2, <1>3 DEF IInv

(* The invariant of one instance. *)
LEMMA InstOf ==
  ASSUME IInv, NEW b \in Browse, NEW n \in Name
  PROVE  browse[b].inst[n] \in Inst /\ InstInv(browse[b].inst[n], browse[b].link)
  BY DEF IInv, BrowseType, BrowseInv, BrowseRecord

(* An instance of which nothing is known needs no open call. *)
LEMMA NothingInv ==
  ASSUME NEW link
  PROVE  InstInv(Nothing, link)
  BY NothingType DEF InstInv

(* service_added() *)
LEMMA AddedStep ==
  ASSUME IInv, NEW b \in Browse, service_added(b)
  PROVE  IInv'
PROOF
  <1> DEFINE n == Head(calls[b]).n
             s == IF browse[b].inst[n] = Nothing /\ up THEN Asked ELSE browse[b].inst[n]
  <1>1. /\ n \in Name
        /\ [calls EXCEPT ![b] = Tail(@)] \in [Browse -> Seq(ReplyRecord)]
    BY HeadReply DEF IInv, service_added
  <1>2. SetInst(b, n, s) /\ browse[b].link
    BY DEF service_added, Reply
  <1>3. UNCHANGED <<on, up, tracked, network, stops, events>>
    BY DEF service_added
  <1>4. calls' \in [Browse -> Seq(ReplyRecord)]
    BY <1>1 DEF service_added
  <1> HIDE DEF n
  <1>5. s \in Inst /\ InstInv(s, browse[b].link)
    BY <1>1, <1>2, InstOf, NothingType DEF InstInv
  <1> HIDE DEF s
  <1> QED
    BY <1>1, <1>2, <1>3, <1>4, <1>5, InstStep

(* service_removed() *)
LEMMA RemovedStep ==
  ASSUME IInv, NEW b \in Browse, service_removed(b)
  PROVE  IInv'
PROOF
  <1> DEFINE n == Head(calls[b]).n
             s == IF browse[b].inst[n].st = "service" THEN Removed(browse[b].inst[n])
                  ELSE browse[b].inst[n]
  <1>1. /\ n \in Name
        /\ [calls EXCEPT ![b] = Tail(@)] \in [Browse -> Seq(ReplyRecord)]
    BY HeadReply DEF IInv, service_removed
  <1>2. SetInst(b, n, s)
    BY DEF service_removed
  <1>3. UNCHANGED <<on, up, tracked, network, stops, events>>
    BY DEF service_removed
  <1>4. calls' \in [Browse -> Seq(ReplyRecord)]
    BY <1>1 DEF service_removed
  <1> HIDE DEF n
  <1>5. s \in Inst /\ InstInv(s, browse[b].link)
    BY <1>1, InstOf, NothingType, NothingInv DEF Removed
  <1> HIDE DEF s
  <1> QED
    BY <1>1, <1>2, <1>3, <1>4, <1>5, InstStep

(* The end of a call frees what it knew. *)
LEMMA EndStep ==
  ASSUME IInv, NEW b \in Browse, browse_end(b)
  PROVE  IInv'
PROOF
  <1> DEFINE d == Doubled(browse[b].sec)
             r == [NoBrowse EXCEPT !.open = TRUE, !.sec = d]
  <1>1. browse' = [browse EXCEPT ![b] = r]
    BY DEF browse_end
  <1>2. UNCHANGED <<on, up, tracked, network, stops, events>>
    BY DEF browse_end
  <1>3. d \in 1..MaxDelay
    BY DoubledType DEF IInv, BrowseType, BrowseRecord
  <1> HIDE DEF d
  <1>4. r \in BrowseRecord /\ r.open = TRUE /\ r.inst = NoBrowse.inst /\ r.link = FALSE
    BY <1>3, NoBrowseType DEF BrowseRecord
  <1> HIDE DEF r
  <1>5. BrowseInv(r)
    BY <1>4, NoBrowseType, NothingInv DEF BrowseInv
  <1>6. browse[b].open = TRUE
    <2>1. browse[b].link
      BY DEF browse_end, Reply
    <2> QED
      BY <2>1 DEF IInv, BrowseInv, BrowseType, BrowseRecord
  <1>7. BrowseType'
    BY <1>1, <1>4, <1>5 DEF IInv, BrowseType
  <1>8. OpenInv'
    BY <1>1, <1>2, <1>4, <1>6 DEF IInv, OpenInv, BrowseType
  <1>9. QueueType' /\ EventsInv'
    <2>1. <<>> \in Seq(ReplyRecord)
      BY EmptySeq
    <2> QED
      BY <1>2, <2>1 DEF browse_end, IInv, QueueType, EventsInv
  <1> QED
    BY <1>2, <1>7, <1>8, <1>9, OtherUnchanged DEF IInv

(* add_endpoints(): what is checked is not reported. *)
LEMMA ReplyStep ==
  ASSUME IInv, NEW b \in Browse, NEW n \in Name, resolve_reply_cb(b, n)
  PROVE  IInv'
PROOF
  <1> DEFINE eps == browse[b].inst[n].eps
             f == [e \in eps \cap Tcp |-> 0]
             s == IF eps = {} THEN Nothing ELSE Service(eps \ Tcp, f)
  <1>1. SetInst(b, n, s) /\ UNCHANGED <<on, up, tracked, network, stops, events, calls>>
    BY DEF resolve_reply_cb
  <1>2. eps \in SUBSET Ep /\ browse[b].link
    BY InstOf DEF InstInv, Inst, resolve_reply_cb
  <1>3. f \in Checks /\ DOMAIN f = eps \cap Tcp
    <2>1. 0 \in 0..MaxIdx
      BY MdnsAssumption DEF MdnsAssumption
    <2>2. f \in [eps \cap Tcp -> 0..MaxIdx]
      BY <2>1
    <2> HIDE DEF f
    <2> QED
      BY <2>2 DEF Checks
  <1> HIDE DEF eps, f
  <1>4. Service(eps \ Tcp, f) \in Inst /\ InstInv(Service(eps \ Tcp, f), browse[b].link)
    BY <1>2, <1>3 DEF Service, Inst, InstInv
  <1>5. s \in Inst /\ InstInv(s, browse[b].link)
    BY <1>4, NothingType, NothingInv
  <1>6. calls' \in [Browse -> Seq(ReplyRecord)]
    BY <1>1 DEF IInv, QueueType
  <1> HIDE DEF s
  <1> QED
    BY <1>1, <1>5, <1>6, InstStep

(* tcp_check_succeeded(): a reported endpoint is not checked any more. *)
LEMMA SucceededStep ==
  ASSUME IInv, NEW b \in Browse, NEW n \in Name, NEW e \in Tcp, tcp_check_succeeded(b, n, e)
  PROVE  IInv'
PROOF
  <1> DEFINE o == browse[b].inst[n]
             f == [x \in DOMAIN o.checks \ {e} |-> o.checks[x]]
             s == Service(o.eps \cup {e}, f)
  <1>1. SetInst(b, n, s) /\ UNCHANGED <<on, up, tracked, network, stops, events, calls>>
    BY DEF tcp_check_succeeded
  <1>2. o \in Inst /\ InstInv(o, browse[b].link) /\ e \in DOMAIN o.checks
    BY InstOf DEF tcp_check_succeeded
  <1> HIDE DEF o
  <1>3. browse[b].link
    BY <1>2 DEF InstInv
  <1>4. f \in Checks /\ DOMAIN f = DOMAIN o.checks \ {e}
    <2>1. PICK S \in SUBSET Tcp : o.checks \in [S -> 0..MaxIdx]
      BY <1>2 DEF Inst, Checks
    <2>2. f \in [S \ {e} -> 0..MaxIdx] /\ S \ {e} \in SUBSET Tcp
      BY <2>1
    <2> HIDE DEF f
    <2> QED
      BY <2>1, <2>2 DEF Checks
  <1> HIDE DEF f
  <1>5. s \in Inst /\ InstInv(s, browse[b].link)
    <2>1. e \in Ep
      BY MdnsAssumption DEF MdnsAssumption
    <2> QED
      BY <1>2, <1>3, <1>4, <2>1 DEF Service, Inst, InstInv
  <1>6. calls' \in [Browse -> Seq(ReplyRecord)]
    BY <1>1 DEF IInv, QueueType
  <1> HIDE DEF s
  <1> QED
    BY <1>1, <1>5, <1>6, InstStep

(* tcp_check_schedule_retry(): the index stays within tcp_check_retry_sec. *)
LEMMA RetryStep ==
  ASSUME IInv, NEW b \in Browse, NEW n \in Name, NEW e \in Tcp, tcp_check_retry(b, n, e)
  PROVE  IInv'
PROOF
  <1> DEFINE o == browse[b].inst[n]
             f == [o.checks EXCEPT ![e] = NextIdx(@)]
             s == [o EXCEPT !.checks = f]
  <1>1. SetInst(b, n, s) /\ UNCHANGED <<on, up, tracked, network, stops, events, calls>>
    BY DEF tcp_check_retry
  <1>2. o \in Inst /\ InstInv(o, browse[b].link) /\ e \in DOMAIN o.checks
    BY InstOf DEF tcp_check_retry
  <1> HIDE DEF o
  <1>3. f \in Checks /\ DOMAIN f = DOMAIN o.checks
    <2>1. PICK S \in SUBSET Tcp : o.checks \in [S -> 0..MaxIdx]
      BY <1>2 DEF Inst, Checks
    <2>2. NextIdx(o.checks[e]) \in 0..MaxIdx
      BY <1>2, <2>1, MdnsAssumption DEF NextIdx, MdnsAssumption
    <2>3. f \in [S -> 0..MaxIdx]
      BY <2>1, <2>2
    <2> HIDE DEF f
    <2> QED
      BY <2>1, <2>3 DEF Checks
  <1> HIDE DEF f
  <1>4. s \in Inst /\ s.st = o.st /\ s.eps = o.eps /\ s.checks = f
    BY <1>2, <1>3 DEF Inst
  <1> HIDE DEF s
  <1>5. InstInv(s, browse[b].link)
    BY <1>2, <1>3, <1>4 DEF InstInv
  <1>6. calls' \in [Browse -> Seq(ReplyRecord)]
    BY <1>1 DEF IInv, QueueType
  <1> QED
    BY <1>1, <1>4, <1>5, <1>6, InstStep

(* An answered lookup. *)
LEMMA AnswerStep ==
  ASSUME IInv, NEW b \in Browse, NEW n \in Name, Answer(b, n)
  PROVE  IInv'
PROOF
  <1>1. UNCHANGED <<on, up, tracked, network, stops, events, calls>>
    BY DEF Answer
  <1>2. PICK eps \in {adv[b][n]} \cup {{}} : SetInst(b, n, Answered(eps))
    BY DEF Answer
  <1>3. eps \in SUBSET Ep
    BY <1>2, MdnsAssumption DEF IInv, OtherType, MdnsAssumption
  <1>4. browse[b].link
    BY InstOf, NothingType DEF Answer, InstInv
  <1>5. Answered(eps) \in Inst /\ InstInv(Answered(eps), browse[b].link)
    BY <1>3, <1>4, NothingType DEF InstInv
  <1>6. calls' \in [Browse -> Seq(ReplyRecord)]
    BY <1>1 DEF IInv, QueueType
  <1> QED
    BY <1>1, <1>2, <1>5, <1>6, InstStep

(* reconcile() opens or closes the browses of one interface. *)
LEMMA MonitorStep ==
  ASSUME IInv, net_monitor_handler
  PROVE  IInv'
PROOF
  <1> DEFINE i == Head(events).i
             bs == {b \in Browse : b[1] = i}
  <1>1. events \in Seq([i : If, removed : BOOLEAN]) /\ events # <<>>
    BY DEF IInv, QueueType, net_monitor_handler
  <1>2. /\ Head(events) \in [i : If, removed : BOOLEAN]
        /\ Tail(events) \in Seq([i : If, removed : BOOLEAN])
    BY <1>1, HeadTailProperties
  <1>3. i \in If /\ bs \in SUBSET Browse
    BY <1>2
  <1>4. events' = Tail(events) /\ UNCHANGED <<on, up, network, stops>>
    BY DEF net_monitor_handler
  <1>5. on
    BY <1>1 DEF IInv, EventsInv
  <1>6. \A b \in Browse : browse[b].open <=> b[1] \in tracked
    BY <1>5 DEF IInv, OpenInv
  <1>7. /\ tracked' \subseteq If /\ BrowseType' /\ calls' \in [Browse -> Seq(ReplyRecord)]
        /\ \A b \in Browse : browse'[b].open <=> b[1] \in tracked'
    <2>1. CASE tracked' = tracked \cup {i} /\ browse_start(bs)
      <3>1. /\ BrowseType' /\ calls' \in [Browse -> Seq(ReplyRecord)]
            /\ \A b \in Browse : browse'[b].open = (b \in bs \/ browse[b].open)
        BY <1>3, <2>1, StartStep DEF IInv
      <3>2. tracked' \subseteq If
        BY <1>3, <2>1 DEF IInv, OtherType
      <3>3. ASSUME NEW b \in Browse
            PROVE  browse'[b].open <=> b[1] \in tracked'
        BY <1>6, <2>1, <3>1, Zenon
      <3> QED
        BY <3>1, <3>2, <3>3
    <2>2. CASE tracked' = tracked \ {i} /\ browse_free(bs)
      <3>1. /\ BrowseType' /\ calls' \in [Browse -> Seq(ReplyRecord)]
            /\ \A b \in Browse : browse'[b].open = (b \notin bs /\ browse[b].open)
        BY <1>3, <2>2, FreeStep DEF IInv
      <3>2. tracked' \subseteq If
        BY <2>2 DEF IInv, OtherType
      <3>3. ASSUME NEW b \in Browse
            PROVE  browse'[b].open <=> b[1] \in tracked'
        BY <1>6, <2>2, <3>1, Zenon
      <3> QED
        BY <3>1, <3>2, <3>3
    <2>3. CASE UNCHANGED <<tracked, browse, calls>>
      BY <1>6, <2>3 DEF IInv, OtherType, BrowseType, QueueType
    <2> QED
      BY <2>1, <2>2, <2>3 DEF net_monitor_handler
  <1>8. OtherType'
    BY <1>4, <1>7 DEF IInv, OtherType, network
  <1>9. QueueType' /\ EventsInv'
    BY <1>2, <1>4, <1>5, <1>7 DEF QueueType, EventsInv
  <1>10. OpenInv'
    BY <1>4, <1>5, <1>7 DEF OpenInv
  <1> QED
    BY <1>7, <1>8, <1>9, <1>10 DEF IInv

(* mdns_start() opens browses where none were. *)
LEMMA OnStep ==
  ASSUME IInv, mdns_start
  PROVE  IInv'
PROOF
  <1> DEFINE is == {i \in If : iface[i] = "up"}
             bs == {b \in Browse : b[1] \in is}
  <1>1. /\ on = FALSE /\ changes' \in 0..MaxChange
        /\ UNCHANGED <<events, up, iface, adv, listening, stops>>
    BY MdnsAssumption DEF IInv, OtherType, mdns_start, MdnsAssumption
  <1>2. events = <<>>
    BY <1>1 DEF IInv, EventsInv
  <1>3. CASE up
    <2>1. on' = TRUE /\ tracked' = is /\ browse_start(bs)
      BY <1>3 DEF mdns_start
    <2>2. /\ BrowseType' /\ calls' \in [Browse -> Seq(ReplyRecord)]
          /\ \A b \in Browse : browse'[b].open = (b \in bs \/ browse[b].open)
      <3>1. bs \in SUBSET Browse
        OBVIOUS
      <3> HIDE DEF bs
      <3> QED
        BY <2>1, <3>1, StartStep DEF IInv
    <2>3. OtherType'
      BY <1>1, <2>1 DEF IInv, OtherType
    <2>4. QueueType' /\ EventsInv'
      BY <1>1, <2>1, <2>2 DEF IInv, QueueType, EventsInv
    <2>5. ASSUME NEW b \in Browse
          PROVE  (browse[b].open <=> on /\ b[1] \in tracked)'
      <3>1. ~browse[b].open
        BY <1>1 DEF IInv, OpenInv
      <3>2. browse'[b].open = (b \in bs \/ browse[b].open)
        BY <2>2
      <3> QED
        BY <2>1, <3>1, <3>2, Zenon
    <2>6. OpenInv'
      BY <2>5 DEF OpenInv
    <2> QED
      BY <2>2, <2>3, <2>4, <2>6 DEF IInv
  <1>4. CASE ~up
    <2>1. UNCHANGED <<on, tracked, browse, calls>>
      BY <1>4 DEF mdns_start
    <2>2. OtherType'
      BY <1>1, <2>1 DEF IInv, OtherType
    <2>3. QueueType' /\ EventsInv' /\ OpenInv' /\ BrowseType'
      BY <1>1, <2>1 DEF IInv, QueueType, EventsInv, OpenInv, BrowseType
    <2> QED
      BY <2>2, <2>3 DEF IInv
  <1> QED
    BY <1>3, <1>4

(* mdns_stop() closes all browses and drops the events. *)
LEMMA OffStep ==
  ASSUME IInv, mdns_stop
  PROVE  IInv'
PROOF
  <1>1. /\ on' = FALSE /\ tracked' = {} /\ events' = <<>> /\ browse_free(Browse)
        /\ changes' \in 0..MaxChange /\ UNCHANGED <<up, iface, adv, listening, stops>>
    BY MdnsAssumption DEF IInv, OtherType, mdns_stop, MdnsAssumption
  <1>2. /\ BrowseType' /\ calls' \in [Browse -> Seq(ReplyRecord)]
        /\ \A b \in Browse : browse'[b].open = (b \notin Browse /\ browse[b].open)
    BY <1>1, FreeStep DEF IInv
  <1>3. OtherType'
    BY <1>1 DEF IInv, OtherType
  <1>4. QueueType' /\ EventsInv'
    <2>1. <<>> \in Seq([i : If, removed : BOOLEAN])
      BY EmptySeq
    <2> QED
      BY <1>1, <1>2, <2>1 DEF QueueType, EventsInv
  <1>5. OpenInv'
    BY <1>1, <1>2, Zenon DEF OpenInv
  <1> QED
    BY <1>2, <1>3, <1>4, <1>5 DEF IInv

(* An interface changes. *)
LEMMA IfaceStep ==
  ASSUME IInv, NEW i \in If, NEW s \in {"absent", "down", "up"}, IfaceChanges(i, s)
  PROVE  IInv'
PROOF
  <1> DEFINE ev == [i |-> i, removed |-> s = "absent"]
  <1>1. /\ changes' \in 0..MaxChange
        /\ UNCHANGED <<on, tracked, browse, up, adv, calls, listening, stops>>
    BY MdnsAssumption DEF IInv, OtherType, IfaceChanges, MdnsAssumption
  <1>2. iface' \in [If -> {"absent", "down", "up"}]
    BY DEF IfaceChanges, IInv, OtherType
  <1>3. ev \in [i : If, removed : BOOLEAN]
    <2>1. (s = "absent") \in BOOLEAN
      OBVIOUS
    <2> QED
      BY <2>1, Zenon
  <1>4. events' = events \/ (on /\ events' = Append(events, ev))
    BY DEF IfaceChanges
  <1> HIDE DEF ev
  <1>5. Append(events, ev) \in Seq([i : If, removed : BOOLEAN])
    BY <1>3, AppendProperties DEF IInv, QueueType
  <1>6. QueueType' /\ EventsInv'
    BY <1>1, <1>4, <1>5 DEF IInv, QueueType, EventsInv
  <1>7. OtherType' /\ BrowseType' /\ OpenInv'
    BY <1>1, <1>2 DEF IInv, OtherType, BrowseType, OpenInv
  <1> QED
    BY <1>6, <1>7 DEF IInv

(* systemd-resolved queues a reply. *)
LEMMA TellStep ==
  ASSUME QueueType, NEW b \in Browse, NEW n \in Name, NEW kind \in {"added", "removed"},
         Tell(b, kind, n)
  PROVE  calls' \in [Browse -> Seq(ReplyRecord)]
PROOF
  <1> DEFINE m == [k |-> kind, n |-> n]
  <1>1. m \in ReplyRecord
    BY DEF ReplyRecord
  <1>2. calls' = calls \/ calls' = [calls EXCEPT ![b] = Append(calls[b], m)]
    BY DEF Tell
  <1> HIDE DEF m
  <1>3. Append(calls[b], m) \in Seq(ReplyRecord)
    BY <1>1, AppendProperties DEF QueueType
  <1> QED
    BY <1>2, <1>3 DEF QueueType

(* An advertisement changes. *)
LEMMA AdStep ==
  ASSUME IInv, NEW b \in Browse, NEW n \in Name, NEW eps \in Ads \cup {{}},
         changes < MaxChange, changes' = changes + 1,
         adv' = [adv EXCEPT ![b][n] = eps],
         calls' \in [Browse -> Seq(ReplyRecord)],
         UNCHANGED <<on, tracked, browse, iface, events, up, listening, stops>>
  PROVE  IInv'
PROOF
  <1>1. changes' \in 0..MaxChange
    BY MdnsAssumption DEF IInv, OtherType, MdnsAssumption
  <1>2. adv' \in [Browse -> [Name -> Ads \cup {{}}]]
    <2>1. adv \in [Browse -> [Name -> Ads \cup {{}}]]
      BY DEF IInv, OtherType
    <2>2. [adv[b] EXCEPT ![n] = eps] \in [Name -> Ads \cup {{}}]
      BY <2>1
    <2> QED
      BY <2>1, <2>2
  <1>3. OtherType'
    BY <1>1, <1>2 DEF IInv, OtherType
  <1>4. QueueType' /\ EventsInv' /\ BrowseType' /\ OpenInv'
    BY DEF IInv, QueueType, EventsInv, BrowseType, OpenInv
  <1> QED
    BY <1>3, <1>4 DEF IInv

(* An instance appears. *)
LEMMA AdvertisedStep ==
  ASSUME IInv, NEW b \in Browse, NEW n \in Name, NEW eps \in Ads, Advertised(b, n, eps)
  PROVE  IInv'
PROOF
  <1>1. calls' \in [Browse -> Seq(ReplyRecord)]
    BY TellStep DEF IInv, Advertised
  <1> QED
    BY <1>1, AdStep DEF Advertised

(* An instance disappears. *)
LEMMA WithdrawnStep ==
  ASSUME IInv, NEW b \in Browse, NEW n \in Name, Withdrawn(b, n)
  PROVE  IInv'
PROOF
  <1>1. calls' \in [Browse -> Seq(ReplyRecord)]
    BY TellStep DEF IInv, Withdrawn
  <1> QED
    BY <1>1, AdStep DEF Withdrawn

(* An endpoint accepts connections, or ceases to. *)
LEMMA ListensStep ==
  ASSUME IInv, NEW e \in Tcp, Listens(e)
  PROVE  IInv'
PROOF
  <1>1. changes' \in 0..MaxChange
    BY MdnsAssumption DEF IInv, OtherType, Listens, MdnsAssumption
  <1>2. OtherType'
    BY <1>1 DEF IInv, OtherType, Listens
  <1>3. QueueType' /\ EventsInv' /\ BrowseType' /\ OpenInv'
    BY DEF IInv, QueueType, EventsInv, BrowseType, OpenInv, Listens
  <1> QED
    BY <1>2, <1>3 DEF IInv

(* systemd-resolved stops: lookups fail, calls are told their end. *)
LEMMA StopsStep ==
  ASSUME IInv, ResolvedStops
  PROVE  IInv'
PROOF
  <1> DEFINE Kept(s) == IF s = Asked THEN Answered({}) ELSE s
             r(b) == [browse[b] EXCEPT !.inst = [n \in Name |-> Kept(browse[b].inst[n])]]
  <1>1. /\ up' = FALSE /\ stops' \in 0..MaxStop
        /\ UNCHANGED <<on, tracked, events, network>>
    BY MdnsAssumption DEF IInv, OtherType, ResolvedStops, MdnsAssumption
  <1>2. browse' = [b \in Browse |-> r(b)]
    BY DEF ResolvedStops
  <1>3. ASSUME NEW s \in Inst, NEW link, InstInv(s, link)
        PROVE  Kept(s) \in Inst /\ InstInv(Kept(s), link)
    <2>1. CASE s = Asked
      BY <1>3, <2>1, NothingType DEF InstInv
    <2>2. CASE s # Asked
      BY <1>3, <2>2
    <2> QED
      BY <2>1, <2>2
  <1> HIDE DEF Kept
  <1>4. ASSUME NEW b \in Browse
        PROVE  r(b) \in BrowseRecord /\ BrowseInv(r(b)) /\ r(b).open = browse[b].open
    <2>1. browse[b] \in BrowseRecord /\ BrowseInv(browse[b])
      BY DEF IInv, BrowseType
    <2> DEFINE t == [n \in Name |-> Kept(browse[b].inst[n])]
    <2>2. ASSUME NEW n \in Name
          PROVE  t[n] \in Inst /\ InstInv(t[n], browse[b].link)
      BY <1>3, InstOf
    <2>3. t \in [Name -> Inst]
      BY <2>2
    <2> HIDE DEF t
    <2>4. [browse[b] EXCEPT !.inst = t] \in BrowseRecord
      BY <2>1, <2>3 DEF BrowseRecord
    <2>5. BrowseInv([browse[b] EXCEPT !.inst = t])
      BY <2>1, <2>2 DEF BrowseInv, BrowseRecord
    <2> QED
      BY <2>1, <2>4, <2>5 DEF t, BrowseRecord
  <1> HIDE DEF r
  <1>5. BrowseType'
    BY <1>2, <1>4 DEF BrowseType
  <1>6. OpenInv'
    BY <1>1, <1>2, <1>4 DEF IInv, OpenInv
  <1>7. QueueType' /\ EventsInv'
    <2>1. [k |-> "end"] \in ReplyRecord
      BY DEF ReplyRecord
    <2>2. \A b \in Browse : Append(calls[b], [k |-> "end"]) \in Seq(ReplyRecord)
      BY <2>1, AppendProperties DEF IInv, QueueType
    <2> QED
      BY <1>1, <2>2 DEF IInv, QueueType, EventsInv, ResolvedStops
  <1>8. OtherType'
    BY <1>1 DEF IInv, OtherType, network
  <1> QED
    BY <1>5, <1>6, <1>7, <1>8 DEF IInv

(* systemd-resolved starts. *)
LEMMA StartsStep ==
  ASSUME IInv, ResolvedStarts
  PROVE  IInv'
  BY DEF IInv, OtherType, QueueType, EventsInv, BrowseType, OpenInv, ResolvedStarts, network

(* Nothing changes. *)
LEMMA StutterStep ==
  ASSUME IInv, UNCHANGED vars
  PROVE  IInv'
  BY DEF IInv, OtherType, QueueType, EventsInv, BrowseType, OpenInv, vars

(* The initial states. *)
LEMMA InitStep ==
  ASSUME Init
  PROVE  IInv
PROOF
  <1>1. OtherType
    <2>1. 0 \in 0..MaxChange /\ 0 \in 0..MaxStop
      BY MdnsAssumption DEF MdnsAssumption
    <2>2. iface \in [If -> {"absent", "down", "up"}]
      BY DEF Init
    <2>3. adv \in [Browse -> [Name -> Ads \cup {{}}]]
      BY DEF Init
    <2> QED
      BY <2>1, <2>2, <2>3, Zenon DEF Init, OtherType
  <1>2. QueueType /\ EventsInv
    BY EmptySeq DEF Init, QueueType, EventsInv
  <1>3. BrowseType /\ OpenInv
    BY NoBrowseType DEF Init, BrowseType, OpenInv
  <1> QED
    BY <1>1, <1>2, <1>3 DEF IInv

(* IInv is inductive. *)
THEOREM MdnsInvariance == Spec => []IInv
PROOF
  <1>1. Init => IInv
    BY InitStep
  <1>2. IInv /\ [Next]_vars => IInv'
    <2> SUFFICES ASSUME IInv, [Next]_vars
                 PROVE  IInv'
      OBVIOUS
    <2>1. CASE UNCHANGED vars
      BY <2>1, StutterStep
    <2>2. ASSUME NEW b \in Browse, OnBrowse(b)
          PROVE  IInv'
      BY <2>2, RestartStep, AddedStep, RemovedStep, EndStep DEF OnBrowse
    <2>3. ASSUME NEW b \in Browse, NEW n \in Name, OnInstance(b, n) \/ Withdrawn(b, n)
          PROVE  IInv'
      BY <2>3, ReplyStep, AnswerStep, WithdrawnStep DEF OnInstance
    <2>4. ASSUME NEW b \in Browse, NEW n \in Name, NEW eps \in Ads, Advertised(b, n, eps)
          PROVE  IInv'
      BY <2>4, AdvertisedStep
    <2>5. ASSUME NEW b \in Browse, NEW n \in Name, NEW e \in Tcp,
                 tcp_check_succeeded(b, n, e) \/ tcp_check_retry(b, n, e)
          PROVE  IInv'
      BY <2>5, SucceededStep, RetryStep
    <2>6. CASE net_monitor_handler \/ mdns_start \/ mdns_stop
      BY <2>6, MonitorStep, OnStep, OffStep
    <2>7. ASSUME NEW i \in If, NEW s \in {"absent", "down", "up"}, IfaceChanges(i, s)
          PROVE  IInv'
      BY <2>7, IfaceStep
    <2>8. ASSUME NEW e \in Tcp, Listens(e)
          PROVE  IInv'
      BY <2>8, ListensStep
    <2>9. CASE ResolvedStops \/ ResolvedStarts
      BY <2>9, StopsStep, StartsStep
    <2> QED
      BY <2>1, <2>2, <2>3, <2>4, <2>5, <2>6, <2>7, <2>8, <2>9 DEF Next
  <1> QED
    BY <1>1, <1>2, PTL DEF Spec

(* For any interfaces, service types, instances and endpoints: a browse    *)
(* exists exactly for the tracked interfaces of a started mDNS, what is    *)
(* known of an instance belongs to an open call, no endpoint is reported   *)
(* and checked at once, and the retry index and the restart delay stay     *)
(* within their tables (browse_start(), browse_free(), add_endpoints(),    *)
(* tcp_check_schedule_retry(), browse_schedule_restart()).                 *)
THEOREM TypeCorrect == Spec => []TypeOK
PROOF
  <1>1. IInv => TypeOK
    <2> SUFFICES ASSUME IInv
                 PROVE  TypeOK
      OBVIOUS
    <2>1. ASSUME NEW b \in Browse
          PROVE  /\ browse[b].open \in BOOLEAN /\ browse[b].link \in BOOLEAN
                 /\ browse[b].open <=> on /\ b[1] \in tracked
                 /\ browse[b].sec \in 1..MaxDelay
      BY DEF IInv, BrowseType, BrowseRecord, OpenInv
    <2>2. ASSUME NEW b \in Browse, NEW n \in Name, NEW s, s = browse[b].inst[n]
          PROVE  /\ s.st \in {"none", "asked", "answered", "service"}
                 /\ s.st # "none" => browse[b].link
                 /\ DOMAIN s.checks \subseteq Tcp \ s.eps
                 /\ \A e \in DOMAIN s.checks : s.checks[e] \in 0..MaxIdx
      <3>1. s \in Inst /\ InstInv(s, browse[b].link)
        BY <2>2, InstOf
      <3>2. PICK S \in SUBSET Tcp : s.checks \in [S -> 0..MaxIdx]
        BY <3>1 DEF Inst, Checks
      <3> QED
        BY <3>1, <3>2 DEF Inst, InstInv
    <2>3. ASSUME NEW b \in Browse, NEW k \in 1..Len(calls[b])
          PROVE  calls[b][k] \in ReplyRecord
      BY ElementOfSeq DEF IInv, QueueType
    <2>4. \A k \in 1..Len(events) : events[k] \in [i : If, removed : BOOLEAN]
      BY ElementOfSeq DEF IInv, QueueType
    <2>5. OtherType
      BY DEF IInv
    <2> DEFINE Known(b, s) ==
                 /\ s.st \in {"none", "asked", "answered", "service"}
                 /\ s.st # "none" => browse[b].link
                 /\ DOMAIN s.checks \subseteq Tcp \ s.eps
                 /\ \A e \in DOMAIN s.checks : s.checks[e] \in 0..MaxIdx
    <2>6. \A b \in Browse, n \in Name : Known(b, browse[b].inst[n])
      BY <2>2, Zenon
    <2>7. \A b \in Browse : \A k \in 1..Len(calls[b]) :
             calls[b][k] \in [k : {"added", "removed"}, n : Name] \cup [k : {"end"}]
      BY <2>3, Zenon DEF ReplyRecord
    <2>8. \A b \in Browse : /\ browse[b].open \in BOOLEAN /\ browse[b].link \in BOOLEAN
                            /\ browse[b].open <=> on /\ b[1] \in tracked
                            /\ browse[b].sec \in 1..MaxDelay
      BY <2>1, Zenon
    <2> QED
      BY <2>4, <2>5, <2>6, <2>7, <2>8 DEF TypeOK, OtherType
  <1> QED
    BY <1>1, MdnsInvariance, PTL

================================================================================
