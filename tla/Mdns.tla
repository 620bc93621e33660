--------------------------------- MODULE Mdns ---------------------------------
(***************************************************************************)
(* Finding discovery controllers with mDNS (discoverd/src/mdns.c) on the   *)
(* network interfaces that come and go (discoverd/src/netif.c).            *)
(*                                                                         *)
(* For each interface and service type the daemon has a browse call open   *)
(* at systemd-resolved, which tells the names that appear and disappear.   *)
(* A name is looked up with a second call.  Its rdma endpoints are         *)
(* reported at once, its tcp endpoints when a TCP connect to them          *)
(* succeeds.  systemd-resolved stops and starts, lookups take their time,  *)
(* and advertisements are withdrawn at any moment.                         *)
(***************************************************************************)
EXTENDS Integers, Sequences, FiniteSets, FiniteSetsExt, SequencesExt

CONSTANTS
    If,         \* the interfaces
    Type,       \* mdns_service_types
    Name,       \* service instances
    Ep, Tcp,    \* endpoints, and those with transport tcp
    Ads,        \* the sets of endpoints that an instance can have
    MaxDelay,   \* BROWSE_RESTART_MAX_SEC
    MaxIdx,     \* the last index of tcp_check_retry_sec
    MaxChange,  \* bound: changes of interfaces, of the network, of the zeroconf option
    MaxStop,    \* bound: stops of systemd-resolved
    Races       \* what may happen: "withdraw": an advertisement is withdrawn while
                \* its instance is looked up; "fail": a lookup fails; "silent": the
                \* kernel sends no event for a change of the flags

ASSUME MdnsAssumption ==
    /\ IsFiniteSet(Name) /\ Tcp \subseteq Ep /\ Ads \subseteq SUBSET Ep
    /\ {MaxIdx, MaxChange, MaxStop} \subseteq Nat /\ MaxDelay \in Nat \ {0}
    /\ Races \subseteq {"withdraw", "fail", "silent"}

VARIABLES
    on,         \* whether mDNS is started (ctx.mdns)
    tracked,    \* the interfaces that were reported with iface_add
    browse,     \* mctx->browses
    iface,      \* the state of each interface
    events,     \* the events of the device monitor
    up,         \* whether systemd-resolved runs
    adv,        \* what is advertised: the endpoints of each instance
    calls,      \* the replies of each browse call that are on their way
    listening,  \* the tcp endpoints that accept connections
    changes, stops

vars == <<on, tracked, browse, iface, events, up, adv, calls, listening, changes, stops>>
network == <<iface, adv, listening, changes>>
bounds == <<changes, stops>>

Browse == If \X Type

(* What is known of an instance: nothing, a lookup, its answer, or the     *)
(* service with the endpoints that were reported and the checks that run.  *)
Nothing == [st |-> "none", eps |-> {}, checks |-> <<>>]
Asked == [Nothing EXCEPT !.st = "asked"]
Answered(eps) == [Nothing EXCEPT !.st = "answered", !.eps = eps]
Service(eps, checks) == [st |-> "service", eps |-> eps, checks |-> checks]

(* link: whether the browse call is open; if not, the restart timer runs.  *)
NoBrowse == [open |-> FALSE, link |-> FALSE, sec |-> 1, inst |-> [n \in Name |-> Nothing]]

TypeOK ==
    /\ on \in BOOLEAN /\ up \in BOOLEAN
    /\ tracked \subseteq If
    /\ iface \in [If -> {"absent", "down", "up"}]
    /\ \A k \in 1..Len(events) : events[k] \in [i : If, removed : BOOLEAN]
    /\ \A b \in Browse :
          /\ browse[b].open \in BOOLEAN /\ browse[b].link \in BOOLEAN
          /\ browse[b].open <=> on /\ b[1] \in tracked
          /\ browse[b].sec \in 1..MaxDelay
          /\ \A n \in Name :
                LET s == browse[b].inst[n] IN
                /\ s.st \in {"none", "asked", "answered", "service"}
                /\ s.st # "none" => browse[b].link
                /\ DOMAIN s.checks \subseteq Tcp \ s.eps
                /\ \A e \in DOMAIN s.checks : s.checks[e] \in 0..MaxIdx
          /\ \A k \in 1..Len(calls[b]) :
                calls[b][k] \in [k : {"added", "removed"}, n : Name] \cup [k : {"end"}]
    /\ adv \in [Browse -> [Name -> Ads \cup {{}}]]
    /\ listening \subseteq Tcp
    /\ changes \in 0..MaxChange /\ stops \in 0..MaxStop

--------------------------------------------------------------------------------
(* mdns.c: browse calls *)

(* systemd-resolved tells a new browse call what it has. *)
Found(b) ==
    LET there == {n \in Name : adv[b][n] # {}}
    IN  SetToSeq({[k |-> "added", n |-> n] : n \in there})

Doubled(sec) == Min({2 * sec, MaxDelay})

(* browse_connect(), or browse_schedule_restart() if it fails. *)
browse_connect(br) ==
    IF up THEN [br EXCEPT !.link = TRUE]
    ELSE [br EXCEPT !.link = FALSE, !.sec = Doubled(@)]

(* browse_start(), for the browses bs. *)
browse_start(bs) ==
    /\ browse' = [b \in Browse |->
          IF b \in bs THEN browse_connect([NoBrowse EXCEPT !.open = TRUE]) ELSE browse[b]]
    /\ calls' = [b \in Browse |-> IF b \in bs THEN (IF up THEN Found(b) ELSE <<>>) ELSE calls[b]]

(* browse_free(): browse_disconnect() frees the lookups and the services.  *)
browse_free(bs) ==
    /\ browse' = [b \in Browse |-> IF b \in bs THEN NoBrowse ELSE browse[b]]
    /\ calls' = [b \in Browse |-> IF b \in bs THEN <<>> ELSE calls[b]]

(* Mutant: a browse call that ends is closed and never opened again. *)
browse_restart_Never(b) == FALSE /\ UNCHANGED vars

(* browse_restart_cback() *)
browse_restart(b) ==
    /\ browse[b].open /\ ~browse[b].link
    /\ LET br == browse_connect(browse[b])
       IN  browse' = [browse EXCEPT ![b] = IF up THEN [br EXCEPT !.sec = 1] ELSE br]
    /\ calls' = [calls EXCEPT ![b] = IF up THEN Found(b) ELSE <<>>]
    /\ UNCHANGED <<on, tracked, events, up, network, stops>>

(* The first reply of browse call b is of kind k. *)
Reply(b, k) == browse[b].link /\ calls[b] # <<>> /\ Head(calls[b]).k = k

SetInst(b, n, s) == browse' = [browse EXCEPT ![b].inst[n] = s]

(* service_added(): a lookup begins, unless the instance is known or is    *)
(* being looked up, or systemd-resolved is gone.                           *)
service_added(b) ==
    /\ Reply(b, "added")
    /\ LET n == Head(calls[b]).n
       IN  SetInst(b, n, IF browse[b].inst[n] = Nothing /\ up THEN Asked
                         ELSE browse[b].inst[n])
    /\ calls' = [calls EXCEPT ![b] = Tail(@)]
    /\ UNCHANGED <<on, tracked, events, up, network, stops>>

(* Mutant: the service is removed, its checks go on. *)
Removed_Checks(s) == [s EXCEPT !.eps = {}]

(* service_free() *)
Removed(s) == Nothing

(* service_removed(): only a service is found, not a lookup. *)
service_removed(b) ==
    /\ Reply(b, "removed")
    /\ LET n == Head(calls[b]).n
           s == browse[b].inst[n]
       IN  SetInst(b, n, IF s.st = "service" THEN Removed(s) ELSE s)
    /\ calls' = [calls EXCEPT ![b] = Tail(@)]
    /\ UNCHANGED <<on, tracked, events, up, network, stops>>

(* The browse call ends: browse_disconnect(), browse_schedule_restart(). *)
browse_end(b) ==
    /\ Reply(b, "end")
    /\ browse' = [browse EXCEPT ![b] =
          [NoBrowse EXCEPT !.open = TRUE, !.sec = Doubled(browse[b].sec)]]
    /\ calls' = [calls EXCEPT ![b] = <<>>]
    /\ UNCHANGED <<on, tracked, events, up, network, stops>>

--------------------------------------------------------------------------------
(* mdns.c: lookups and reachability checks *)

(* add_endpoints(): a tcp endpoint is checked first.  Nothing is kept of   *)
(* an error, or of an instance without endpoints.                          *)
resolve_reply_cb(b, n) ==
    /\ browse[b].inst[n].st = "answered"
    /\ LET eps == browse[b].inst[n].eps
       IN  SetInst(b, n, IF eps = {} THEN Nothing
                         ELSE Service(eps \ Tcp, [e \in eps \cap Tcp |-> 0]))
    /\ UNCHANGED <<on, tracked, events, up, calls, network, stops>>

(* tcp_check_succeeded() *)
tcp_check_succeeded(b, n, e) ==
    LET s == browse[b].inst[n] IN
    /\ e \in DOMAIN s.checks /\ e \in listening
    /\ SetInst(b, n, Service(s.eps \cup {e}, [x \in DOMAIN s.checks \ {e} |-> s.checks[x]]))
    /\ UNCHANGED <<on, tracked, events, up, calls, network, stops>>

(* Mutant: the index of the retry interval has no limit. *)
NextIdx_Unlimited(k) == k + 1

NextIdx(k) == IF k < MaxIdx THEN k + 1 ELSE k

(* tcp_check_schedule_retry() *)
tcp_check_retry(b, n, e) ==
    LET s == browse[b].inst[n] IN
    /\ e \in DOMAIN s.checks /\ e \notin listening
    /\ SetInst(b, n, [s EXCEPT !.checks[e] = NextIdx(@)])
    /\ UNCHANGED <<on, tracked, events, up, calls, network, stops>>

--------------------------------------------------------------------------------
(* netif.c, and the zeroconf option *)

(* reconcile(), on_iface_add() and on_iface_remove().  The flags are those *)
(* at the time of the call, not of the event.                              *)
net_monitor_handler ==
    /\ events # <<>>
    /\ LET i == Head(events).i
           candidate == ~Head(events).removed /\ iface[i] = "up"
           bs == {b \in Browse : b[1] = i}
       IN  \/ /\ candidate /\ i \notin tracked
              /\ tracked' = tracked \cup {i}
              /\ browse_start(bs)
           \/ /\ ~candidate /\ i \in tracked
              /\ tracked' = tracked \ {i}
              /\ browse_free(bs)
           \/ /\ candidate <=> i \in tracked
              /\ UNCHANGED <<tracked, browse, calls>>
    /\ events' = Tail(events)
    /\ UNCHANGED <<on, up, network, stops>>

(* apply_zeroconf(), mdns_start() and enumerate_existing(): mDNS is not    *)
(* started without systemd-resolved.                                       *)
mdns_start ==
    /\ ~on /\ changes < MaxChange
    /\ changes' = changes + 1
    /\ IF up
       THEN LET is == {i \in If : iface[i] = "up"} IN
            /\ on' = TRUE
            /\ tracked' = is
            /\ browse_start({b \in Browse : b[1] \in is})
       ELSE UNCHANGED <<on, tracked, browse, calls>>
    /\ UNCHANGED <<events, up, iface, adv, listening, stops>>

mdns_stop ==
    /\ on /\ changes < MaxChange
    /\ changes' = changes + 1
    /\ on' = FALSE
    /\ tracked' = {}
    /\ events' = <<>>
    /\ browse_free(Browse)
    /\ UNCHANGED <<up, iface, adv, listening, stops>>

--------------------------------------------------------------------------------
(* The network and systemd-resolved *)

(* An interface comes, goes or changes its flags. *)
IfaceChanges(i, s) ==
    /\ changes < MaxChange /\ iface[i] # s
    /\ changes' = changes + 1
    /\ iface' = [iface EXCEPT ![i] = s]
    /\ events' = IF on /\ ("silent" \in Races => "absent" \in {s, iface[i]})
                 THEN Append(events, [i |-> i, removed |-> s = "absent"]) ELSE events
    /\ UNCHANGED <<on, tracked, browse, up, adv, calls, listening, stops>>

Tell(b, kind, n) ==
    calls' = IF up /\ browse[b].link
             THEN [calls EXCEPT ![b] = Append(@, [k |-> kind, n |-> n])] ELSE calls

Advertised(b, n, eps) ==
    /\ changes < MaxChange /\ adv[b][n] = {} /\ eps # {}
    /\ changes' = changes + 1
    /\ adv' = [adv EXCEPT ![b][n] = eps]
    /\ Tell(b, "added", n)
    /\ UNCHANGED <<on, tracked, browse, iface, events, up, listening, stops>>

(* The daemon is about to look up n. *)
Busy(b, n) ==
    \/ browse[b].inst[n].st \in {"asked", "answered"}
    \/ \E k \in 1..Len(calls[b]) : calls[b][k].k # "end" /\ calls[b][k].n = n

Withdrawn(b, n) ==
    /\ changes < MaxChange /\ adv[b][n] # {}
    /\ "withdraw" \in Races \/ ~Busy(b, n)
    /\ changes' = changes + 1
    /\ adv' = [adv EXCEPT ![b][n] = {}]
    /\ Tell(b, "removed", n)
    /\ UNCHANGED <<on, tracked, browse, iface, events, up, listening, stops>>

(* A tcp endpoint begins to accept connections, or ceases to. *)
Listens(e) ==
    /\ changes < MaxChange
    /\ changes' = changes + 1
    /\ listening' = IF e \in listening THEN listening \ {e} ELSE listening \cup {e}
    /\ UNCHANGED <<on, tracked, browse, iface, events, up, adv, calls, stops>>

(* A lookup is answered with what is advertised at this time, or fails. *)
Answer(b, n) ==
    /\ browse[b].inst[n] = Asked /\ up
    /\ \E eps \in {adv[b][n]} \cup (IF "fail" \in Races THEN {{}} ELSE {}) :
          SetInst(b, n, Answered(eps))
    /\ UNCHANGED <<on, tracked, events, up, calls, network, stops>>

(* systemd-resolved stops: its calls end with an error. *)
ResolvedStops ==
    /\ up /\ stops < MaxStop
    /\ up' = FALSE /\ stops' = stops + 1
    /\ calls' = [b \in Browse |->
          IF browse[b].link THEN Append(calls[b], [k |-> "end"]) ELSE calls[b]]
    /\ browse' = [b \in Browse |-> [browse[b] EXCEPT !.inst =
          [n \in Name |-> IF @[n] = Asked THEN Answered({}) ELSE @[n]]]]
    /\ UNCHANGED <<on, tracked, events, network>>

ResolvedStarts ==
    /\ ~up
    /\ up' = TRUE
    /\ UNCHANGED <<on, tracked, browse, events, calls, network, stops>>

Init ==
    /\ on = FALSE /\ tracked = {}
    /\ browse = [b \in Browse |-> NoBrowse]
    /\ iface \in [If -> {"absent", "up"}]
    /\ events = <<>>
    /\ up \in BOOLEAN
    /\ adv = [b \in Browse |-> [n \in Name |-> {}]]
    /\ calls = [b \in Browse |-> <<>>]
    /\ listening = {}
    /\ changes = 0 /\ stops = 0

OnBrowse(b) ==
    \/ browse_restart(b) \/ service_added(b) \/ service_removed(b) \/ browse_end(b)

OnInstance(b, n) ==
    resolve_reply_cb(b, n) \/ Answer(b, n)

Next ==
    \/ \E b \in Browse : OnBrowse(b)
    \/ \E b \in Browse, n \in Name :
          \/ OnInstance(b, n) \/ Withdrawn(b, n)
          \/ \E eps \in Ads : Advertised(b, n, eps)
          \/ \E e \in Tcp : tcp_check_succeeded(b, n, e) \/ tcp_check_retry(b, n, e)
    \/ net_monitor_handler \/ mdns_start \/ mdns_stop
    \/ \E i \in If, s \in {"absent", "down", "up"} : IfaceChanges(i, s)
    \/ \E e \in Tcp : Listens(e)
    \/ ResolvedStops \/ ResolvedStarts

(* The event loop runs every callback that is due, timers expire, and      *)
(* systemd-resolved answers and is started again.                          *)
Fairness ==
    /\ \A b \in Browse : WF_vars(OnBrowse(b))
    /\ \A b \in Browse, n \in Name :
          /\ WF_vars(OnInstance(b, n))
          /\ \A e \in Tcp : WF_vars(tcp_check_succeeded(b, n, e))
    /\ WF_vars(net_monitor_handler)
    /\ WF_vars(ResolvedStarts)

Spec == Init /\ [][Next]_vars /\ Fairness

--------------------------------------------------------------------------------
(* Properties *)

Reported(b, n) == IF browse[b].inst[n].st = "service" THEN browse[b].inst[n].eps ELSE {}
Checked(b, n) == DOMAIN browse[b].inst[n].checks

(* service_add: an endpoint that stays advertised on an interface that     *)
(* stays up, and that accepts connections if it is tcp, is reported in the *)
(* end, however interfaces and systemd-resolved came and went before.      *)
AdvertisedFound ==
    \A b \in Browse, n \in Name, e \in Ep :
        <>[](/\ on /\ iface[b[1]] = "up" /\ e \in adv[b][n]
             /\ e \in Tcp => e \in listening)
        => <>[](e \in Reported(b, n))

(* service_remove: an endpoint whose advertisement is withdrawn, whose     *)
(* interface is not up any more or for which mDNS is stopped is not        *)
(* reported in the end, and its reachability check stops.                  *)
WithdrawnGoes ==
    \A b \in Browse, n \in Name, e \in Ep :
        <>[](~on \/ iface[b[1]] # "up" \/ e \notin adv[b][n])
        => <>[](e \notin Reported(b, n) \cup Checked(b, n))
================================================================================
