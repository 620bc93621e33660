------------------------------- MODULE Discover -------------------------------
(***************************************************************************)
(* The walk of "nvme discover" and "nvme connect-all" over the Discovery   *)
(* Log Pages (libnvme/src/nvme/fabrics.c).                                 *)
(*                                                                         *)
(* A walk opens the primary discovery controller (DC), reads its log page, *)
(* decides whether its connection stays, and follows the referrals of the  *)
(* page depth first, with a set of the DCs it has visited and a limit on   *)
(* the depth.  A page is read with several commands while the DC may       *)
(* change it; the generation counter tells.  Several programs walk at the  *)
(* same time and find each other's connections in their scan of sysfs.     *)
(***************************************************************************)
EXTENDS Integers, Sequences, FiniteSets, FiniteSetsExt, SequencesExt

CONSTANTS
    Walker,     \* the programs
    Dc, Io,     \* discovery controllers and I/O controllers
    Primary,    \* the DC that a walk starts with
    Other,      \* the owner of the connections that are there before
    None,
    Pages,      \* the pages that each DC can have
    Excluded,   \* the controllers on the exclusion list
    Modes,      \* the values of --persistent
    Before,     \* the DCs that the host may be connected to before
    MaxDepth,   \* NVMF_MAX_REFERRAL_DEPTH
    MaxRetries, \* default_max_discovery_retries
    Chunk,      \* log page entries that one command reads
    MaxChange,  \* bound: changes of log pages, connections that others make
    MaxFault    \* bound: commands and connects that fail, connections lost

(* A log page entry: a DC's own, a referral or an I/O controller. *)
Entry == [kind : {"self"}, to : Dc, epcsd : BOOLEAN]
         \cup [kind : {"disc"}, to : Dc, epcsd : BOOLEAN]
         \cup [kind : {"nvme"}, to : Io, epcsd : {FALSE}]

ASSUME DiscoverAssumption ==
    /\ Primary \in Dc /\ Dc \cap Io = {}
    /\ Other \notin Walker /\ None \notin BOOLEAN
    /\ Pages \in [Dc -> SUBSET Seq(Entry)]
    /\ Excluded \subseteq Dc \cup Io
    /\ Before \subseteq Dc
    /\ Modes \subseteq {"no", "auto", "force"}
    /\ {MaxDepth, MaxChange, MaxFault} \subseteq Nat
    /\ {MaxRetries, Chunk} \subseteq Nat \ {0}

VARIABLES
    log,        \* the log page of each DC, with its generation
    conn,       \* the connections of this host
    walk,       \* the walk of each program
    past,       \* history: the pages that each DC had, by generation
    read,       \* history: the pages that each program has read, and where
    changes, faults

vars == <<log, conn, walk, past, read, changes, faults>>
bounds == <<changes, faults>>

(* A connection, with the program that made it. *)
Connection == [to : Dc \cup Io, by : Walker \cup {Other}]

(* A DC that is walked.  up: the EPCSD flag of the referral, None for the  *)
(* primary.  gen, num: the header that was read.  page: what was read of   *)
(* the entries, None where the page had no entry any more.  i: the entry   *)
(* that the walk is at.                                                    *)
Frame == [c : Connection, own : BOOLEAN, up : BOOLEAN \cup {None},
          at : {"identify", "header", "entries", "again", "survey", "walk"},
          gen : 0..MaxChange, num : Nat, page : Seq(Entry \cup {None}),
          tries : 0..MaxRetries, i : Nat \ {0}]

NewFrame(c, own, up, at) ==
    [c |-> c, own |-> own, up |-> up, at |-> at, gen |-> 0, num |-> 0, page |-> <<>>,
     tries |-> 0, i |-> 1]

NoWalk == [st |-> "new", mode |-> "no", connect |-> FALSE, tree |-> {}, stack |-> <<>>,
           visited |-> {}]

TypeOK ==
    /\ \A d \in Dc : log[d].gen \in 0..MaxChange /\ log[d].page \in Pages[d]
    /\ conn \subseteq Connection
    /\ \A w \in Walker :
          /\ walk[w].st \in {"new", "scanned", "run", "done"}
          /\ walk[w].mode \in {"no", "auto", "force"}
          /\ walk[w].connect \in BOOLEAN
          /\ walk[w].tree \subseteq Connection
          /\ walk[w].visited \subseteq Dc
          /\ Len(walk[w].stack) <= MaxDepth + 1
          /\ \A k \in 1..Len(walk[w].stack) : walk[w].stack[k] \in Frame
          /\ read[w] \subseteq [dc : Dc, gen : 0..MaxChange, depth : 0..MaxDepth]
    /\ changes \in 0..MaxChange /\ faults \in 0..MaxFault

Top(w) == walk[w].stack[Len(walk[w].stack)]

(* The walk of w runs and the DC on top is at step at. *)
At(w, at) == walk[w].st = "run" /\ Top(w).at = at

SetTop(w, f) == walk' = [walk EXCEPT ![w].stack[Len(walk[w].stack)] = f]

Fault == faults < MaxFault /\ faults' = faults + 1

(* _nvmf_discover() returns to the frame below, or the walk is over. *)
Pop(w) ==
    LET s == Front(walk[w].stack)
    IN  walk' = [walk EXCEPT ![w].stack = s,
                             ![w].st = IF s = <<>> THEN "done" ELSE "run"]

--------------------------------------------------------------------------------
(* libnvmf_discover() and dc_open() *)

(* libnvme_scan_topology(): what is connected now.  connect: connect-all. *)
Scan(w) ==
    /\ walk[w].st = "new"
    /\ \E m \in Modes, all \in BOOLEAN :
          walk' = [walk EXCEPT ![w].st = "scanned", ![w].mode = m, ![w].connect = all,
                               ![w].tree = conn]
    /\ UNCHANGED <<log, conn, past, read, bounds>>

Push(w, f) ==
    walk' = [walk EXCEPT ![w].st = "run", ![w].stack = Append(@, f)]

(* lookup_ctrl() and lookup_live_ctrl(): a connection that the scan found. *)
Found(w, d) == {c \in walk[w].tree : c.to = d}

(* A connection that exists is reused, unless --no-reuse is given. *)
dc_open(w) ==
    /\ walk[w].st = "scanned"
    /\ \/ /\ \E c \in Found(w, Primary) : Push(w, NewFrame(c, FALSE, None, "header"))
          /\ UNCHANGED <<conn, faults>>
       \/ LET c == [to |-> Primary, by |-> w] IN
          /\ Push(w, NewFrame(c, TRUE, None, "identify"))
          /\ conn' = conn \cup {c}
          /\ UNCHANGED faults
       \/ /\ Fault
          /\ walk' = [walk EXCEPT ![w].st = "done"]
          /\ UNCHANGED conn
    /\ UNCHANGED <<log, past, read, changes>>

(* nvmf_create_discovery_ctrl(): a DC with a unique name is connected      *)
(* again with that name.  If it cannot be identified it is disconnected.   *)
nvmf_create_discovery_ctrl(w) ==
    /\ At(w, "identify")
    /\ \/ /\ Top(w).c \in conn
          /\ SetTop(w, [Top(w) EXCEPT !.at = "header"])
          /\ UNCHANGED <<conn, faults>>
       \/ /\ IF Top(w).c \in conn THEN Fault ELSE UNCHANGED faults
          /\ conn' = conn \ {Top(w).c}
          /\ Pop(w)
    /\ UNCHANGED <<log, past, read, changes>>

--------------------------------------------------------------------------------
(* nvme_discovery_log() *)

(* Mutant: a command that fails is tried again, without a count. *)
ReadFails_Again(w) ==
    /\ walk[w].st = "run" /\ Top(w).at \in {"header", "entries", "again"}
    /\ IF Top(w).c \in conn THEN Fault ELSE UNCHANGED faults
    /\ SetTop(w, [Top(w) EXCEPT !.at = "header"])
    /\ UNCHANGED <<log, conn, past, read, changes>>

(* A command fails, because the connection is gone or for another reason:  *)
(* _nvmf_discover() returns at once.                                       *)
ReadFails(w) ==
    /\ walk[w].st = "run" /\ Top(w).at \in {"header", "entries", "again"}
    /\ IF Top(w).c \in conn THEN Fault ELSE UNCHANGED faults
    /\ Pop(w)
    /\ UNCHANGED <<log, conn, past, read, changes>>

(* The loop begins with the header f.gen, f.num: without records it is     *)
(* over at once.                                                           *)
Begin(f, d) ==
    LET g == [f EXCEPT !.gen = log[d].gen, !.num = Len(log[d].page), !.page = <<>>]
    IN  [g EXCEPT !.at = IF g.num = 0 THEN "survey" ELSE "entries"]

get_header(w) ==
    /\ At(w, "header") /\ Top(w).c \in conn
    /\ SetTop(w, Begin(Top(w), Top(w).c.to))
    /\ UNCHANGED <<log, conn, past, read, bounds>>

(* libnvme_get_log(): one command after the other, of the page as it is.   *)
libnvme_get_log(w) ==
    /\ At(w, "entries") /\ Top(w).c \in conn
    /\ LET f == Top(w)
           now == log[f.c.to].page
           n == IF Len(f.page) + Chunk < f.num THEN Len(f.page) + Chunk ELSE f.num
           got == [k \in 1..n |-> IF k <= Len(f.page) THEN f.page[k]
                                  ELSE IF k <= Len(now) THEN now[k] ELSE None]
       IN  SetTop(w, [f EXCEPT !.page = got, !.at = IF n = f.num THEN "again" ELSE "entries"])
    /\ UNCHANGED <<log, conn, past, read, bounds>>

(* Mutant: when the retries are used up the last page is taken. *)
GiveUpTakesPage(w, f) == SetTop(w, [f EXCEPT !.at = "survey"])

(* The generation changed on every try (EAGAIN). *)
GiveUp(w, f) == Pop(w)

(* The header again: the page is whole if its generation is the same.  A   *)
(* change starts over with the new header, max_retries times in all.       *)
get_header_again(w) ==
    /\ At(w, "again") /\ Top(w).c \in conn
    /\ LET f == Top(w)
           g == [f EXCEPT !.tries = @ + 1]
       IN  \/ /\ log[f.c.to].gen = f.gen
              /\ SetTop(w, [f EXCEPT !.at = "survey"])
           \/ /\ log[f.c.to].gen # f.gen /\ g.tries < MaxRetries
              /\ SetTop(w, Begin(g, f.c.to))
           \/ /\ log[f.c.to].gen # f.gen /\ g.tries = MaxRetries
              /\ GiveUp(w, f)
    /\ UNCHANGED <<log, conn, past, read, bounds>>

--------------------------------------------------------------------------------
(* _nvmf_discover(): what becomes of the connection *)

(* dc_entry_is_self(): a DC may also list its other ports. *)
dc_entry_is_self(d, e) == e.kind = "self" /\ e.to = d

(* Mutant: the referral is preferred to the entry of the DC itself. *)
epcsd_Referral(d, page, up) ==
    LET own == {k \in 1..Len(page) : dc_entry_is_self(d, page[k])}
    IN  IF up # None THEN up ELSE own # {} /\ page[Max(own)].epcsd

(* The last entry of its own in the page of DC d tells whether d supports  *)
(* explicit persistent connections, then the referral, then nobody.        *)
epcsd(d, page, up) ==
    LET own == {k \in 1..Len(page) : dc_entry_is_self(d, page[k])}
    IN  IF own # {} THEN page[Max(own)].epcsd ELSE up = TRUE

(* Mutant: the ownership of the connection is not looked at. *)
dc_decide_Borrowed(mode, f) ==
    mode = "no" \/ (mode = "auto" /\ ~epcsd(f.c.to, f.page, f.up))

(* Whether the connection of the walked DC goes. *)
dc_decide(mode, f) ==
    /\ f.own
    /\ mode = "no" \/ (mode = "auto" /\ ~epcsd(f.c.to, f.page, f.up))

(* dc_visited_register() and pass 1.  A DC is disconnected before its      *)
(* referrals are walked.                                                   *)
dc_survey(w) ==
    /\ At(w, "survey")
    /\ LET f == Top(w) IN
       /\ walk' = [walk EXCEPT ![w].stack[Len(walk[w].stack)].at = "walk",
                               ![w].visited = @ \cup {f.c.to}]
       /\ conn' = IF dc_decide(walk[w].mode, f) THEN conn \ {f.c} ELSE conn
       /\ read' = [read EXCEPT ![w] = @ \cup {[dc |-> f.c.to, gen |-> f.gen,
                                               depth |-> Len(walk[w].stack) - 1]}]
    /\ UNCHANGED <<log, past, bounds>>

--------------------------------------------------------------------------------
(* _nvmf_discover(): pass 2 *)

(* The walk is at an entry of this kind. *)
AtEntry(w, kind) ==
    At(w, "walk") /\ Top(w).i <= Len(Top(w).page) /\ Top(w).page[Top(w).i].kind = kind

Target(w) == Top(w).page[Top(w).i].to

(* The frames with the next entry of the top one. *)
Advanced(w) == [walk[w].stack EXCEPT ![Len(walk[w].stack)].i = @ + 1]

Skip(w) == walk' = [walk EXCEPT ![w].stack = Advanced(w)]

skip_self(w) ==
    /\ AtEntry(w, "self")
    /\ Skip(w)
    /\ UNCHANGED <<log, conn, past, read, bounds>>

(* nvmf_connect_disc_entry(): the kernel refuses a second connection to an *)
(* I/O controller (EALREADY), and any connect may fail.                    *)
Refused(x) == x \in Excluded \/ (x \in Io /\ \E c \in conn : c.to = x)

dc_connect_leaf_entry(w) ==
    /\ AtEntry(w, "nvme")
    /\ Skip(w)
    /\ \/ /\ ~walk[w].connect \/ Refused(Target(w))
          /\ UNCHANGED <<conn, faults>>
       \/ /\ walk[w].connect /\ ~Refused(Target(w))
          /\ conn' = conn \cup {[to |-> Target(w), by |-> w]}
          /\ UNCHANGED faults
       \/ /\ walk[w].connect /\ ~Refused(Target(w))
          /\ Fault
          /\ UNCHANGED conn
    /\ UNCHANGED <<log, past, read, changes>>

(* Mutant: a DC is entered in the visited set, but it is not looked up. *)
dc_visited_has_Not(w, d) == FALSE

dc_visited_has(w, d) == d \in walk[w].visited

(* A referral is descended to over connection c. *)
Descend(w, c, own) ==
    walk' = [walk EXCEPT
        ![w].visited = @ \cup {c.to},
        ![w].stack = Append(Advanced(w),
            NewFrame(c, own, Top(w).page[Top(w).i].epcsd, "header"))]

(* Mutants: the depth is counted from one; there is no limit. *)
Deep_OffByOne(w) == Len(walk[w].stack) >= MaxDepth
Deep_Never(w) == FALSE

(* Whether the referral depth limit is reached: the primary has depth 0. *)
Deep(w) == Len(walk[w].stack) - 1 >= MaxDepth

(* A connection that the scan found is borrowed, whether or not it is      *)
(* still there.                                                            *)
dc_walk_referral(w) ==
    /\ AtEntry(w, "disc")
    /\ LET d == Target(w)
           skip == Deep(w) \/ dc_visited_has(w, d)
           c == [to |-> d, by |-> w]
       IN  \/ /\ skip
              /\ Skip(w)
              /\ UNCHANGED <<conn, faults>>
           \/ /\ ~skip
              /\ \E b \in Found(w, d) : Descend(w, b, FALSE)
              /\ UNCHANGED <<conn, faults>>
           \/ /\ ~skip /\ Found(w, d) = {} /\ Refused(d)
              /\ Skip(w)
              /\ UNCHANGED <<conn, faults>>
           \/ /\ ~skip /\ Found(w, d) = {} /\ ~Refused(d)
              /\ Descend(w, c, TRUE)
              /\ conn' = conn \cup {c}
              /\ UNCHANGED faults
           \/ /\ ~skip /\ Found(w, d) = {} /\ ~Refused(d)
              /\ Fault
              /\ Skip(w)
              /\ UNCHANGED conn
    /\ UNCHANGED <<log, past, read, changes>>

(* The page is at its end.  dc_walk_referral() does not look at the result *)
(* of the DC it descended to.                                              *)
walk_end(w) ==
    /\ At(w, "walk") /\ Top(w).i > Len(Top(w).page)
    /\ Pop(w)
    /\ UNCHANGED <<log, conn, past, read, bounds>>

--------------------------------------------------------------------------------
(* The fabric *)

(* A DC has another page, with a new generation. *)
Change(d) ==
    /\ changes < MaxChange
    /\ \E p \in Pages[d] \ {log[d].page} :
          /\ log' = [log EXCEPT ![d] = [gen |-> log[d].gen + 1, page |-> p]]
          /\ past' = [past EXCEPT ![d] = Append(@, p)]
    /\ changes' = changes + 1
    /\ UNCHANGED <<conn, walk, read, faults>>

(* Another program connects a controller. *)
Connected(x) ==
    /\ changes < MaxChange /\ [to |-> x, by |-> Other] \notin conn
    /\ conn' = conn \cup {[to |-> x, by |-> Other]}
    /\ changes' = changes + 1
    /\ UNCHANGED <<log, walk, past, read, faults>>

(* A connection is lost, or another program disconnects it. *)
Lost(c) ==
    /\ Fault
    /\ conn' = conn \ {c}
    /\ UNCHANGED <<log, walk, past, read, changes>>

Init ==
    /\ log \in [Dc -> [gen : {0}, page : UNION {Pages[d] : d \in Dc}]]
    /\ \A d \in Dc : log[d].page \in Pages[d]
    /\ conn \in SUBSET [to : Before, by : {Other}]
    /\ walk = [w \in Walker |-> NoWalk]
    /\ past = [d \in Dc |-> <<log[d].page>>]
    /\ read = [w \in Walker |-> {}]
    /\ changes = 0 /\ faults = 0

Step(w) ==
    \/ Scan(w) \/ dc_open(w) \/ nvmf_create_discovery_ctrl(w)
    \/ ReadFails(w) \/ get_header(w) \/ libnvme_get_log(w) \/ get_header_again(w)
    \/ dc_survey(w) \/ skip_self(w) \/ dc_connect_leaf_entry(w) \/ dc_walk_referral(w)
    \/ walk_end(w)

Next ==
    \/ \E w \in Walker : Step(w)
    \/ \E d \in Dc : Change(d)
    \/ \E x \in Dc \cup Io : Connected(x)
    \/ \E c \in conn : Lost(c)

Spec == Init /\ [][Next]_vars /\ \A w \in Walker : WF_vars(Step(w))

--------------------------------------------------------------------------------
(* Properties *)

(* The pages of DC d by generation: past[d][gen + 1]. *)
PageOf(r) == past[r.dc][r.gen + 1]

(* nvme_discovery_log(): what a walk acts on is a page that the DC had at  *)
(* one time, never the pieces of two, although the page is read with       *)
(* several commands and may change between any two of them.                *)
SnapshotRead ==
    \A w \in Walker, k \in 1..(MaxDepth + 1) :
        k <= Len(walk[w].stack) /\ walk[w].stack[k].at \in {"survey", "walk"}
        => LET f == walk[w].stack[k]
           IN  f.page = past[f.c.to][f.gen + 1]

(* dc_decide(), DC_BORROWED: a program disconnects its own connections     *)
(* only, never one that it found, whoever made it.                         *)
OthersKept ==
    [][\A w \in Walker :
          walk'[w] # walk[w] => \A c \in conn \ conn' : c.by = w]_vars

(* Whether w read a referral to DC d that says that d persists. *)
Referred(w, d) ==
    \E q \in read[w] : \E e \in ToSet(PageOf(q)) : e.kind = "disc" /\ e.to = d /\ e.epcsd

(* Whether w read that DC d persists: in the last entry of d in the page   *)
(* of d itself, or, if that has no entry of d, in a referral to it.        *)
Reported(w, d) ==
    \E r \in read[w] :
        /\ r.dc = d
        /\ LET page == PageOf(r)
               own == {k \in DOMAIN page : dc_entry_is_self(d, page[k])}
           IN  \/ \E k \in own : page[k].epcsd /\ \A j \in own : j <= k
               \/ own = {} /\ Referred(w, d)

(* --persistent: of the DCs that a program connected and whose page it     *)
(* read, only those stay connected that the mode lets persist: all with    *)
(* "force", those that report EPCSD with "auto", none with "no".           *)
Persisted ==
    \A w \in Walker : \A r \in read[w] :
        [to |-> r.dc, by |-> w] \in conn
        => walk[w].mode = "force" \/ (walk[w].mode = "auto" /\ Reported(w, r.dc))

(* dc_visited: no DC is opened again after it was read in this walk,       *)
(* whatever cycles the referrals make and however the pages change.        *)
ReadOnce ==
    \A w \in Walker : \A r \in read[w] : \A k \in 1..Len(walk[w].stack) :
        walk[w].stack[k].c.to = r.dc => walk[w].stack[k].at = "walk"

(* A walk that is over has followed every referral of every page that it   *)
(* read above the depth limit, except to DCs that are excluded or that     *)
(* could not be connected.                                                 *)
Followed ==
    \A w \in Walker :
        walk[w].st = "done" =>
        \A r \in read[w] : r.depth < MaxDepth =>
        \A e \in ToSet(PageOf(r)) :
            e.kind = "disc" => e.to \in walk[w].visited \cup Excluded \/ faults > 0

(* Every walk ends, also when its connections are lost under it and the    *)
(* pages change.                                                           *)
Terminates == \A w \in Walker : <>(walk[w].st = "done")
================================================================================
