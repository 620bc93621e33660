---------------------------- MODULE DiscoverProofs ----------------------------
(***************************************************************************)
(* Proofs about the walk over the Discovery Log Pages, for any number of    *)
(* programs, of controllers, of pages and of levels: what a walk acts on is *)
(* a page that the DC had, no DC is read twice, no referral is missed, and  *)
(* the connections of others are left alone.                                *)
(***************************************************************************)
EXTENDS Discover, SequenceTheorems, WellFoundedInduction, TLAPS

Walk == [st : {"new", "scanned", "run", "done"}, mode : {"no", "auto", "force"},
         connect : BOOLEAN, tree : SUBSET Connection, stack : Seq(Frame),
         visited : SUBSET Dc]

Record == [dc : Dc, gen : 0..MaxChange, depth : 0..MaxDepth]

(* The types of the variables as functions. *)
Shape ==
    /\ log \in [Dc -> [gen : 0..MaxChange, page : Seq(Entry)]]
    /\ past \in [Dc -> Seq(Seq(Entry))]
    /\ conn \subseteq Connection
    /\ walk \in [Walker -> Walk]
    /\ read \in [Walker -> SUBSET Record]
    /\ changes \in 0..MaxChange /\ faults \in 0..MaxFault

(* The log page of a DC is the last of its pages, and the generation        *)
(* counter is the number of its changes.                                    *)
LogInv ==
    \A d \in Dc :
        /\ log[d].gen <= changes
        /\ Len(past[d]) = log[d].gen + 1
        /\ past[d][log[d].gen + 1] = log[d].page
        /\ \A k \in 1..Len(past[d]) : past[d][k] \in Pages[d]

(* What was read of the entries so far is of the page whose header was      *)
(* read, as long as the DC still has that page.                             *)
ReadSoFar(f) ==
    /\ Len(f.page) <= f.num
    /\ f.at = "again" => Len(f.page) = f.num
    /\ f.gen = log[f.c.to].gen =>
          /\ f.num = Len(log[f.c.to].page)
          /\ \A k \in 1..Len(f.page) : f.page[k] = log[f.c.to].page[k]

(* A DC that is walked by w. *)
FrameInv(w, f) ==
    /\ f.c.to \in Dc
    /\ f.own <=> f.c.by = w
    /\ f.at = "identify" => f.own
    /\ f.up = TRUE => Referred(w, f.c.to)
    /\ f.at # "walk" => f.i = 1
    /\ f.gen <= log[f.c.to].gen
    /\ f.at \in {"entries", "again"} => ReadSoFar(f)
    /\ f.at \in {"survey", "walk"} => f.page = past[f.c.to][f.gen + 1]

(* What dc_survey() notes of the frame f, the k-th. *)
RecordOf(f, k) == [dc |-> f.c.to, gen |-> f.gen, depth |-> k - 1]

(* The frames below the top have been surveyed and are in pass 2, and all   *)
(* but the primary were entered in the visited set before they were opened. *)
PlaceInv(w, k) ==
    LET f == walk[w].stack[k]
    IN  /\ FrameInv(w, f)
        /\ k < Len(walk[w].stack) => f.at = "walk"
        /\ f.at = "walk" => RecordOf(f, k) \in read[w]
        /\ k > 1 \/ f.at = "walk" => f.c.to \in walk[w].visited

StackInv(w) ==
    /\ Len(walk[w].stack) <= MaxDepth + 1
    /\ \A k \in 1..Len(walk[w].stack) : PlaceInv(w, k)

(* The life of a walk; before it runs, w has no connections, so that none   *)
(* of its own is among those that its scan found.                           *)
LifeInv(w) ==
    /\ walk[w].st \in {"new", "scanned"} =>
          /\ walk[w].stack = <<>> /\ read[w] = {} /\ walk[w].visited = {}
          /\ \A c \in conn : c.by # w
    /\ walk[w].st = "run" => walk[w].stack # <<>>
    /\ walk[w].st = "done" => walk[w].stack = <<>>
    /\ \A c \in walk[w].tree : c.by # w

(* A DC that was read was visited, and its page is on record. *)
ReadInv(w) == \A r \in read[w] : r.dc \in walk[w].visited /\ r.gen <= log[r.dc].gen

(* A running walk has visited, or is at, every DC it connected, and has no  *)
(* connection of its own to a DC whose connection it borrows.               *)
ConnInv(w) ==
    /\ walk[w].st # "done" =>
        \A c \in conn :
            c.by = w /\ c.to \in Dc =>
                \/ c.to \in walk[w].visited
                \/ \E k \in 1..Len(walk[w].stack) : walk[w].stack[k].c.to = c.to
    /\ \A k \in 1..Len(walk[w].stack) :
        ~walk[w].stack[k].own => [to |-> walk[w].stack[k].c.to, by |-> w] \notin conn

(* Persisted and ReadOnce, for one walk. *)
PersistInv(w) ==
    \A r \in read[w] :
        [to |-> r.dc, by |-> w] \in conn
        => walk[w].mode = "force" \/ (walk[w].mode = "auto" /\ Reported(w, r.dc))

OnceInv(w) ==
    \A r \in read[w] : \A k \in 1..Len(walk[w].stack) :
        walk[w].stack[k].c.to = r.dc => walk[w].stack[k].at = "walk"

(* The entry e needs nothing more of w. *)
Met(w, e) == e.kind = "disc" => e.to \in walk[w].visited \cup Excluded \/ faults > 0

(* All entries of a page that was read have been followed, or the page is   *)
(* that of a frame and the entries before the current one have been.        *)
FollowInv(w) ==
    \A r \in read[w] : r.depth < MaxDepth =>
        \/ \A j \in 1..Len(PageOf(r)) : Met(w, PageOf(r)[j])
        \/ \E k \in 1..Len(walk[w].stack) :
              /\ walk[w].stack[k].at = "walk" /\ RecordOf(walk[w].stack[k], k) = r
              /\ \A j \in 1..Len(PageOf(r)) : j < walk[w].stack[k].i => Met(w, PageOf(r)[j])

WalkInv(w) ==
    /\ StackInv(w) /\ LifeInv(w) /\ ReadInv(w) /\ ConnInv(w)
    /\ PersistInv(w) /\ OnceInv(w) /\ FollowInv(w)

IInv == Shape /\ LogInv /\ \A w \in Walker : WalkInv(w)

-----------------------------------------------------------------------------

(* Stacks *)

(* Replacing the top frame. *)
LEMMA SetTopStack ==
    ASSUME Shape, NEW w \in Walker, walk[w].stack # <<>>, NEW f \in Frame, SetTop(w, f)
    PROVE  LET s == walk[w].stack
               t == walk'[w].stack
           IN  /\ walk' \in [Walker -> Walk]
               /\ \A v \in Walker \ {w} : walk'[v] = walk[v]
               /\ walk'[w].st = walk[w].st /\ walk'[w].mode = walk[w].mode
               /\ walk'[w].tree = walk[w].tree /\ walk'[w].visited = walk[w].visited
               /\ Len(s) \in Nat \ {0} /\ Len(t) = Len(s)
               /\ \A k \in 1..Len(s) : t[k] = IF k = Len(s) THEN f ELSE s[k]
  <1> DEFINE s == walk[w].stack
             t == [s EXCEPT ![Len(s)] = f]
  <1>1. walk[w] \in Walk /\ s \in Seq(Frame)
    BY DEF Shape, Walk
  <1>2. Len(s) \in Nat \ {0}
    BY <1>1, EmptySeq, LenProperties
  <1>3. t \in Seq(Frame) /\ Len(t) = Len(s)
        /\ \A k \in 1..Len(s) : t[k] = IF k = Len(s) THEN f ELSE s[k]
    BY <1>1, <1>2, ExceptSeq
  <1>4. walk' = [walk EXCEPT ![w] = [walk[w] EXCEPT !.stack = t]]
    BY DEF SetTop
  <1> HIDE DEF t
  <1>5. LET r == [walk[w] EXCEPT !.stack = t]
        IN  /\ r \in Walk /\ r.stack = t /\ r.st = walk[w].st /\ r.mode = walk[w].mode
            /\ r.tree = walk[w].tree /\ r.visited = walk[w].visited
    BY <1>1, <1>3 DEF Walk
  <1>6. walk' \in [Walker -> Walk] /\ walk'[w] = [walk[w] EXCEPT !.stack = t]
        /\ \A v \in Walker \ {w} : walk'[v] = walk[v]
    BY <1>4, <1>5 DEF Shape
  <1> QED  BY <1>2, <1>3, <1>5, <1>6

(* Taking the top frame off. *)
LEMMA PopStack ==
    ASSUME Shape, NEW w \in Walker, walk[w].stack # <<>>, Pop(w)
    PROVE  LET s == walk[w].stack
               t == walk'[w].stack
           IN  /\ walk' \in [Walker -> Walk]
               /\ \A v \in Walker \ {w} : walk'[v] = walk[v]
               /\ walk'[w].st = IF t = <<>> THEN "done" ELSE "run"
               /\ walk'[w].mode = walk[w].mode /\ walk'[w].tree = walk[w].tree
               /\ walk'[w].visited = walk[w].visited
               /\ Len(s) \in Nat \ {0} /\ Len(t) = Len(s) - 1
               /\ \A k \in 1..(Len(s) - 1) : t[k] = s[k]
  <1> DEFINE s == walk[w].stack
             t == Front(s)
             st == IF t = <<>> THEN "done" ELSE "run"
  <1>1. walk[w] \in Walk /\ s \in Seq(Frame)
    BY DEF Shape, Walk
  <1>2. Len(s) \in Nat \ {0} /\ \A k \in 1..Len(s) : s[k] \in Frame
    BY <1>1, EmptySeq, LenProperties, ElementOfSeq
  <1>3. t \in Seq(Frame) /\ Len(t) = Len(s) - 1 /\ \A k \in 1..(Len(s) - 1) : t[k] = s[k]
    <2>1. \A k \in 1..(Len(s) - 1) : s[k] \in Frame
      BY <1>2
    <2>2. /\ t \in Seq(Frame)
          /\ Len(t) = IF 1 <= Len(s) - 1 THEN (Len(s) - 1) - 1 + 1 ELSE 0
          /\ \A k \in 1..((Len(s) - 1) - 1 + 1) : t[k] = s[1 + k - 1]
      BY <2>1, <1>2, SubSeqProperties DEF Front
    <2>3. \A k \in 1..(Len(s) - 1) : 1 + k - 1 = k
      BY <1>2
    <2> QED  BY <2>2, <2>3, <1>2
  <1>4. walk' = [walk EXCEPT ![w] = [[walk[w] EXCEPT !.stack = t] EXCEPT !.st = st]]
    BY <1>1 DEF Pop, Shape
  <1> HIDE DEF t
  <1>5. st \in {"done", "run"}
    OBVIOUS
  <1> HIDE DEF st
  <1>6. LET r == [[walk[w] EXCEPT !.stack = t] EXCEPT !.st = st]
        IN  /\ r \in Walk /\ r.stack = t /\ r.st = st
            /\ r.mode = walk[w].mode /\ r.tree = walk[w].tree
            /\ r.visited = walk[w].visited
    BY <1>1, <1>3, <1>5 DEF Walk
  <1>7. walk' \in [Walker -> Walk]
        /\ walk'[w] = [[walk[w] EXCEPT !.stack = t] EXCEPT !.st = st]
        /\ \A v \in Walker \ {w} : walk'[v] = walk[v]
    BY <1>4, <1>6 DEF Shape
  <1> QED  BY <1>2, <1>3, <1>6, <1>7 DEF st

(* The top frame goes on to its next entry. *)
LEMMA AdvancedStack ==
    ASSUME Shape, NEW w \in Walker, walk[w].stack # <<>>
    PROVE  LET s == walk[w].stack
               t == Advanced(w)
           IN  /\ t \in Seq(Frame) /\ Len(s) \in Nat \ {0} /\ Len(t) = Len(s)
               /\ \A k \in 1..Len(s) :
                    IF k = Len(s) THEN t[k] = [s[k] EXCEPT !.i = @ + 1] ELSE t[k] = s[k]
               /\ [s[Len(s)] EXCEPT !.i = @ + 1] \in Frame
  <1> DEFINE s == walk[w].stack
             f == [s[Len(s)] EXCEPT !.i = @ + 1]
  <1>1. s \in Seq(Frame)
    BY DEF Shape, Walk
  <1>2. Len(s) \in Nat \ {0} /\ s[Len(s)] \in Frame
    BY <1>1, EmptySeq, LenProperties, ElementOfSeq
  <1>3. f \in Frame
    <2>1. \A g \in Frame, n \in Nat \ {0} : [g EXCEPT !.i = n] \in Frame
      BY DEF Frame
    <2>2. s[Len(s)].i + 1 \in Nat \ {0}
      <3>1. s[Len(s)].i \in Nat
        BY <1>2 DEF Frame
      <3> QED  BY <3>1
    <2> QED  BY <1>2, <2>1, <2>2
  <1>4. Advanced(w) = [s EXCEPT ![Len(s)] = f]
    BY DEF Advanced
  <1> HIDE DEF f
  <1>5. /\ [s EXCEPT ![Len(s)] = f] \in Seq(Frame)
        /\ Len([s EXCEPT ![Len(s)] = f]) = Len(s)
        /\ \A k \in 1..Len(s) : [s EXCEPT ![Len(s)] = f][k] = IF k = Len(s) THEN f ELSE s[k]
    BY <1>1, <1>2, <1>3, ExceptSeq
  <1> QED  BY <1>2, <1>3, <1>4, <1>5 DEF f

LEMMA SkipStack ==
    ASSUME Shape, NEW w \in Walker, walk[w].stack # <<>>, Skip(w)
    PROVE  LET s == walk[w].stack
               t == walk'[w].stack
           IN  /\ walk' \in [Walker -> Walk]
               /\ \A v \in Walker \ {w} : walk'[v] = walk[v]
               /\ walk'[w].st = walk[w].st /\ walk'[w].mode = walk[w].mode
               /\ walk'[w].tree = walk[w].tree /\ walk'[w].visited = walk[w].visited
               /\ Len(s) \in Nat \ {0} /\ Len(t) = Len(s)
               /\ \A k \in 1..Len(s) :
                    IF k = Len(s) THEN t[k] = [s[k] EXCEPT !.i = @ + 1] ELSE t[k] = s[k]
  <1> DEFINE t == Advanced(w)
  <1>1. t \in Seq(Frame)
    BY AdvancedStack
  <1>2. walk' = [walk EXCEPT ![w] = [walk[w] EXCEPT !.stack = t]]
    BY DEF Skip
  <1>3. walk[w] \in Walk
    BY DEF Shape
  <1> HIDE DEF t
  <1>4. LET r == [walk[w] EXCEPT !.stack = t]
        IN  /\ r \in Walk /\ r.stack = t /\ r.st = walk[w].st /\ r.mode = walk[w].mode
            /\ r.tree = walk[w].tree /\ r.visited = walk[w].visited
    BY <1>1, <1>3 DEF Walk
  <1>5. walk' \in [Walker -> Walk] /\ walk'[w] = [walk[w] EXCEPT !.stack = t]
        /\ \A v \in Walker \ {w} : walk'[v] = walk[v]
    BY <1>2, <1>4 DEF Shape
  <1>6. /\ Len(walk[w].stack) \in Nat \ {0} /\ Len(t) = Len(walk[w].stack)
        /\ \A k \in 1..Len(walk[w].stack) :
             IF k = Len(walk[w].stack) THEN t[k] = [walk[w].stack[k] EXCEPT !.i = @ + 1]
             ELSE t[k] = walk[w].stack[k]
    BY AdvancedStack DEF t
  <1> QED  BY <1>4, <1>5, <1>6

(* A frame for a referral is put on the stack. *)
LEMMA DescendStack ==
    ASSUME Shape, NEW w \in Walker, walk[w].stack # <<>>, NEW c \in Connection, c.to \in Dc,
           NEW own \in BOOLEAN, Top(w).page[Top(w).i].epcsd \in BOOLEAN, Descend(w, c, own)
    PROVE  LET s == walk[w].stack
               t == walk'[w].stack
               f == NewFrame(c, own, Top(w).page[Top(w).i].epcsd, "header")
           IN  /\ walk' \in [Walker -> Walk] /\ f \in Frame
               /\ \A v \in Walker \ {w} : walk'[v] = walk[v]
               /\ walk'[w].st = walk[w].st /\ walk'[w].mode = walk[w].mode
               /\ walk'[w].tree = walk[w].tree
               /\ walk'[w].visited = walk[w].visited \cup {c.to}
               /\ Len(s) \in Nat \ {0} /\ Len(t) = Len(s) + 1
               /\ \A k \in 1..Len(s) :
                    IF k = Len(s) THEN t[k] = [s[k] EXCEPT !.i = @ + 1] ELSE t[k] = s[k]
               /\ t[Len(s) + 1] = f
  <1> DEFINE s == walk[w].stack
             f == NewFrame(c, own, Top(w).page[Top(w).i].epcsd, "header")
             t == Append(Advanced(w), f)
             visited == walk[w].visited \cup {c.to}
  <1>1. f \in Frame
    BY DiscoverAssumption, EmptySeq DEF NewFrame, Frame
  <1> HIDE DEF f
  <1>2. /\ t \in Seq(Frame) /\ Len(s) \in Nat \ {0} /\ Len(t) = Len(s) + 1
        /\ \A k \in 1..Len(s) : t[k] = Advanced(w)[k]
        /\ t[Len(s) + 1] = f
    <2>1. /\ Advanced(w) \in Seq(Frame) /\ Len(s) \in Nat \ {0}
          /\ Len(Advanced(w)) = Len(s)
      BY AdvancedStack
    <2> QED  BY <1>1, <2>1, AppendProperties
  <1>3. walk' = [walk EXCEPT ![w] = [[walk[w] EXCEPT !.visited = visited] EXCEPT !.stack = t]]
    BY DEF Descend, f, Shape
  <1>4. walk[w] \in Walk /\ visited \in SUBSET Dc
    BY DEF Shape, Walk
  <1> HIDE DEF t, visited
  <1>5. LET r == [[walk[w] EXCEPT !.visited = visited] EXCEPT !.stack = t]
        IN  /\ r \in Walk /\ r.stack = t /\ r.st = walk[w].st /\ r.mode = walk[w].mode
            /\ r.tree = walk[w].tree /\ r.visited = visited
    BY <1>2, <1>4 DEF Walk
  <1>6. walk' \in [Walker -> Walk]
        /\ walk'[w] = [[walk[w] EXCEPT !.visited = visited] EXCEPT !.stack = t]
        /\ \A v \in Walker \ {w} : walk'[v] = walk[v]
    BY <1>3, <1>5 DEF Shape
  <1>7. \A k \in 1..Len(s) :
           IF k = Len(s) THEN Advanced(w)[k] = [s[k] EXCEPT !.i = @ + 1]
           ELSE Advanced(w)[k] = s[k]
    BY AdvancedStack
  <1> QED  BY <1>1, <1>2, <1>5, <1>6, <1>7 DEF f, visited

-----------------------------------------------------------------------------

(* What w has read that a DC persists does not change with what it reads    *)
(* later, nor with the pages that the DCs have later.                       *)
LEMMA HistoryGrows ==
    ASSUME NEW w \in Walker, NEW d, read[w] \subseteq read'[w],
           \A r \in read[w] : PageOf(r)' = PageOf(r)
    PROVE  /\ Referred(w, d) => Referred(w, d)'
           /\ Reported(w, d) => Reported(w, d)'
  <1>1. Referred(w, d) => Referred(w, d)'
    BY DEF Referred
  <1>2. ASSUME Reported(w, d) PROVE Reported(w, d)'
    <2> DEFINE own(r) == {k \in DOMAIN PageOf(r) : dc_entry_is_self(d, PageOf(r)[k])}
    <2>1. PICK r \in read[w] :
             /\ r.dc = d
             /\ \/ \E k \in own(r) : PageOf(r)[k].epcsd /\ \A j \in own(r) : j <= k
                \/ own(r) = {} /\ Referred(w, d)
      BY <1>2 DEF Reported
    <2>2. PageOf(r)' = PageOf(r) /\ r \in read'[w]
      BY <2>1
    <2>3. own(r)' = own(r)
      BY <2>2
    <2> QED  BY <1>1, <2>1, <2>2, <2>3 DEF Reported
  <1> QED  BY <1>1, <1>2

(* The numbers of the walk that the arguments compare. *)
LEMMA Numbers ==
    ASSUME Shape
    PROVE  /\ \A d \in Dc : log[d].gen \in Nat /\ log[d].page \in Seq(Entry)
           /\ \A w \in Walker : \A k \in 1..Len(walk[w].stack) :
                walk[w].stack[k] \in Frame
           /\ \A w \in Walker : /\ walk[w].stack \in Seq(Frame)
                                /\ Len(walk[w].stack) \in Nat
                                /\ \A r \in read[w] : /\ r \in Record /\ r.dc \in Dc
                                                       /\ r.gen \in Nat /\ r.depth \in Nat
           /\ \A f \in Frame : /\ f.gen \in Nat /\ f.num \in Nat /\ f.i \in Nat \ {0}
                               /\ Len(f.page) \in Nat
           /\ MaxDepth \in Nat /\ MaxChange \in Nat /\ faults \in Nat /\ changes \in Nat
  <1>1. MaxDepth \in Nat /\ MaxChange \in Nat /\ MaxFault \in Nat
    BY DiscoverAssumption
  <1>2. \A d \in Dc : log[d].gen \in Nat /\ log[d].page \in Seq(Entry)
    BY <1>1 DEF Shape
  <1>3. \A w \in Walker : walk[w].stack \in Seq(Frame)
    BY DEF Shape, Walk
  <1>4. \A w \in Walker : Len(walk[w].stack) \in Nat
    BY <1>3, LenProperties
  <1>5. \A w \in Walker : \A k \in 1..Len(walk[w].stack) : walk[w].stack[k] \in Frame
    BY <1>3, ElementOfSeq
  <1>6. \A w \in Walker : \A r \in read[w] :
           r \in Record /\ r.dc \in Dc /\ r.gen \in Nat /\ r.depth \in Nat
    BY <1>1 DEF Shape, Record
  <1>7. ASSUME NEW f \in Frame
        PROVE  f.gen \in Nat /\ f.num \in Nat /\ f.i \in Nat \ {0} /\ Len(f.page) \in Nat
    <2>1. f.page \in Seq(Entry \cup {None})
      BY DEF Frame
    <2> QED  BY <1>1, <2>1, LenProperties DEF Frame
  <1> QED  BY <1>1, <1>2, <1>3, <1>4, <1>5, <1>6, <1>7 DEF Shape

(* A walk is not concerned by what the others do: it keeps its frames and   *)
(* its connections do not become more.                                      *)
LEMMA BystanderStep ==
    ASSUME IInv, Shape', NEW w \in Walker,
           walk'[w] = walk[w], read'[w] = read[w], UNCHANGED <<log, past>>,
           \A c \in conn' : c.by = w => c \in conn, faults <= faults'
    PROVE  WalkInv(w)'
  <1> USE DEF IInv
  <1>1. WalkInv(w)
    OBVIOUS
  <1>2. \A d : (Referred(w, d) => Referred(w, d)') /\ (Reported(w, d) => Reported(w, d)')
    BY HistoryGrows DEF PageOf
  <1>3. StackInv(w)'
    <2>1. \A f : FrameInv(w, f) => FrameInv(w, f)'
      BY <1>2 DEF FrameInv, ReadSoFar
    <2> QED  BY <1>1, <2>1 DEF WalkInv, StackInv, PlaceInv
  <1>4. LifeInv(w)' /\ ReadInv(w)' /\ OnceInv(w)'
    BY <1>1 DEF WalkInv, LifeInv, ReadInv, OnceInv
  <1>5. ConnInv(w)'
    BY <1>1 DEF WalkInv, ConnInv
  <1>6. PersistInv(w)'
    BY <1>1, <1>2 DEF WalkInv, PersistInv
  <1>7. FollowInv(w)'
    <2>1. \A e : Met(w, e) => Met(w, e)'
      BY Numbers DEF Met, Shape
    <2> QED  BY <1>1, <2>1 DEF WalkInv, FollowInv, PageOf
  <1> QED  BY <1>3, <1>4, <1>5, <1>6, <1>7 DEF WalkInv

(* A DC has another page: what is being read of the last one is of no use   *)
(* any more, and what was read stays what it was.                           *)
LEMMA ChangeStep ==
    ASSUME IInv, Shape', NEW d \in Dc, Change(d)
    PROVE  LogInv' /\ \A w \in Walker : WalkInv(w)'
  <1> USE DEF IInv
  <1>1. PICK p \in Pages[d] :
           /\ log' = [log EXCEPT ![d] = [gen |-> log[d].gen + 1, page |-> p]]
           /\ past' = [past EXCEPT ![d] = Append(@, p)]
    BY DEF Change
  <1>2. changes' = changes + 1 /\ UNCHANGED <<conn, walk, read, faults>>
    BY DEF Change
  <1>3. p \in Seq(Entry)
    BY DiscoverAssumption
  <1>4. /\ log'[d].gen = log[d].gen + 1 /\ log'[d].page = p
        /\ \A e \in Dc \ {d} : log'[e] = log[e] /\ past'[e] = past[e]
    BY <1>1 DEF Shape
  <1>5. /\ Len(past'[d]) = Len(past[d]) + 1
        /\ \A k \in 1..Len(past[d]) : past'[d][k] = past[d][k]
        /\ past'[d][Len(past[d]) + 1] = p
    BY <1>1, <1>3, AppendProperties DEF Shape
  <1>6. \A e \in Dc : Len(past[e]) = log[e].gen + 1 /\ log[e].gen \in Nat
    BY Numbers DEF LogInv
  <1>7. \A e \in Dc, g \in Nat : g <= log[e].gen => past'[e][g + 1] = past[e][g + 1]
    <2>1. ASSUME NEW e \in Dc, NEW g \in Nat, g <= log[e].gen
          PROVE  g + 1 \in 1..Len(past[e])
      BY <1>6, <2>1
    <2> QED  BY <1>4, <1>5, <2>1
  <1>8. LogInv'
    <2>1. ASSUME NEW e \in Dc \ {d}
          PROVE  log'[e].gen <= changes' /\ Len(past'[e]) = log'[e].gen + 1
                 /\ past'[e][log'[e].gen + 1] = log'[e].page
                 /\ \A k \in 1..Len(past'[e]) : past'[e][k] \in Pages[e]
      <3>1. log[e].gen <= changes /\ changes \in Nat /\ log[e].gen \in Nat
        BY Numbers DEF LogInv
      <3> QED  BY <1>2, <1>4, <3>1 DEF LogInv
    <2>2. log'[d].gen <= changes' /\ Len(past'[d]) = log'[d].gen + 1
          /\ past'[d][log'[d].gen + 1] = log'[d].page
          /\ \A k \in 1..Len(past'[d]) : past'[d][k] \in Pages[d]
      <3>1. log[d].gen <= changes /\ changes \in Nat /\ log[d].gen \in Nat
        BY Numbers DEF LogInv
      <3>2. \A k \in 1..Len(past[d]) : past[d][k] \in Pages[d]
        BY DEF LogInv
      <3>3. log'[d].gen <= changes' /\ Len(past'[d]) = log'[d].gen + 1
            /\ past'[d][log'[d].gen + 1] = log'[d].page
        BY <1>2, <1>4, <1>5, <1>6, <3>1
      <3>4. ASSUME NEW k \in 1..Len(past'[d]) PROVE past'[d][k] \in Pages[d]
        <4>1. k \in 1..Len(past[d]) \/ k = Len(past[d]) + 1
          BY <1>5, <1>6
        <4> QED  BY <1>5, <3>2, <4>1
      <3> QED  BY <3>3, <3>4
    <2> QED  BY <2>1, <2>2 DEF LogInv
  <1>9. \A e \in Dc : /\ log'[e].gen \in Nat /\ log[e].gen <= log'[e].gen
                      /\ e = d => log[e].gen < log'[e].gen
    BY <1>4, <1>6
  <1>10. ASSUME NEW w \in Walker PROVE WalkInv(w)'
    <2>1. WalkInv(w)
      OBVIOUS
    <2>2. \A r \in read[w] : PageOf(r)' = PageOf(r)
      BY <1>7, <2>1, Numbers DEF WalkInv, ReadInv, PageOf
    <2>3. \A e : (Referred(w, e) => Referred(w, e)') /\ (Reported(w, e) => Reported(w, e)')
      BY <1>2, <2>2, HistoryGrows
    <2>4. ASSUME NEW f \in Frame, FrameInv(w, f) PROVE FrameInv(w, f)'
      <3>1. f.c.to \in Dc /\ f.gen \in Nat /\ f.gen <= log[f.c.to].gen
        BY <2>4, Numbers DEF FrameInv
      <3>2. f.gen <= log'[f.c.to].gen /\ past'[f.c.to][f.gen + 1] = past[f.c.to][f.gen + 1]
        <4>1. log[f.c.to].gen \in Nat /\ log'[f.c.to].gen \in Nat
              /\ log[f.c.to].gen <= log'[f.c.to].gen
          BY <1>6, <1>9, <3>1
        <4>2. \A a, b, c \in Nat : a <= b /\ b <= c => a <= c
          OBVIOUS
        <4> QED  BY <1>7, <3>1, <4>1, <4>2
      <3>3. ReadSoFar(f) => ReadSoFar(f)'
        <4>1. f.gen = log'[f.c.to].gen => f.c.to # d
          BY <1>6, <1>9, <3>1
        <4> QED  BY <1>4, <3>1, <4>1 DEF ReadSoFar
      <3> QED  BY <2>3, <2>4, <3>2, <3>3 DEF FrameInv
    <2>5. StackInv(w)'
      BY <1>2, <2>1, <2>4, Numbers DEF WalkInv, StackInv, PlaceInv
    <2>6. LifeInv(w)' /\ OnceInv(w)' /\ ConnInv(w)'
      BY <1>2, <2>1 DEF WalkInv, LifeInv, OnceInv, ConnInv
    <2>7. ReadInv(w)'
      <3>1. \A r \in read[w] : r.gen \in Nat /\ r.dc \in Dc /\ r.gen <= log[r.dc].gen
        BY <2>1, Numbers DEF WalkInv, ReadInv
      <3> QED  BY <1>2, <1>6, <1>9, <2>1, <3>1 DEF WalkInv, ReadInv
    <2>8. PersistInv(w)'
      BY <1>2, <2>1, <2>3 DEF WalkInv, PersistInv
    <2>9. FollowInv(w)'
      BY <1>2, <2>1, <2>2 DEF WalkInv, FollowInv, Met
    <2> QED  BY <2>5, <2>6, <2>7, <2>8, <2>9 DEF WalkInv
  <1> QED  BY <1>8, <1>10

-----------------------------------------------------------------------------

(* The steps of a walk, by what they do to its stack *)

(* The DC on top is read: a step from its connect to its survey. *)
LEMMA TopStep ==
    ASSUME IInv, NEW w \in Walker, walk[w].st = "run", NEW g \in Frame, SetTop(w, g),
           Top(w).at # "walk", g.at # "walk", g.c = Top(w).c, g.own = Top(w).own,
           FrameInv(w, g), UNCHANGED <<log, past, read, conn, faults>>
    PROVE  WalkInv(w)' /\ walk' \in [Walker -> Walk] /\ \A v \in Walker \ {w} : walk'[v] = walk[v]
  <1> USE DEF IInv
  <1> DEFINE s == walk[w].stack
             t == walk'[w].stack
             n == Len(walk[w].stack)
  <1>1. WalkInv(w) /\ s # <<>>
    BY DEF WalkInv, LifeInv
  <1>2. /\ walk' \in [Walker -> Walk] /\ \A v \in Walker \ {w} : walk'[v] = walk[v]
        /\ walk'[w].st = walk[w].st /\ walk'[w].mode = walk[w].mode
        /\ walk'[w].tree = walk[w].tree /\ walk'[w].visited = walk[w].visited
        /\ n \in Nat \ {0} /\ Len(t) = n
        /\ t[n] = g /\ \A k \in 1..(n - 1) : t[k] = s[k]
    <2>1. /\ walk' \in [Walker -> Walk] /\ \A v \in Walker \ {w} : walk'[v] = walk[v]
          /\ walk'[w].st = walk[w].st /\ walk'[w].mode = walk[w].mode
          /\ walk'[w].tree = walk[w].tree /\ walk'[w].visited = walk[w].visited
          /\ n \in Nat \ {0} /\ Len(t) = n
          /\ \A k \in 1..n : t[k] = IF k = n THEN g ELSE s[k]
      BY <1>1, SetTopStack
    <2>2. t[n] = g
      BY <2>1
    <2>3. \A k \in 1..(n - 1) : k \in 1..n /\ k # n
      BY <2>1
    <2> QED  BY <2>1, <2>2, <2>3
  <1>3. Top(w) = s[n] /\ n \in 1..n /\ \A k \in 1..n : k = n \/ k \in 1..(n - 1)
    BY <1>2 DEF Top
  <1>4. \A d : (Referred(w, d) => Referred(w, d)') /\ (Reported(w, d) => Reported(w, d)')
    BY HistoryGrows DEF PageOf
  <1>5. StackInv(w)'
    <2>1. \A f : FrameInv(w, f) => FrameInv(w, f)'
      BY <1>4 DEF FrameInv, ReadSoFar
    <2>2. FrameInv(w, g)' /\ (n > 1 => g.c.to \in walk[w].visited)
      BY <1>1, <1>3, <2>1 DEF WalkInv, StackInv, PlaceInv
    <2>3. PlaceInv(w, n)'
      BY <1>2, <2>2 DEF PlaceInv
    <2>4. ASSUME NEW k \in 1..(n - 1) PROVE PlaceInv(w, k)'
      <3>1. PlaceInv(w, k) /\ k < n /\ t[k] = s[k]
        BY <1>1, <1>2 DEF WalkInv, StackInv
      <3> QED  BY <1>2, <2>1, <3>1 DEF PlaceInv
    <2>5. Len(t) <= MaxDepth + 1
      BY <1>1, <1>2 DEF WalkInv, StackInv
    <2> QED  BY <1>2, <1>3, <2>3, <2>4, <2>5 DEF StackInv
  <1>6. LifeInv(w)'
    <2>1. t # <<>>
      BY <1>2
    <2> QED  BY <1>1, <1>2, <2>1 DEF WalkInv, LifeInv
  <1>7. ReadInv(w)'
    BY <1>1, <1>2 DEF WalkInv, ReadInv
  <1>8. ConnInv(w)'
    <2>1. \A k \in 1..n : t[k].c = s[k].c /\ t[k].own = s[k].own
      BY <1>2, <1>3
    <2>2. ASSUME NEW c \in conn, c.by = w, c.to \in Dc
          PROVE  c.to \in walk'[w].visited \/ \E k \in 1..n : t[k].c.to = c.to
      BY <1>1, <1>2, <2>1, <2>2 DEF WalkInv, ConnInv
    <2>3. \A k \in 1..n : ~t[k].own => [to |-> t[k].c.to, by |-> w] \notin conn
      BY <1>1, <2>1 DEF WalkInv, ConnInv
    <2> QED  BY <1>2, <2>2, <2>3 DEF ConnInv
  <1>9. PersistInv(w)'
    BY <1>1, <1>2, <1>4 DEF WalkInv, PersistInv
  <1>10. OnceInv(w)'
    BY <1>1, <1>2, <1>3 DEF WalkInv, OnceInv
  <1>11. FollowInv(w)'
    <2>1. \A e : Met(w, e) => Met(w, e)'
      BY <1>2, Numbers DEF Met, Shape
    <2>2. \A k \in 1..n : s[k].at = "walk" => k \in 1..(n - 1) /\ t[k] = s[k]
      BY <1>2, <1>3
    <2>3. ASSUME NEW r \in read[w], r.depth < MaxDepth, NEW k \in 1..n,
                 s[k].at = "walk", RecordOf(s[k], k) = r,
                 \A j \in 1..Len(PageOf(r)) : j < s[k].i => Met(w, PageOf(r)[j])
          PROVE  /\ t[k].at = "walk" /\ RecordOf(t[k], k) = r
                 /\ \A j \in 1..Len(PageOf(r)) : j < t[k].i => Met(w, PageOf(r)[j])
      BY <2>2, <2>3
    <2> QED  BY <1>1, <1>2, <2>1, <2>3 DEF WalkInv, FollowInv, PageOf
  <1> QED  BY <1>2, <1>5, <1>6, <1>7, <1>8, <1>9, <1>10, <1>11 DEF WalkInv

(* _nvmf_discover() returns: the page on top was never accepted, or it is   *)
(* at its end.                                                              *)
LEMMA PopStep ==
    ASSUME IInv, Shape', NEW w \in Walker, walk[w].st = "run", Pop(w),
           Top(w).at = "walk" => Top(w).i > Len(Top(w).page),
           UNCHANGED <<log, past, read>>, conn' \subseteq conn, faults <= faults'
    PROVE  WalkInv(w)' /\ walk' \in [Walker -> Walk] /\ \A v \in Walker \ {w} : walk'[v] = walk[v]
  <1> USE DEF IInv
  <1> DEFINE s == walk[w].stack
             t == walk'[w].stack
             n == Len(walk[w].stack)
  <1>1. WalkInv(w) /\ s # <<>>
    BY DEF WalkInv, LifeInv
  <1>2. /\ walk' \in [Walker -> Walk] /\ \A v \in Walker \ {w} : walk'[v] = walk[v]
        /\ walk'[w].st = IF t = <<>> THEN "done" ELSE "run"
        /\ walk'[w].mode = walk[w].mode
        /\ walk'[w].tree = walk[w].tree /\ walk'[w].visited = walk[w].visited
        /\ n \in Nat \ {0} /\ Len(t) = n - 1
        /\ \A k \in 1..(n - 1) : t[k] = s[k]
    BY <1>1, PopStack
  <1>3. Top(w) = s[n] /\ n \in 1..n /\ \A k \in 1..(n - 1) : k \in 1..n /\ k < n
    BY <1>2 DEF Top
  <1>4. \A d : (Referred(w, d) => Referred(w, d)') /\ (Reported(w, d) => Reported(w, d)')
    BY HistoryGrows DEF PageOf
  <1>5. StackInv(w)'
    <2>1. \A f : FrameInv(w, f) => FrameInv(w, f)'
      BY <1>4 DEF FrameInv, ReadSoFar
    <2>2. n <= MaxDepth + 1 /\ MaxDepth \in Nat
      BY <1>1, DiscoverAssumption DEF WalkInv, StackInv
    <2>3. Len(t) <= MaxDepth + 1
      BY <1>2, <2>2
    <2> QED  BY <1>1, <1>2, <1>3, <2>1, <2>3 DEF WalkInv, StackInv, PlaceInv, RecordOf
  <1>6. LifeInv(w)'
    BY <1>1, <1>2 DEF WalkInv, LifeInv
  <1>7. ReadInv(w)'
    BY <1>1, <1>2 DEF WalkInv, ReadInv
  <1>8. ConnInv(w)'
    <2>1. ASSUME t # <<>>, NEW c \in conn', c.by = w, c.to \in Dc
          PROVE  c.to \in walk'[w].visited \/ \E k \in 1..Len(t) : t[k].c.to = c.to
      <3>1. CASE \E k \in 1..n : s[k].c.to = c.to /\ k # n
        BY <1>2, <3>1
      <3>2. CASE s[n].c.to = c.to
        BY <1>1, <1>2, <1>3, <2>1, <3>2 DEF WalkInv, StackInv, PlaceInv
      <3> QED  BY <1>1, <1>2, <2>1, <3>1, <3>2 DEF WalkInv, ConnInv
    <2> QED  BY <1>1, <1>2, <1>3, <2>1 DEF WalkInv, ConnInv
  <1>9. PersistInv(w)'
    BY <1>1, <1>2, <1>4 DEF WalkInv, PersistInv
  <1>10. OnceInv(w)'
    BY <1>1, <1>2, <1>3 DEF WalkInv, OnceInv
  <1>11. FollowInv(w)'
    <2>1. \A e : Met(w, e) => Met(w, e)'
      BY <1>2, Numbers DEF Met, Shape
    <2>2. ASSUME NEW r \in read[w], r.depth < MaxDepth
          PROVE  \/ \A j \in 1..Len(PageOf(r)) : Met(w, PageOf(r)[j])
                 \/ \E k \in 1..(n - 1) :
                      /\ s[k].at = "walk" /\ RecordOf(s[k], k) = r
                      /\ \A j \in 1..Len(PageOf(r)) : j < s[k].i => Met(w, PageOf(r)[j])
      <3>1. CASE \E k \in 1..n :
                   /\ s[k].at = "walk" /\ RecordOf(s[k], k) = r
                   /\ \A j \in 1..Len(PageOf(r)) : j < s[k].i => Met(w, PageOf(r)[j])
        <4>1. PICK k \in 1..n :
                   /\ s[k].at = "walk" /\ RecordOf(s[k], k) = r
                   /\ \A j \in 1..Len(PageOf(r)) : j < s[k].i => Met(w, PageOf(r)[j])
          BY <3>1
        <4>2. CASE k = n
          <5>1. s[n].page = PageOf(r)
            BY <1>1, <1>3, <4>1, <4>2 DEF WalkInv, StackInv, PlaceInv, FrameInv, RecordOf, PageOf
          <5>2. s[n].i > Len(PageOf(r)) /\ s[n].i \in Nat /\ Len(PageOf(r)) \in Nat
            BY <1>3, <4>1, <4>2, <5>1, Numbers
          <5>3. \A a, b \in Nat : a > b => \A j \in 1..b : j < a
            OBVIOUS
          <5>4. \A j \in 1..Len(PageOf(r)) : j < s[n].i
            BY <5>2, <5>3
          <5> QED  BY <4>1, <4>2, <5>4
        <4>3. CASE k # n
          <5>1. k \in 1..(n - 1)
            BY <1>2, <4>3
          <5> QED  BY <4>1, <5>1
        <4> QED  BY <4>2, <4>3
      <3> QED  BY <1>1, <2>2, <3>1 DEF WalkInv, FollowInv
    <2> QED  BY <1>2, <2>1, <2>2 DEF FollowInv, PageOf
  <1> QED  BY <1>2, <1>5, <1>6, <1>7, <1>8, <1>9, <1>10, <1>11 DEF WalkInv

(* The next entry of a frame: everything else stays. *)
LEMMA NextEntry ==
    ASSUME NEW f \in Frame, NEW g, g = [f EXCEPT !.i = @ + 1]
    PROVE  /\ g.c = f.c /\ g.own = f.own /\ g.up = f.up /\ g.at = f.at /\ g.gen = f.gen
           /\ g.num = f.num /\ g.page = f.page /\ g.i = f.i + 1
  BY DEF Frame

(* A frame in pass 2 has a page that its DC had, on record. *)
LEMMA WalkedPage ==
    ASSUME IInv, NEW w \in Walker, NEW k \in 1..Len(walk[w].stack),
           walk[w].stack[k].at \in {"survey", "walk"}
    PROVE  LET f == walk[w].stack[k]
           IN  /\ f.page \in Seq(Entry) /\ f.page = PageOf(RecordOf(f, k))
               /\ \A j \in 1..Len(f.page) : f.page[j] \in Entry
               /\ f.at = "walk" => RecordOf(f, k) \in read[w]
  <1> USE DEF IInv
  <1> DEFINE f == walk[w].stack[k]
  <1>1. PlaceInv(w, k) /\ f \in Frame
    BY Numbers DEF WalkInv, StackInv
  <1>2. f.c.to \in Dc /\ f.gen <= log[f.c.to].gen /\ f.page = past[f.c.to][f.gen + 1]
    BY <1>1 DEF PlaceInv, FrameInv
  <1>3. f.gen + 1 \in 1..Len(past[f.c.to])
    <2>1. log[f.c.to].gen \in Nat /\ f.gen \in Nat
      BY <1>1, <1>2, Numbers
    <2>2. Len(past[f.c.to]) = log[f.c.to].gen + 1
      BY <1>2 DEF LogInv
    <2>3. \A a, b \in Nat : a <= b => a + 1 \in 1..(b + 1)
      OBVIOUS
    <2> QED  BY <1>2, <2>1, <2>2, <2>3
  <1>4. f.page \in Pages[f.c.to]
    BY <1>2, <1>3 DEF LogInv
  <1>5. f.page \in Seq(Entry)
    BY <1>2, <1>4, DiscoverAssumption
  <1>6. \A j \in 1..Len(f.page) : f.page[j] \in Entry
    BY <1>5, ElementOfSeq
  <1>7. f.at = "walk" => RecordOf(f, k) \in read[w]
    BY <1>1 DEF PlaceInv
  <1> QED  BY <1>2, <1>5, <1>6, <1>7 DEF RecordOf, PageOf

(* The walk has done with an entry and goes on to the next. *)
LEMMA SkipStep ==
    ASSUME IInv, Shape', NEW w \in Walker, At(w, "walk"), Skip(w),
           Len(walk[w].stack) - 1 < MaxDepth /\ Top(w).i <= Len(Top(w).page)
               => Met(w, Top(w).page[Top(w).i]) \/ faults' > 0,
           UNCHANGED <<log, past, read>>, faults <= faults',
           \A c \in conn' : c.by = w /\ c.to \in Dc => c \in conn
    PROVE  WalkInv(w)' /\ \A v \in Walker \ {w} : walk'[v] = walk[v]
  <1> USE DEF IInv
  <1> DEFINE s == walk[w].stack
             t == walk'[w].stack
             n == Len(walk[w].stack)
  <1>1. WalkInv(w) /\ s # <<>> /\ walk[w].st = "run"
    BY DEF WalkInv, LifeInv, At
  <1>2. /\ \A v \in Walker \ {w} : walk'[v] = walk[v]
        /\ walk'[w].st = walk[w].st /\ walk'[w].mode = walk[w].mode
        /\ walk'[w].tree = walk[w].tree /\ walk'[w].visited = walk[w].visited
        /\ n \in Nat \ {0} /\ Len(t) = n
        /\ \A k \in 1..n : IF k = n THEN t[k] = [s[k] EXCEPT !.i = @ + 1] ELSE t[k] = s[k]
    BY <1>1, SkipStack
  <1>3. Top(w) = s[n] /\ n \in 1..n /\ s[n].at = "walk"
    BY <1>2 DEF Top, At
  <1>4. ASSUME NEW k \in 1..n
        PROVE  /\ t[k].c = s[k].c /\ t[k].own = s[k].own /\ t[k].up = s[k].up
               /\ t[k].at = s[k].at /\ t[k].gen = s[k].gen /\ t[k].page = s[k].page
               /\ t[k].num = s[k].num
               /\ t[k].i = IF k = n THEN s[k].i + 1 ELSE s[k].i
    <2>1. CASE k = n
      <3>1. s[n] \in Frame
        BY <1>3, Numbers
      <3>2. t[k] = [s[n] EXCEPT !.i = @ + 1]
        BY <1>2, <2>1
      <3> QED  BY <2>1, <3>1, <3>2, NextEntry
    <2>2. CASE k # n
      BY <1>2, <2>2
    <2> QED  BY <2>1, <2>2
  <1>5. \A d : (Referred(w, d) => Referred(w, d)') /\ (Reported(w, d) => Reported(w, d)')
    BY HistoryGrows DEF PageOf
  <1>6. StackInv(w)'
    <2>1. ASSUME NEW k \in 1..n PROVE PlaceInv(w, k)'
      <3>1. PlaceInv(w, k)
        BY <1>1 DEF WalkInv, StackInv
      <3>2. ASSUME NEW f, NEW g, FrameInv(w, f), g.c = f.c, g.own = f.own, g.up = f.up,
                   g.at = f.at, g.gen = f.gen, g.page = f.page, g.num = f.num,
                   g.i = f.i \/ g.at = "walk"
            PROVE  FrameInv(w, g)'
        BY <1>5, <3>2 DEF FrameInv, ReadSoFar
      <3>3. t[k].i = s[k].i \/ t[k].at = "walk"
        BY <1>3, <1>4
      <3>4. FrameInv(w, s[k])
        BY <3>1 DEF PlaceInv
      <3>5. \A g : g = t[k] => FrameInv(w, g)'
        BY <1>4, <3>2, <3>3, <3>4
      <3>6. RecordOf(t[k], k) = RecordOf(s[k], k)
        BY <1>4 DEF RecordOf
      <3> QED  BY <1>2, <1>4, <3>1, <3>5, <3>6 DEF PlaceInv, RecordOf
    <2> QED  BY <1>1, <1>2, <2>1 DEF WalkInv, StackInv
  <1>7. LifeInv(w)'
    <2>1. t # <<>>
      BY <1>2
    <2> QED  BY <1>1, <1>2, <2>1 DEF WalkInv, LifeInv
  <1>8. ReadInv(w)'
    BY <1>1, <1>2 DEF WalkInv, ReadInv
  <1>9. ConnInv(w)'
    <2>1. ASSUME NEW c \in conn', c.by = w, c.to \in Dc
          PROVE  c.to \in walk'[w].visited \/ \E k \in 1..n : t[k].c.to = c.to
      BY <1>1, <1>2, <1>4, <2>1 DEF WalkInv, ConnInv
    <2>2. ASSUME NEW k \in 1..n, ~t[k].own
          PROVE  [to |-> t[k].c.to, by |-> w] \notin conn'
      <3>1. s[k].c.to \in Dc
        BY <1>1 DEF WalkInv, StackInv, PlaceInv, FrameInv
      <3>2. [to |-> s[k].c.to, by |-> w] \notin conn
        BY <1>1, <1>4, <2>2 DEF WalkInv, ConnInv
      <3> QED  BY <1>4, <3>1, <3>2
    <2> QED  BY <1>2, <2>1, <2>2 DEF ConnInv
  <1>10. PersistInv(w)'
    <2>1. ASSUME NEW r \in read[w], [to |-> r.dc, by |-> w] \in conn'
          PROVE  [to |-> r.dc, by |-> w] \in conn
      <3>1. r.dc \in Dc
        BY Numbers
      <3> QED  BY <2>1, <3>1
    <2> QED  BY <1>1, <1>2, <1>5, <2>1 DEF WalkInv, PersistInv
  <1>11. OnceInv(w)'
    BY <1>1, <1>2, <1>4 DEF WalkInv, OnceInv
  <1>12. FollowInv(w)'
    <2>1. \A e : Met(w, e) => Met(w, e)'
      BY <1>2, Numbers DEF Met, Shape
    <2>2. ASSUME NEW r \in read[w], r.depth < MaxDepth, NEW k \in 1..n,
                 s[k].at = "walk", RecordOf(s[k], k) = r,
                 \A j \in 1..Len(PageOf(r)) : j < s[k].i => Met(w, PageOf(r)[j]),
                 NEW j \in 1..Len(PageOf(r)), j < t[k].i
          PROVE  Met(w, PageOf(r)[j])'
      <3>1. CASE j < s[k].i
        BY <2>1, <2>2, <3>1 DEF PageOf
      <3>2. CASE ~(j < s[k].i)
        <4>1. s[k].i \in Nat /\ Len(PageOf(r)) \in Nat
          BY <2>2, WalkedPage, Numbers
        <4>2. k = n /\ j = s[n].i
          <5>1. k = n
            BY <1>4, <2>2, <3>2
          <5>2. t[k].i = s[n].i + 1
            BY <1>4, <5>1
          <5>3. j \in Nat /\ j < s[n].i + 1 /\ ~(j < s[n].i)
            BY <2>2, <3>2, <4>1, <5>1, <5>2
          <5>4. \A a, b \in Nat : b < a + 1 /\ ~(b < a) => b = a
            OBVIOUS
          <5> QED  BY <4>1, <5>1, <5>3, <5>4
        <4>3. s[n].page = PageOf(r) /\ r.depth = n - 1
          BY <1>3, <2>2, <4>2, WalkedPage DEF RecordOf
        <4>4. Met(w, PageOf(r)[j]) \/ faults' > 0
          BY <1>2, <1>3, <2>2, <4>1, <4>2, <4>3
        <4> QED  BY <2>1, <4>4 DEF Met, PageOf
      <3> QED  BY <3>1, <3>2
    <2>3. ASSUME NEW r \in read[w], r.depth < MaxDepth, NEW k \in 1..n,
                 s[k].at = "walk", RecordOf(s[k], k) = r,
                 \A j \in 1..Len(PageOf(r)) : j < s[k].i => Met(w, PageOf(r)[j])
          PROVE  t[k].at = "walk" /\ RecordOf(t[k], k) = r
      BY <1>4, <2>3 DEF RecordOf
    <2> QED  BY <1>1, <1>2, <2>1, <2>2, <2>3 DEF WalkInv, FollowInv, PageOf
  <1> QED  BY <1>2, <1>6, <1>7, <1>8, <1>9, <1>10, <1>11, <1>12 DEF WalkInv

(* A referral to a DC that was not visited is descended to.  All frames are *)
(* those of visited DCs, so that w has no connection to this one and no     *)
(* frame of it.                                                             *)
LEMMA DescendStep ==
    ASSUME IInv, NEW w \in Walker, AtEntry(w, "disc"), ~Deep(w),
           Target(w) \notin walk[w].visited,
           NEW c \in Connection, c.to = Target(w), NEW own \in BOOLEAN, own <=> c.by = w,
           Descend(w, c, own), UNCHANGED <<log, past, read, faults>>,
           conn' = IF own THEN conn \cup {c} ELSE conn
    PROVE  /\ WalkInv(w)' /\ walk' \in [Walker -> Walk]
           /\ \A v \in Walker \ {w} : walk'[v] = walk[v]
  <1> USE DEF IInv
  <1> DEFINE s == walk[w].stack
             t == walk'[w].stack
             n == Len(walk[w].stack)
             e == Top(w).page[Top(w).i]
             f == NewFrame(c, own, e.epcsd, "header")
             d == c.to
  <1>1. WalkInv(w) /\ s # <<>> /\ walk[w].st = "run" /\ Top(w) = s[n]
    BY DEF WalkInv, LifeInv, AtEntry, At, Top
  <1>2. n \in Nat \ {0} /\ n \in 1..n /\ s[n] \in Frame /\ s[n].at = "walk"
    <2>1. n \in Nat \ {0}
      BY <1>1, Numbers, EmptySeq
    <2> QED  BY <1>1, <2>1, Numbers DEF AtEntry, At
  <1>3. /\ s[n].page \in Seq(Entry) /\ s[n].page = PageOf(RecordOf(s[n], n))
        /\ RecordOf(s[n], n) \in read[w] /\ s[n].i \in 1..Len(s[n].page) /\ e \in Entry
    <2>1. /\ s[n].page \in Seq(Entry) /\ s[n].page = PageOf(RecordOf(s[n], n))
          /\ RecordOf(s[n], n) \in read[w]
          /\ \A j \in 1..Len(s[n].page) : s[n].page[j] \in Entry
      BY <1>2, WalkedPage
    <2>2. s[n].i \in Nat \ {0} /\ Len(s[n].page) \in Nat /\ s[n].i <= Len(s[n].page)
      BY <1>1, <1>2, Numbers DEF AtEntry
    <2>3. s[n].i \in 1..Len(s[n].page)
      BY <2>2
    <2> QED  BY <1>1, <2>1, <2>3
  <1>4. e.kind = "disc" /\ e.to = d /\ d \in Dc /\ e.epcsd \in BOOLEAN
    BY <1>1, <1>3 DEF AtEntry, Target, Entry
  <1>5. /\ walk' \in [Walker -> Walk] /\ \A v \in Walker \ {w} : walk'[v] = walk[v]
        /\ walk'[w].st = walk[w].st /\ walk'[w].mode = walk[w].mode
        /\ walk'[w].tree = walk[w].tree /\ walk'[w].visited = walk[w].visited \cup {d}
        /\ Len(t) = n + 1 /\ t[n + 1] = f
        /\ \A k \in 1..n : IF k = n THEN t[k] = [s[k] EXCEPT !.i = @ + 1] ELSE t[k] = s[k]
    BY <1>1, <1>4, DescendStack
  <1>6. ASSUME NEW k \in 1..n
        PROVE  /\ t[k].c = s[k].c /\ t[k].own = s[k].own /\ t[k].up = s[k].up
               /\ t[k].at = s[k].at /\ t[k].gen = s[k].gen /\ t[k].page = s[k].page
               /\ t[k].num = s[k].num
               /\ t[k].i = IF k = n THEN s[k].i + 1 ELSE s[k].i
    <2>1. CASE k = n
      <3>1. t[k] = [s[n] EXCEPT !.i = @ + 1]
        BY <1>5, <2>1
      <3> QED  BY <1>2, <2>1, <3>1, NextEntry
    <2>2. CASE k # n
      BY <1>5, <2>2
    <2> QED  BY <2>1, <2>2
  <1>7. /\ f.c = c /\ f.own = own /\ f.up = e.epcsd /\ f.at = "header" /\ f.gen = 0
        /\ f.i = 1
    BY DEF NewFrame
  <1> HIDE DEF f
  <1>8. \A k \in 1..n : s[k].at = "walk" /\ s[k].c.to \in walk[w].visited /\ s[k].c.to # d
    <2>1. ASSUME NEW k \in 1..n
          PROVE  PlaceInv(w, k) /\ s[k].at = "walk"
      <3>1. PlaceInv(w, k) /\ (k = n \/ k < n)
        BY <1>1, <1>2 DEF WalkInv, StackInv
      <3> QED  BY <1>2, <3>1 DEF PlaceInv
    <2> QED  BY <2>1 DEF PlaceInv
  <1>9. [to |-> d, by |-> w] \notin conn
    <2>1. SUFFICES ASSUME [to |-> d, by |-> w] \in conn PROVE FALSE
      OBVIOUS
    <2>2. \/ d \in walk[w].visited
          \/ \E k \in 1..n : s[k].c.to = d
      BY <1>1, <1>4, <2>1 DEF WalkInv, ConnInv
    <2> QED  BY <1>8, <2>2
  <1>10. \A x : (Referred(w, x) => Referred(w, x)') /\ (Reported(w, x) => Reported(w, x)')
    BY HistoryGrows DEF PageOf
  <1>11. StackInv(w)'
    <2>1. ASSUME NEW k \in 1..n PROVE PlaceInv(w, k)'
      <3>1. PlaceInv(w, k)
        BY <1>1 DEF WalkInv, StackInv
      <3>2. ASSUME NEW x, NEW g, FrameInv(w, x), g.c = x.c, g.own = x.own, g.up = x.up,
                   g.at = x.at, g.gen = x.gen, g.page = x.page, g.num = x.num,
                   g.i = x.i \/ g.at = "walk"
            PROVE  FrameInv(w, g)'
        BY <1>10, <3>2 DEF FrameInv, ReadSoFar
      <3>3. t[k].at = "walk" /\ FrameInv(w, s[k]) /\ RecordOf(s[k], k) \in read[w]
        BY <1>6, <1>8, <3>1 DEF PlaceInv
      <3>4. \A g : g = t[k] => FrameInv(w, g)'
        BY <1>6, <3>2, <3>3
      <3>5. RecordOf(t[k], k) = RecordOf(s[k], k)
        BY <1>6 DEF RecordOf
      <3>6. t[k].c.to \in walk'[w].visited
        BY <1>5, <1>6, <1>8
      <3> QED  BY <3>3, <3>4, <3>5, <3>6 DEF PlaceInv, RecordOf
    <2>2. ASSUME NEW m, m = n + 1 PROVE PlaceInv(w, m)'
      <3>1. e.epcsd = TRUE => Referred(w, d)
        BY <1>1, <1>3, <1>4 DEF Referred, ToSet
      <3>2. \A g : g = f => FrameInv(w, g)'
        <4>1. 0 <= log[d].gen
          BY <1>4, Numbers
        <4> QED  BY <1>4, <1>7, <1>10, <3>1, <4>1 DEF FrameInv
      <3>3. \A g : g = t[m] => FrameInv(w, g)'
        BY <1>5, <2>2, <3>2
      <3>4. ~(m < Len(t)) /\ t[m].at # "walk" /\ t[m].c.to \in walk'[w].visited
        BY <1>2, <1>5, <1>7, <2>2
      <3> QED  BY <3>3, <3>4 DEF PlaceInv
    <2>3. Len(t) <= MaxDepth + 1
      <3>1. ~(n - 1 >= MaxDepth) /\ MaxDepth \in Nat
        BY DiscoverAssumption DEF Deep
      <3> QED  BY <1>2, <1>5, <3>1
    <2>4. \A k \in 1..Len(t) : k \in 1..n \/ k = n + 1
      BY <1>2, <1>5
    <2> QED  BY <2>1, <2>2, <2>3, <2>4 DEF StackInv
  <1>12. LifeInv(w)'
    <2>1. t # <<>>
      BY <1>2, <1>5
    <2> QED  BY <1>1, <1>5, <2>1 DEF WalkInv, LifeInv
  <1>13. ReadInv(w)'
    BY <1>1, <1>5 DEF WalkInv, ReadInv
  <1>14. c.by = w => c = [to |-> d, by |-> w]
    BY DEF Connection
  <1>15. ConnInv(w)'
    <2>1. ASSUME NEW x \in conn', x.by = w, x.to \in Dc
          PROVE  x.to \in walk'[w].visited
      BY <1>1, <1>5, <1>8, <2>1 DEF WalkInv, ConnInv
    <2>2. ASSUME NEW k \in 1..n, ~t[k].own
          PROVE  [to |-> t[k].c.to, by |-> w] \notin conn'
      <3>1. [to |-> s[k].c.to, by |-> w] \notin conn
        BY <1>1, <1>6, <2>2 DEF WalkInv, ConnInv
      <3>2. [to |-> s[k].c.to, by |-> w] # c
        BY <1>8
      <3> QED  BY <1>6, <3>1, <3>2
    <2>3. ~t[n + 1].own => [to |-> t[n + 1].c.to, by |-> w] \notin conn'
      BY <1>5, <1>7, <1>9
    <2>4. \A k \in 1..Len(t) : k \in 1..n \/ k = n + 1
      BY <1>2, <1>5
    <2> QED  BY <2>1, <2>2, <2>3, <2>4 DEF ConnInv
  <1>16. PersistInv(w)'
    <2>1. ASSUME NEW r \in read[w], [to |-> r.dc, by |-> w] \in conn'
          PROVE  [to |-> r.dc, by |-> w] \in conn
      <3>1. r.dc # d
        BY <1>1, <1>4 DEF WalkInv, ReadInv, AtEntry, Target
      <3>2. [to |-> r.dc, by |-> w] # c
        BY <3>1
      <3> QED  BY <2>1, <3>2
    <2> QED  BY <1>1, <1>5, <1>10, <2>1 DEF WalkInv, PersistInv
  <1>17. OnceInv(w)'
    <2>1. ASSUME NEW r \in read[w] PROVE r.dc # d
      BY <1>1, <1>4 DEF WalkInv, ReadInv, AtEntry, Target
    <2>2. \A k \in 1..Len(t) : k \in 1..n \/ k = n + 1
      BY <1>2, <1>5
    <2> QED  BY <1>5, <1>6, <1>7, <1>8, <2>1, <2>2 DEF OnceInv
  <1>18. FollowInv(w)'
    <2>1. \A x : Met(w, x) => Met(w, x)'
      BY <1>5 DEF Met
    <2>2. ASSUME NEW r \in read[w], r.depth < MaxDepth, NEW k \in 1..n,
                 s[k].at = "walk", RecordOf(s[k], k) = r,
                 \A j \in 1..Len(PageOf(r)) : j < s[k].i => Met(w, PageOf(r)[j]),
                 NEW j \in 1..Len(PageOf(r)), j < t[k].i
          PROVE  Met(w, PageOf(r)[j])'
      <3>1. CASE j < s[k].i
        BY <2>1, <2>2, <3>1 DEF PageOf
      <3>2. CASE ~(j < s[k].i)
        <4>1. s[k].i \in Nat /\ Len(PageOf(r)) \in Nat
          BY <2>2, WalkedPage, Numbers
        <4>2. k = n /\ j = s[n].i
          <5>1. k = n
            BY <1>6, <2>2, <3>2
          <5>2. t[k].i = s[n].i + 1
            BY <1>6, <5>1
          <5>3. j \in Nat /\ j < s[n].i + 1 /\ ~(j < s[n].i)
            BY <2>2, <3>2, <4>1, <5>1, <5>2
          <5>4. \A a, b \in Nat : b < a + 1 /\ ~(b < a) => b = a
            OBVIOUS
          <5> QED  BY <4>1, <5>1, <5>3, <5>4
        <4>3. PageOf(r)[j] = e
          BY <1>1, <1>3, <2>2, <4>2
        <4>4. \A x : x = e => Met(w, x)'
          BY <1>4, <1>5 DEF Met
        <4>5. PageOf(r)' = PageOf(r)
          BY DEF PageOf
        <4>6. \A x : x = PageOf(r)[j] => Met(w, x)'
          BY <4>3, <4>4
        <4> QED  BY <4>5, <4>6
      <3> QED  BY <3>1, <3>2
    <2>3. ASSUME NEW k \in 1..n
          PROVE  t[k].at = s[k].at /\ RecordOf(t[k], k) = RecordOf(s[k], k) /\ k \in 1..Len(t)
      <3>1. k \in 1..(n + 1)
        BY <1>2
      <3> QED  BY <1>5, <1>6, <3>1 DEF RecordOf
    <2>4. \A r : PageOf(r)' = PageOf(r)
      BY DEF PageOf
    <2>5. ASSUME NEW r \in read[w], r.depth < MaxDepth
          PROVE  \/ \A j \in 1..Len(PageOf(r)) : Met(w, PageOf(r)[j])'
                 \/ \E k \in 1..Len(t) :
                      /\ t[k].at = "walk" /\ RecordOf(t[k], k) = r
                      /\ \A j \in 1..Len(PageOf(r)) : j < t[k].i => Met(w, PageOf(r)[j])'
      <3>1. CASE \A j \in 1..Len(PageOf(r)) : Met(w, PageOf(r)[j])
        BY <2>1, <2>4, <3>1
      <3>2. CASE \E k \in 1..n :
                   /\ s[k].at = "walk" /\ RecordOf(s[k], k) = r
                   /\ \A j \in 1..Len(PageOf(r)) : j < s[k].i => Met(w, PageOf(r)[j])
        BY <2>2, <2>3, <2>5, <3>2
      <3> QED  BY <1>1, <2>5, <3>1, <3>2 DEF WalkInv, FollowInv
    <2> QED  BY <2>4, <2>5 DEF FollowInv, RecordOf
  <1> QED
    BY <1>5, <1>11, <1>12, <1>13, <1>15, <1>16, <1>17, <1>18 DEF WalkInv

(* A set of entries that is not empty has a last one. *)
LEMMA LastEntry ==
    ASSUME NEW n \in Nat, NEW own, own \subseteq 1..n, own # {}
    PROVE  Max(own) \in own /\ \A j \in own : j <= Max(own)
  <1> DEFINE rest == {n - k : k \in own}
  <1>1. \A k \in own : k \in Nat /\ n - k \in Nat
    OBVIOUS
  <1>2. rest \subseteq Nat /\ rest # {}
    BY <1>1
  <1>3. PICK x \in rest : \A y \in rest : ~(<<y, x>> \in OpToRel(<, Nat))
    BY <1>2, NatLessThanWellFounded, WFMin
  <1>4. PICK k \in own : x = n - k
    BY <1>3
  <1>5. \A j \in own : j <= k
    <2>1. ASSUME NEW j \in own PROVE ~(n - j < n - k)
      <3>1. n - j \in rest /\ n - j \in Nat /\ n - k \in Nat
        BY <1>1
      <3>2. ~(<<n - j, n - k>> \in OpToRel(<, Nat))
        BY <1>3, <1>4, <3>1
      <3> QED  BY <3>1, <3>2 DEF OpToRel
    <2> QED  BY <1>1, <2>1
  <1>6. \E m \in own : \A j \in own : m >= j
    BY <1>1, <1>5
  <1>7. Max(own) \in own /\ \A j \in own : Max(own) >= j
    BY <1>6 DEF Max
  <1> QED  BY <1>1, <1>7

(* pass 1 keeps an own connection in the mode "auto" only if the DC was     *)
(* reported to persist.                                                     *)
LEMMA EpcsdReported ==
    ASSUME IInv, NEW w \in Walker, NEW k \in 1..Len(walk[w].stack), NEW f,
           f = walk[w].stack[k], f.at = "survey",
           read[w] \subseteq read'[w], RecordOf(f, k) \in read'[w], UNCHANGED past,
           epcsd(f.c.to, f.page, f.up)
    PROVE  Reported(w, f.c.to)'
  <1> DEFINE d == f.c.to
             r == RecordOf(f, k)
             own == {j \in 1..Len(f.page) : dc_entry_is_self(d, f.page[j])}
  <1>1. f \in Frame /\ FrameInv(w, f)
    BY Numbers DEF IInv, WalkInv, StackInv, PlaceInv
  <1>2. /\ f.page \in Seq(Entry) /\ f.page = PageOf(r)
        /\ \A j \in 1..Len(f.page) : f.page[j] \in Entry
    BY WalkedPage
  <1>3. PageOf(r)' = f.page /\ DOMAIN f.page = 1..Len(f.page) /\ Len(f.page) \in Nat
    BY <1>2, LenProperties DEF PageOf
  <1>4. Referred(w, d) => Referred(w, d)'
    BY HistoryGrows DEF PageOf
  <1>5. r.dc = d
    BY DEF RecordOf
  <1>6. CASE own # {}
    <2>1. own \subseteq 1..Len(f.page)
      OBVIOUS
    <2>2. Max(own) \in own /\ \A j \in own : j <= Max(own)
      BY <1>3, <1>6, <2>1, LastEntry
    <2>3. f.page[Max(own)].epcsd
      BY <1>6 DEF epcsd
    <2> QED  BY <1>3, <1>5, <2>2, <2>3 DEF Reported
  <1>7. CASE own = {}
    <2>1. f.up = TRUE
      BY <1>7 DEF epcsd
    <2>2. Referred(w, d)'
      BY <1>1, <1>4, <2>1 DEF FrameInv
    <2> QED  BY <1>3, <1>5, <1>7, <2>2 DEF Reported
  <1> QED  BY <1>6, <1>7

(* The top frame is surveyed. *)
LEMMA SurveyStack ==
    ASSUME Shape, NEW w \in Walker, walk[w].stack # <<>>, NEW d \in Dc,
           walk' = [walk EXCEPT ![w].stack[Len(walk[w].stack)].at = "walk",
                                ![w].visited = @ \cup {d}]
    PROVE  LET s == walk[w].stack
               t == walk'[w].stack
           IN  /\ walk' \in [Walker -> Walk]
               /\ \A v \in Walker \ {w} : walk'[v] = walk[v]
               /\ walk'[w].st = walk[w].st /\ walk'[w].mode = walk[w].mode
               /\ walk'[w].tree = walk[w].tree
               /\ walk'[w].visited = walk[w].visited \cup {d}
               /\ Len(s) \in Nat \ {0} /\ Len(t) = Len(s)
               /\ t[Len(s)] = [s[Len(s)] EXCEPT !.at = "walk"]
               /\ \A k \in 1..(Len(s) - 1) : t[k] = s[k]
  <1> DEFINE s == walk[w].stack
             f == [s[Len(s)] EXCEPT !.at = "walk"]
             t == [s EXCEPT ![Len(s)] = f]
             visited == walk[w].visited \cup {d}
  <1>1. walk[w] \in Walk /\ s \in Seq(Frame) /\ visited \in SUBSET Dc
    BY DEF Shape, Walk
  <1>2. Len(s) \in Nat \ {0} /\ s[Len(s)] \in Frame
    BY <1>1, EmptySeq, LenProperties, ElementOfSeq
  <1>3. f \in Frame
    BY <1>2 DEF Frame
  <1>4. walk' = [walk EXCEPT ![w] = [[walk[w] EXCEPT !.stack = t] EXCEPT !.visited = visited]]
    BY <1>1 DEF Shape
  <1> HIDE DEF f
  <1>5. t \in Seq(Frame) /\ Len(t) = Len(s)
        /\ \A k \in 1..Len(s) : t[k] = IF k = Len(s) THEN f ELSE s[k]
    BY <1>1, <1>2, <1>3, ExceptSeq
  <1> HIDE DEF t, visited
  <1>6. LET r == [[walk[w] EXCEPT !.stack = t] EXCEPT !.visited = visited]
        IN  /\ r \in Walk /\ r.stack = t /\ r.st = walk[w].st /\ r.mode = walk[w].mode
            /\ r.tree = walk[w].tree /\ r.visited = visited
    BY <1>1, <1>5 DEF Walk
  <1>7. walk' \in [Walker -> Walk]
        /\ walk'[w] = [[walk[w] EXCEPT !.stack = t] EXCEPT !.visited = visited]
        /\ \A v \in Walker \ {w} : walk'[v] = walk[v]
    BY <1>4, <1>6 DEF Shape
  <1>8. t[Len(s)] = f
    BY <1>2, <1>5
  <1>9. \A k \in 1..(Len(s) - 1) : k \in 1..Len(s) /\ k # Len(s)
    BY <1>2
  <1>10. \A k \in 1..(Len(s) - 1) : t[k] = s[k]
    BY <1>5, <1>9
  <1> QED  BY <1>2, <1>5, <1>6, <1>7, <1>8, <1>10 DEF f, visited

(* The page on top is accepted, its DC is noted, and its connection goes or *)
(* stays.                                                                   *)
LEMMA SurveyStep ==
    ASSUME IInv, NEW w \in Walker, dc_survey(w)
    PROVE  WalkInv(w)' /\ Shape' /\ \A v \in Walker \ {w} : walk'[v] = walk[v]
  <1> USE DEF IInv
  <1> DEFINE s == walk[w].stack
             t == walk'[w].stack
             n == Len(walk[w].stack)
             f == walk[w].stack[Len(walk[w].stack)]
             d == f.c.to
             new == RecordOf(f, n)
  <1>1. WalkInv(w) /\ s # <<>> /\ walk[w].st = "run" /\ Top(w) = f /\ f.at = "survey"
    BY DEF WalkInv, LifeInv, dc_survey, At, Top
  <1>2. n \in Nat \ {0} /\ n \in 1..n /\ f \in Frame /\ PlaceInv(w, n)
        /\ \A k \in 1..n : k = n \/ k \in 1..(n - 1)
    <2>1. n \in Nat \ {0}
      BY <1>1, Numbers, EmptySeq
    <2> QED  BY <1>1, <2>1, Numbers DEF WalkInv, StackInv
  <1>3. FrameInv(w, f) /\ d \in Dc /\ f.i = 1 /\ f.c \in Connection
    BY <1>1, <1>2 DEF PlaceInv, FrameInv, Frame
  <1>4. /\ walk' = [walk EXCEPT ![w].stack[Len(walk[w].stack)].at = "walk",
                                ![w].visited = @ \cup {d}]
        /\ conn' = IF dc_decide(walk[w].mode, f) THEN conn \ {f.c} ELSE conn
        /\ read' = [read EXCEPT ![w] = @ \cup {new}]
        /\ UNCHANGED <<log, past, changes, faults>>
    BY <1>1 DEF dc_survey, RecordOf, bounds
  <1>5. /\ walk' \in [Walker -> Walk] /\ \A v \in Walker \ {w} : walk'[v] = walk[v]
        /\ walk'[w].st = walk[w].st /\ walk'[w].mode = walk[w].mode
        /\ walk'[w].tree = walk[w].tree /\ walk'[w].visited = walk[w].visited \cup {d}
        /\ Len(t) = n /\ t[n] = [f EXCEPT !.at = "walk"]
        /\ \A k \in 1..(n - 1) : t[k] = s[k]
    BY <1>1, <1>3, <1>4, SurveyStack
  <1>6. new \in Record /\ new.dc = d /\ new.gen = f.gen /\ new.depth = n - 1
    <2>1. n <= MaxDepth + 1 /\ MaxDepth \in Nat
      BY <1>1, DiscoverAssumption DEF WalkInv, StackInv
    <2>2. n - 1 \in 0..MaxDepth
      BY <1>2, <2>1
    <2>3. f.gen \in 0..MaxChange
      BY <1>2 DEF Frame
    <2> QED  BY <1>3, <2>2, <2>3 DEF RecordOf, Record
  <1>7. /\ t[n].c = f.c /\ t[n].own = f.own /\ t[n].up = f.up /\ t[n].gen = f.gen
        /\ t[n].page = f.page /\ t[n].i = 1 /\ t[n].at = "walk"
    <2>1. \A g \in Frame : LET h == [g EXCEPT !.at = "walk"]
                           IN  /\ h.c = g.c /\ h.own = g.own /\ h.up = g.up
                               /\ h.gen = g.gen /\ h.page = g.page /\ h.i = g.i
                               /\ h.at = "walk"
      BY DEF Frame
    <2> QED  BY <1>2, <1>3, <1>5, <2>1
  <1>8. read'[w] = read[w] \cup {new} /\ conn' \subseteq conn
    BY <1>4 DEF Shape
  <1> HIDE DEF new
  <1>9. Shape'
    <2>1. read' \in [Walker -> SUBSET Record]
      BY <1>4, <1>6 DEF Shape
    <2> QED  BY <1>4, <1>5, <1>8, <2>1 DEF Shape
  <1>10. \A r : PageOf(r)' = PageOf(r)
    BY <1>4 DEF PageOf
  <1>11. \A x : (Referred(w, x) => Referred(w, x)') /\ (Reported(w, x) => Reported(w, x)')
    BY <1>8, <1>10, HistoryGrows
  <1>12. \A k \in 1..n : t[k].at = "walk" /\ t[k].c = s[k].c /\ t[k].own = s[k].own
    <2>1. ASSUME NEW k \in 1..(n - 1) PROVE s[k].at = "walk"
      <3>1. k \in 1..n /\ k < n
        BY <1>2
      <3> QED  BY <1>1, <3>1 DEF WalkInv, StackInv, PlaceInv
    <2> QED  BY <1>2, <1>5, <1>7, <2>1
  <1>13. StackInv(w)'
    <2>1. ASSUME NEW k \in 1..(n - 1) PROVE PlaceInv(w, k)'
      <3>1. k \in 1..n /\ k < n /\ t[k] = s[k]
        BY <1>2, <1>5
      <3>2. PlaceInv(w, k)
        BY <1>1, <3>1 DEF WalkInv, StackInv
      <3>3. \A g : FrameInv(w, g) => FrameInv(w, g)'
        BY <1>4, <1>11 DEF FrameInv, ReadSoFar
      <3> QED  BY <1>5, <1>8, <3>1, <3>2, <3>3 DEF PlaceInv
    <2>2. ASSUME NEW m, m = n PROVE PlaceInv(w, m)'
      <3>1. ASSUME NEW x, NEW g, FrameInv(w, x), x.at = "survey", g.c = x.c, g.own = x.own,
                   g.up = x.up, g.at = "walk", g.gen = x.gen, g.page = x.page
            PROVE  FrameInv(w, g)'
        BY <1>4, <1>11, <3>1 DEF FrameInv
      <3>2. \A g : g = t[m] => FrameInv(w, g)'
        BY <1>1, <1>3, <1>7, <2>2, <3>1
      <3>3. RecordOf(t[m], m) \in read'[w] /\ t[m].c.to \in walk'[w].visited
        BY <1>5, <1>7, <1>8, <2>2 DEF RecordOf, new
      <3>4. ~(m < Len(t))
        BY <1>2, <1>5, <2>2
      <3> QED  BY <3>2, <3>3, <3>4 DEF PlaceInv, RecordOf
    <2>3. Len(t) <= MaxDepth + 1
      BY <1>1, <1>5 DEF WalkInv, StackInv
    <2> QED  BY <1>2, <1>5, <2>1, <2>2, <2>3 DEF StackInv
  <1>14. LifeInv(w)'
    <2>1. t # <<>>
      BY <1>2, <1>5
    <2> QED  BY <1>1, <1>5, <2>1 DEF WalkInv, LifeInv
  <1>15. ReadInv(w)'
    BY <1>1, <1>3, <1>4, <1>5, <1>6, <1>8 DEF WalkInv, ReadInv, FrameInv
  <1>16. ConnInv(w)'
    <2>1. ASSUME NEW c \in conn, c.by = w, c.to \in Dc
          PROVE  c.to \in walk'[w].visited \/ \E k \in 1..n : t[k].c.to = c.to
      BY <1>1, <1>5, <1>12, <2>1 DEF WalkInv, ConnInv
    <2>2. \A k \in 1..n : ~t[k].own => [to |-> t[k].c.to, by |-> w] \notin conn
      BY <1>1, <1>12 DEF WalkInv, ConnInv
    <2> QED  BY <1>5, <1>8, <2>1, <2>2 DEF ConnInv
  <1>17. PersistInv(w)'
    <2>1. ASSUME [to |-> d, by |-> w] \in conn'
          PROVE  walk'[w].mode = "force" \/ (walk'[w].mode = "auto" /\ Reported(w, d)')
      <3>1. f.own
        BY <1>1, <1>2, <1>8, <2>1 DEF WalkInv, ConnInv
      <3>2. f.c = [to |-> d, by |-> w]
        BY <1>3, <3>1 DEF FrameInv, Connection
      <3>3. ~dc_decide(walk[w].mode, f)
        BY <1>4, <2>1, <3>2
      <3>4. walk[w].mode \in {"no", "auto", "force"}
        BY DEF Shape, Walk
      <3>5. walk[w].mode = "force" \/ (walk[w].mode = "auto" /\ epcsd(d, f.page, f.up))
        BY <3>1, <3>3, <3>4 DEF dc_decide
      <3>6. epcsd(d, f.page, f.up) => \A x : x = d => Reported(w, x)'
        <4>1. read[w] \subseteq read'[w] /\ RecordOf(f, n) \in read'[w] /\ UNCHANGED past
          BY <1>4, <1>8 DEF new
        <4> QED  BY <1>1, <1>2, <4>1, EpcsdReported
      <3> QED  BY <1>5, <3>5, <3>6
    <2> QED  BY <1>1, <1>5, <1>6, <1>8, <1>11, <2>1 DEF WalkInv, PersistInv
  <1>18. OnceInv(w)'
    BY <1>5, <1>12 DEF OnceInv
  <1>19. FollowInv(w)'
    <2>1. \A e : Met(w, e) => Met(w, e)'
      BY <1>4, <1>5 DEF Met
    <2>2. ASSUME NEW r \in read[w], r.depth < MaxDepth
          PROVE  \/ \A j \in 1..Len(PageOf(r)) : Met(w, PageOf(r)[j])'
                 \/ \E k \in 1..n :
                      /\ t[k].at = "walk" /\ RecordOf(t[k], k) = r
                      /\ \A j \in 1..Len(PageOf(r)) : j < t[k].i => Met(w, PageOf(r)[j])'
      <3>1. CASE \A j \in 1..Len(PageOf(r)) : Met(w, PageOf(r)[j])
        BY <1>10, <2>1, <3>1
      <3>2. CASE \E k \in 1..n :
                   /\ s[k].at = "walk" /\ RecordOf(s[k], k) = r
                   /\ \A j \in 1..Len(PageOf(r)) : j < s[k].i => Met(w, PageOf(r)[j])
        <4>1. PICK k \in 1..n :
                   /\ s[k].at = "walk" /\ RecordOf(s[k], k) = r
                   /\ \A j \in 1..Len(PageOf(r)) : j < s[k].i => Met(w, PageOf(r)[j])
          BY <3>2
        <4>2. t[k] = s[k]
          BY <1>1, <1>2, <1>5, <4>1
        <4> QED  BY <1>10, <2>1, <4>1, <4>2
      <3> QED  BY <1>1, <2>2, <3>1, <3>2 DEF WalkInv, FollowInv
    <2>3. /\ t[n].at = "walk" /\ RecordOf(t[n], n) = new
          /\ \A j \in 1..Len(PageOf(new)) : ~(j < t[n].i)
      BY <1>7 DEF RecordOf, new
    <2> QED  BY <1>2, <1>5, <1>8, <1>10, <2>2, <2>3 DEF FollowInv, RecordOf
  <1> QED
    BY <1>5, <1>9, <1>13, <1>14, <1>15, <1>16, <1>17, <1>18, <1>19 DEF WalkInv

(* A walk without frames that has read nothing. *)
LEMMA FreshWalk ==
    ASSUME NEW w \in Walker, walk'[w].stack = <<>>, read'[w] = {}, walk'[w].visited = {},
           walk'[w].st # "run", \A c \in conn' : c.by # w,
           \A c \in walk'[w].tree : c.by # w
    PROVE  WalkInv(w)'
  <1>1. Len(walk'[w].stack) = 0 /\ 1..0 = {}
    BY EmptySeq
  <1>2. StackInv(w)'
    BY <1>1, DiscoverAssumption DEF StackInv
  <1>3. LifeInv(w)'
    BY DEF LifeInv
  <1>4. ReadInv(w)' /\ PersistInv(w)' /\ OnceInv(w)' /\ FollowInv(w)'
    BY DEF ReadInv, PersistInv, OnceInv, FollowInv
  <1>5. ConnInv(w)'
    BY <1>1 DEF ConnInv
  <1> QED  BY <1>2, <1>3, <1>4, <1>5 DEF WalkInv

(* libnvmf_discover() begins with the connections that the scan finds, none *)
(* of which w made.                                                         *)
LEMMA ScanStep ==
    ASSUME IInv, NEW w \in Walker, Scan(w)
    PROVE  WalkInv(w)' /\ Shape' /\ \A v \in Walker \ {w} : walk'[v] = walk[v]
  <1> USE DEF IInv
  <1>1. walk[w].st = "new" /\ UNCHANGED <<log, conn, past, read, changes, faults>>
    BY DEF Scan, bounds
  <1>2. PICK m \in Modes, all \in BOOLEAN :
           walk' = [walk EXCEPT ![w].st = "scanned", ![w].mode = m, ![w].connect = all,
                                ![w].tree = conn]
    BY DEF Scan
  <1> DEFINE r == [[[[walk[w] EXCEPT !.st = "scanned"] EXCEPT !.mode = m]
                                  EXCEPT !.connect = all] EXCEPT !.tree = conn]
  <1>3. walk[w] \in Walk /\ m \in {"no", "auto", "force"} /\ conn \in SUBSET Connection
    BY DiscoverAssumption DEF Shape
  <1>4. walk' = [walk EXCEPT ![w] = r]
    BY <1>2, <1>3 DEF Shape
  <1>5. /\ r \in Walk /\ r.stack = walk[w].stack /\ r.st = "scanned" /\ r.tree = conn
        /\ r.visited = walk[w].visited
    BY <1>2, <1>3 DEF Walk
  <1> HIDE DEF r
  <1>6. walk' \in [Walker -> Walk] /\ walk'[w] = r
        /\ \A v \in Walker \ {w} : walk'[v] = walk[v]
    BY <1>4, <1>5 DEF Shape
  <1>7. Shape'
    BY <1>1, <1>6 DEF Shape
  <1>8. /\ walk[w].stack = <<>> /\ read[w] = {} /\ walk[w].visited = {}
        /\ \A c \in conn : c.by # w
    BY <1>1 DEF WalkInv, LifeInv
  <1>9. WalkInv(w)'
    BY <1>1, <1>5, <1>6, <1>8, FreshWalk
  <1> QED  BY <1>6, <1>7, <1>9

(* The primary is opened over connection c, found or new. *)
LEMMA OpenStep ==
    ASSUME IInv, NEW w \in Walker, walk[w].st = "scanned",
           NEW c \in Connection, c.to = Primary, NEW own \in BOOLEAN, own <=> c.by = w,
           NEW at \in {"identify", "header"}, at = "identify" => own,
           Push(w, NewFrame(c, own, None, at)),
           UNCHANGED <<log, past, read, changes, faults>>,
           conn' = IF own THEN conn \cup {c} ELSE conn
    PROVE  WalkInv(w)' /\ Shape' /\ \A v \in Walker \ {w} : walk'[v] = walk[v]
  <1> USE DEF IInv
  <1> DEFINE f == NewFrame(c, own, None, at)
             t == walk'[w].stack
  <1>1. /\ walk[w].stack = <<>> /\ read[w] = {} /\ walk[w].visited = {}
        /\ \A x \in conn : x.by # w
        /\ \A x \in walk[w].tree : x.by # w
    BY DEF WalkInv, LifeInv
  <1>2. f \in Frame
    BY DiscoverAssumption, EmptySeq DEF NewFrame, Frame
  <1>3. /\ f.c = c /\ f.own = own /\ f.up = None /\ f.at = at /\ f.gen = 0 /\ f.i = 1
    BY DEF NewFrame
  <1> HIDE DEF f
  <1>4. walk[w] \in Walk /\ <<f>> \in Seq(Frame) /\ Append(walk[w].stack, f) = <<f>>
        /\ Len(<<f>>) = 1 /\ <<f>>[1] = f
    <2>1. <<>> \in Seq(Frame)
      BY EmptySeq
    <2>2. Append(<<>>, f) = <<f>>
      OBVIOUS
    <2> QED  BY <1>1, <1>2, <2>1, <2>2, AppendProperties DEF Shape
  <1> DEFINE r == [[walk[w] EXCEPT !.st = "run"] EXCEPT !.stack = <<f>>]
  <1>5. walk' = [walk EXCEPT ![w] = r]
    BY <1>4 DEF Push, Shape, f
  <1>6. /\ r \in Walk /\ r.stack = <<f>> /\ r.st = "run" /\ r.tree = walk[w].tree
        /\ r.visited = walk[w].visited
    BY <1>4 DEF Walk
  <1> HIDE DEF r
  <1>7. /\ walk' \in [Walker -> Walk] /\ \A v \in Walker \ {w} : walk'[v] = walk[v]
        /\ walk'[w].st = "run" /\ walk'[w].tree = walk[w].tree
        /\ walk'[w].visited = {} /\ Len(t) = 1 /\ t[1] = f /\ read'[w] = {}
    BY <1>1, <1>4, <1>5, <1>6 DEF Shape
  <1>8. Shape'
    BY <1>7 DEF Shape
  <1>9. StackInv(w)'
    <2>1. \A g : g = f => FrameInv(w, g)'
      <3>1. Primary \in Dc /\ 0 <= log[Primary].gen
        BY DiscoverAssumption, Numbers
      <3>2. f.up # TRUE
        BY <1>3, DiscoverAssumption
      <3> QED  BY <1>3, <3>1, <3>2 DEF FrameInv
    <2>2. \A g : g = t[1] => FrameInv(w, g)'
      BY <1>7, <2>1
    <2>3. PlaceInv(w, 1)'
      BY <1>3, <1>7, <2>2 DEF PlaceInv
    <2>4. \A k \in 1..1 : k = 1
      OBVIOUS
    <2>5. 1 <= MaxDepth + 1
      BY DiscoverAssumption
    <2> QED  BY <1>7, <2>3, <2>4, <2>5 DEF StackInv
  <1>10. LifeInv(w)'
    <2>1. t # <<>>
      BY <1>7
    <2> QED  BY <1>1, <1>7, <2>1 DEF LifeInv
  <1>11. ReadInv(w)' /\ PersistInv(w)' /\ OnceInv(w)' /\ FollowInv(w)'
    BY <1>7 DEF ReadInv, PersistInv, OnceInv, FollowInv
  <1>12. ConnInv(w)'
    <2>1. ASSUME NEW x \in conn', x.by = w PROVE t[1].c.to = x.to
      BY <1>1, <1>3, <1>7, <2>1
    <2>2. 1 \in 1..1 /\ \A k \in 1..1 : k = 1
      OBVIOUS
    <2>3. ~own => [to |-> t[1].c.to, by |-> w] \notin conn'
      BY <1>1
    <2> QED  BY <1>3, <1>7, <2>1, <2>2, <2>3 DEF ConnInv
  <1> QED  BY <1>7, <1>8, <1>9, <1>10, <1>11, <1>12 DEF WalkInv

-----------------------------------------------------------------------------

(* The actions *)

(* A step of w keeps the invariant and leaves alone the other walks and     *)
(* their connections.                                                       *)
Moved(w) ==
    /\ IInv'
    /\ \A v \in Walker \ {w} : walk'[v] = walk[v]
    /\ \A c \in conn \ conn' : c.by = w

LEMMA OneWalker ==
    ASSUME IInv, NEW w \in Walker, Shape', WalkInv(w)', UNCHANGED <<log, past, changes>>,
           \A v \in Walker \ {w} : walk'[v] = walk[v] /\ read'[v] = read[v],
           \A c \in conn' \ conn : c.by = w, \A c \in conn \ conn' : c.by = w,
           faults <= faults'
    PROVE  Moved(w)
  <1>1. LogInv'
    BY DEF IInv, LogInv
  <1>2. ASSUME NEW v \in Walker \ {w} PROVE WalkInv(v)'
    <2>1. \A c \in conn' : c.by = v => c \in conn
      OBVIOUS
    <2> QED  BY <2>1, BystanderStep
  <1> QED  BY <1>1, <1>2 DEF IInv, Moved

(* The faults are counted. *)
LEMMA FaultCount ==
    ASSUME Shape
    PROVE  /\ faults \in Nat
           /\ Fault => faults' \in 0..MaxFault /\ faults <= faults' /\ faults' > 0
           /\ UNCHANGED faults => faults' \in 0..MaxFault /\ faults <= faults'
  BY DiscoverAssumption DEF Shape, Fault

LEMMA KeepsScan ==
    ASSUME IInv, NEW w \in Walker, Scan(w)
    PROVE  Moved(w)
  <1>1. WalkInv(w)' /\ Shape' /\ \A v \in Walker \ {w} : walk'[v] = walk[v]
    BY ScanStep
  <1>2. UNCHANGED <<log, conn, past, read, changes, faults>> /\ faults \in Nat
    BY Numbers DEF Scan, bounds, IInv
  <1> QED  BY <1>1, <1>2, OneWalker

LEMMA KeepsOpen ==
    ASSUME IInv, NEW w \in Walker, dc_open(w)
    PROVE  Moved(w)
  <1>1. walk[w].st = "scanned" /\ UNCHANGED <<log, past, read, changes>>
    BY DEF dc_open
  <1>2. faults \in Nat /\ Shape
    BY Numbers DEF IInv
  <1>3. ASSUME NEW c \in Found(w, Primary), Push(w, NewFrame(c, FALSE, None, "header")),
               UNCHANGED <<conn, faults>>
        PROVE  Moved(w)
    <2>1. c \in Connection /\ c.to = Primary /\ c.by # w
      BY DEF IInv, WalkInv, LifeInv, Shape, Walk, Found
    <2>2. WalkInv(w)' /\ Shape' /\ \A v \in Walker \ {w} : walk'[v] = walk[v]
      BY <1>1, <1>3, <2>1, OpenStep
    <2> QED  BY <1>1, <1>2, <1>3, <2>2, OneWalker
  <1>4. ASSUME NEW c, c = [to |-> Primary, by |-> w],
               Push(w, NewFrame(c, TRUE, None, "identify")),
               conn' = conn \cup {c}, UNCHANGED faults
        PROVE  Moved(w)
    <2>1. c \in Connection /\ c.to = Primary /\ c.by = w
      BY <1>4, DiscoverAssumption DEF Connection
    <2>2. WalkInv(w)' /\ Shape' /\ \A v \in Walker \ {w} : walk'[v] = walk[v]
      BY <1>1, <1>4, <2>1, OpenStep
    <2> QED  BY <1>1, <1>2, <1>4, <2>1, <2>2, OneWalker
  <1>5. ASSUME Fault, walk' = [walk EXCEPT ![w].st = "done"], UNCHANGED conn
        PROVE  Moved(w)
    <2>1. walk[w] \in Walk
      BY <1>2 DEF Shape
    <2>2. /\ walk' \in [Walker -> Walk] /\ \A v \in Walker \ {w} : walk'[v] = walk[v]
          /\ walk'[w].st = "done" /\ walk'[w].stack = walk[w].stack
          /\ walk'[w].visited = walk[w].visited /\ walk'[w].tree = walk[w].tree
      BY <1>2, <1>5, <2>1 DEF Shape, Walk
    <2>3. Shape' /\ faults <= faults'
      BY <1>1, <1>2, <1>5, <2>2, FaultCount DEF Shape
    <2>4. /\ walk[w].stack = <<>> /\ read[w] = {} /\ walk[w].visited = {}
          /\ \A x \in conn : x.by # w
          /\ \A x \in walk[w].tree : x.by # w
      BY <1>1 DEF IInv, WalkInv, LifeInv
    <2>5. WalkInv(w)'
      BY <1>1, <1>5, <2>2, <2>4, FreshWalk
    <2> QED  BY <1>1, <1>5, <2>2, <2>3, <2>5, OneWalker
  <1> QED  BY <1>3, <1>4, <1>5 DEF dc_open

(* The frame on top of a running walk. *)
LEMMA TopFrame ==
    ASSUME IInv, NEW w \in Walker, walk[w].st = "run"
    PROVE  /\ walk[w].stack # <<>> /\ Top(w) \in Frame /\ FrameInv(w, Top(w))
           /\ Top(w).c.to \in Dc /\ Len(walk[w].stack) \in 1..Len(walk[w].stack)
           /\ Top(w) = walk[w].stack[Len(walk[w].stack)]
  <1>1. walk[w].stack # <<>> /\ StackInv(w) /\ Shape
    BY DEF IInv, WalkInv, LifeInv
  <1>2. Len(walk[w].stack) \in 1..Len(walk[w].stack)
    <2>1. Len(walk[w].stack) \in Nat \ {0}
      BY <1>1, Numbers, EmptySeq
    <2> QED  BY <2>1
  <1> QED  BY <1>1, <1>2, Numbers DEF Top, StackInv, PlaceInv, FrameInv

(* _nvmf_discover() returns. *)
LEMMA KeepsPop ==
    ASSUME IInv, NEW w \in Walker, walk[w].st = "run", Pop(w),
           Top(w).at = "walk" => Top(w).i > Len(Top(w).page),
           UNCHANGED <<log, past, read, changes>>, conn' \subseteq conn,
           \A c \in conn \ conn' : c.by = w,
           Fault \/ UNCHANGED faults
    PROVE  Moved(w)
  <1>1. walk' \in [Walker -> Walk] /\ \A v \in Walker \ {w} : walk'[v] = walk[v]
    BY TopFrame, PopStack DEF IInv
  <1>2. Shape' /\ faults <= faults'
    BY <1>1, FaultCount DEF Shape, IInv
  <1>3. WalkInv(w)'
    BY <1>2, PopStep
  <1> QED  BY <1>1, <1>2, <1>3, OneWalker

(* The DC on top is read. *)
LEMMA KeepsTop ==
    ASSUME IInv, NEW w \in Walker, walk[w].st = "run", NEW g \in Frame, SetTop(w, g),
           Top(w).at # "walk", g.at # "walk", g.c = Top(w).c, g.own = Top(w).own,
           FrameInv(w, g), UNCHANGED <<log, conn, past, read, changes, faults>>
    PROVE  Moved(w)
  <1>1. /\ WalkInv(w)' /\ walk' \in [Walker -> Walk]
        /\ \A v \in Walker \ {w} : walk'[v] = walk[v]
    BY TopStep
  <1>2. Shape' /\ faults <= faults'
    BY <1>1, FaultCount DEF Shape, IInv
  <1> QED  BY <1>1, <1>2, OneWalker

LEMMA KeepsCreate ==
    ASSUME IInv, NEW w \in Walker, nvmf_create_discovery_ctrl(w)
    PROVE  Moved(w)
  <1>1. /\ walk[w].st = "run" /\ Top(w).at = "identify" /\ UNCHANGED <<log, past, read, changes>>
        /\ Top(w) \in Frame /\ FrameInv(w, Top(w))
    BY TopFrame DEF nvmf_create_discovery_ctrl, At
  <1>2. ASSUME SetTop(w, [Top(w) EXCEPT !.at = "header"]), UNCHANGED <<conn, faults>>
        PROVE  Moved(w)
    <2>1. ASSUME NEW f \in Frame, FrameInv(w, f), f.at = "identify",
                 NEW g, g = [f EXCEPT !.at = "header"]
          PROVE  /\ g \in Frame /\ g.at = "header" /\ g.c = f.c /\ g.own = f.own
                 /\ FrameInv(w, g)
      <3>1. /\ g \in Frame /\ g.at = "header" /\ g.c = f.c /\ g.own = f.own
            /\ g.up = f.up /\ g.gen = f.gen /\ g.i = f.i
        BY <2>1 DEF Frame
      <3> QED  BY <2>1, <3>1 DEF FrameInv
    <2> QED  BY <1>1, <1>2, <2>1, KeepsTop
  <1>3. ASSUME IF Top(w).c \in conn THEN Fault ELSE UNCHANGED faults,
               conn' = conn \ {Top(w).c}, Pop(w)
        PROVE  Moved(w)
    <2>1. Top(w).c.by = w
      BY <1>1 DEF FrameInv
    <2> QED  BY <1>1, <1>3, <2>1, KeepsPop
  <1> QED  BY <1>2, <1>3 DEF nvmf_create_discovery_ctrl

LEMMA KeepsReadFails ==
    ASSUME IInv, NEW w \in Walker, ReadFails(w)
    PROVE  Moved(w)
  <1>1. walk[w].st = "run" /\ Top(w).at # "walk" /\ UNCHANGED <<log, conn, past, read, changes>>
    BY DEF ReadFails
  <1>2. (Fault \/ UNCHANGED faults) /\ Pop(w)
    BY DEF ReadFails
  <1> QED  BY <1>1, <1>2, KeepsPop

(* A try begins with the header: nothing has been read of its page. *)
LEMMA BeginFrame ==
    ASSUME IInv, NEW w \in Walker, NEW f \in Frame, FrameInv(w, f), f.at # "walk",
           NEW g, g = Begin(f, f.c.to)
    PROVE  /\ g \in Frame /\ g.at # "walk" /\ g.c = f.c /\ g.own = f.own
           /\ FrameInv(w, g)
  <1> DEFINE d == f.c.to
             gen == log[d].gen
             num == Len(log[d].page)
             at == IF num = 0 THEN "survey" ELSE "entries"
  <1>1. d \in Dc
    BY DEF FrameInv
  <1>2. /\ gen \in 0..MaxChange /\ log[d].page \in Seq(Entry)
        /\ past[d][gen + 1] = log[d].page
    BY <1>1 DEF IInv, Shape, LogInv
  <1>3. num \in Nat /\ (num = 0 => log[d].page = <<>>)
    BY <1>2, LenProperties, EmptySeq
  <1>4. at \in {"survey", "entries"} /\ (at = "survey" <=> num = 0)
    OBVIOUS
  <1>5. \A x, y, z : LET h == [f EXCEPT !.gen = x, !.num = y, !.page = <<>>] IN
           h.num = y
           /\ [h EXCEPT !.at = z]
              = [[[[f EXCEPT !.gen = x] EXCEPT !.num = y] EXCEPT !.page = <<>>] EXCEPT !.at = z]
    BY DEF Frame
  <1>6. g = [[[[f EXCEPT !.gen = gen] EXCEPT !.num = num] EXCEPT !.page = <<>>] EXCEPT !.at = at]
    BY <1>5 DEF Begin
  <1> HIDE DEF at, num, gen
  <1>7. <<>> \in Seq(Entry \cup {None}) /\ Len(<<>>) = 0
    BY EmptySeq
  <1>8. /\ g \in Frame /\ g.c = f.c /\ g.own = f.own /\ g.up = f.up /\ g.i = f.i
        /\ g.gen = gen /\ g.num = num /\ g.page = <<>> /\ g.at = at
    <2> DEFINE f1 == [f EXCEPT !.gen = gen]
               f2 == [f1 EXCEPT !.num = num]
               f3 == [f2 EXCEPT !.page = <<>>]
    <2>1. /\ f1 \in Frame /\ f1.c = f.c /\ f1.own = f.own /\ f1.up = f.up /\ f1.i = f.i
          /\ f1.gen = gen
      BY <1>2 DEF Frame
    <2> HIDE DEF f1
    <2>2. /\ f2 \in Frame /\ f2.c = f1.c /\ f2.own = f1.own /\ f2.up = f1.up /\ f2.i = f1.i
          /\ f2.gen = f1.gen /\ f2.num = num
      BY <1>3, <2>1 DEF Frame
    <2> HIDE DEF f2
    <2>3. /\ f3 \in Frame /\ f3.c = f2.c /\ f3.own = f2.own /\ f3.up = f2.up /\ f3.i = f2.i
          /\ f3.gen = f2.gen /\ f3.num = f2.num /\ f3.page = <<>>
      BY <1>7, <2>2 DEF Frame
    <2>4. g = [f3 EXCEPT !.at = at]
      BY <1>6 DEF f1, f2
    <2> HIDE DEF f3
    <2>5. /\ g \in Frame /\ g.c = f3.c /\ g.own = f3.own /\ g.up = f3.up /\ g.i = f3.i
          /\ g.gen = f3.gen /\ g.num = f3.num /\ g.page = f3.page /\ g.at = at
      BY <1>4, <2>3, <2>4 DEF Frame
    <2> QED  BY <2>1, <2>2, <2>3, <2>5
  <1>9. g.at = "entries" => ReadSoFar(g)
    BY <1>3, <1>7, <1>8 DEF ReadSoFar, gen, num
  <1>10. g.at = "survey" => g.page = past[d][g.gen + 1]
    BY <1>2, <1>3, <1>4, <1>8
  <1>11. g.gen <= log[d].gen /\ g.at # "walk" /\ g.at # "identify" /\ g.at # "again"
    <2>1. gen \in Nat
      BY <1>1, Numbers DEF gen, IInv
    <2> QED  BY <1>4, <1>8, <2>1 DEF gen
  <1> QED  BY <1>8, <1>9, <1>10, <1>11 DEF FrameInv

LEMMA KeepsHeader ==
    ASSUME IInv, NEW w \in Walker, get_header(w)
    PROVE  Moved(w)
  <1>1. /\ walk[w].st = "run" /\ Top(w).at = "header"
        /\ SetTop(w, Begin(Top(w), Top(w).c.to))
        /\ UNCHANGED <<log, conn, past, read, changes, faults>>
        /\ Top(w) \in Frame /\ FrameInv(w, Top(w))
    BY TopFrame DEF get_header, At, bounds
  <1> QED  BY <1>1, BeginFrame, KeepsTop

(* A command reads the next entries of the page as it is.                   *)
LEMMA KeepsGetLog ==
    ASSUME IInv, NEW w \in Walker, libnvme_get_log(w)
    PROVE  Moved(w)
  <1> DEFINE f == Top(w)
             now == log[f.c.to].page
             n == IF Len(f.page) + Chunk < f.num THEN Len(f.page) + Chunk ELSE f.num
             got == [k \in 1..n |-> IF k <= Len(f.page) THEN f.page[k]
                                    ELSE IF k <= Len(now) THEN now[k] ELSE None]
             at == IF n = f.num THEN "again" ELSE "entries"
             g == [f EXCEPT !.page = got, !.at = at]
  <1>1. /\ walk[w].st = "run" /\ f.at = "entries" /\ SetTop(w, g)
        /\ UNCHANGED <<log, conn, past, read, changes, faults>>
        /\ f \in Frame /\ FrameInv(w, f) /\ f.c.to \in Dc
    BY TopFrame DEF libnvme_get_log, At, bounds
  <1>2. ReadSoFar(f)
    BY <1>1 DEF FrameInv
  <1>3. /\ f.page \in Seq(Entry \cup {None}) /\ now \in Seq(Entry)
        /\ Len(f.page) \in Nat /\ Len(now) \in Nat /\ f.num \in Nat /\ Chunk \in Nat
    BY <1>1, Numbers, LenProperties, DiscoverAssumption DEF IInv, Frame
  <1>4. n \in Nat /\ n <= f.num /\ Len(f.page) <= n
    BY <1>2, <1>3 DEF ReadSoFar
  <1>5. \A k \in 1..Len(f.page) : f.page[k] \in Entry \cup {None}
    BY <1>3, ElementOfSeq
  <1>6. \A k \in 1..Len(now) : now[k] \in Entry
    BY <1>3, ElementOfSeq
  <1> HIDE DEF n
  <1>7. got \in Seq(Entry \cup {None}) /\ Len(got) = n
    <2>1. \A k \in 1..n : got[k] \in Entry \cup {None}
      BY <1>3, <1>4, <1>5, <1>6
    <2>2. got \in [1..n -> Entry \cup {None}]
      BY <2>1
    <2> HIDE DEF got
    <2> QED  BY <1>4, <2>2
  <1>8. f.gen = log[f.c.to].gen => \A k \in 1..Len(got) : got[k] = now[k]
    <2>1. ASSUME f.gen = log[f.c.to].gen, NEW k \in 1..n PROVE got[k] = now[k]
      <3>1. f.num = Len(now) /\ \A j \in 1..Len(f.page) : f.page[j] = now[j]
        BY <1>2, <2>1 DEF ReadSoFar
      <3>2. k <= Len(now)
        BY <1>3, <1>4, <3>1
      <3> QED  BY <1>3, <3>1, <3>2
    <2> QED  BY <1>7, <2>1
  <1>9. at \in {"again", "entries"} /\ (at = "again" => n = f.num)
    OBVIOUS
  <1> HIDE DEF got, at
  <1>10. \A x \in Frame : \A y, z :
            [x EXCEPT !.page = y, !.at = z] = [[x EXCEPT !.page = y] EXCEPT !.at = z]
    BY DEF Frame
  <1>11. g = [[f EXCEPT !.page = got] EXCEPT !.at = at]
    BY <1>1, <1>10
  <1> HIDE DEF g
  <1>12. /\ g \in Frame /\ g.c = f.c /\ g.own = f.own /\ g.up = f.up /\ g.i = f.i
         /\ g.gen = f.gen /\ g.num = f.num /\ g.page = got /\ g.at = at
    <2> DEFINE f1 == [f EXCEPT !.page = got]
    <2>1. g = [f1 EXCEPT !.at = at] /\ f \in Frame
      BY <1>1, <1>11
    <2> HIDE DEF f
    <2>2. /\ f1 \in Frame /\ f1.c = f.c /\ f1.own = f.own /\ f1.up = f.up /\ f1.i = f.i
          /\ f1.gen = f.gen /\ f1.num = f.num /\ f1.page = got
      BY <1>7, <2>1 DEF Frame
    <2> HIDE DEF f1
    <2>3. /\ g \in Frame /\ g.c = f1.c /\ g.own = f1.own /\ g.up = f1.up /\ g.i = f1.i
          /\ g.gen = f1.gen /\ g.num = f1.num /\ g.page = f1.page /\ g.at = at
      BY <1>9, <2>1, <2>2 DEF Frame
    <2> QED  BY <2>2, <2>3
  <1>13. ReadSoFar(g)
    BY <1>2, <1>4, <1>7, <1>8, <1>9, <1>12 DEF ReadSoFar
  <1>14. FrameInv(w, g) /\ g.at # "walk"
    BY <1>1, <1>9, <1>12, <1>13 DEF FrameInv
  <1> QED  BY <1>1, <1>12, <1>14, KeepsTop

(* The header again: if the generation is that of the first header, what    *)
(* was read in between is of one page.                                      *)
LEMMA KeepsHeaderAgain ==
    ASSUME IInv, NEW w \in Walker, get_header_again(w)
    PROVE  Moved(w)
  <1> DEFINE f == Top(w)
             g == [f EXCEPT !.tries = @ + 1]
             d == f.c.to
  <1>1. /\ walk[w].st = "run" /\ f.at = "again" /\ f \in Frame /\ FrameInv(w, f) /\ d \in Dc
        /\ UNCHANGED <<log, conn, past, read, changes, faults>>
    BY TopFrame DEF get_header_again, At, bounds
  <1>2. ASSUME log[d].gen = f.gen, SetTop(w, [f EXCEPT !.at = "survey"])
        PROVE  Moved(w)
    <2> DEFINE h == [f EXCEPT !.at = "survey"]
               page == log[d].page
    <2>1. Len(f.page) = Len(page) /\ \A k \in 1..Len(f.page) : f.page[k] = page[k]
      BY <1>1, <1>2 DEF FrameInv, ReadSoFar
    <2>2. f.page \in Seq(Entry \cup {None}) /\ page \in Seq(Entry \cup {None})
      <3>1. page \in Seq(Entry)
        BY <1>1, Numbers DEF IInv
      <3>2. page \in Seq(Entry \cup {None})
        BY <3>1, SeqMonotonic
      <3> QED  BY <1>1, <3>2 DEF Frame
    <2>3. f.page = page
      BY <2>1, <2>2, SeqEqual
    <2>4. f.page = past[d][f.gen + 1]
      BY <1>1, <1>2, <2>3 DEF IInv, LogInv
    <2>5. ASSUME NEW x \in Frame, NEW y, y = [x EXCEPT !.at = "survey"]
          PROVE  /\ y \in Frame /\ y.c = x.c /\ y.own = x.own /\ y.up = x.up /\ y.i = x.i
                 /\ y.gen = x.gen /\ y.page = x.page /\ y.at = "survey"
      BY <2>5 DEF Frame
    <2>6. /\ h \in Frame /\ h.c = f.c /\ h.own = f.own /\ h.up = f.up /\ h.i = f.i
          /\ h.gen = f.gen /\ h.page = f.page /\ h.at = "survey"
      BY <1>1, <2>5
    <2>7. SetTop(w, h)
      BY <1>2
    <2> HIDE DEF h
    <2>8. FrameInv(w, h)
      BY <1>1, <2>4, <2>6 DEF FrameInv
    <2> QED  BY <1>1, <2>6, <2>7, <2>8, KeepsTop
  <1>3. ASSUME g.tries < MaxRetries, SetTop(w, Begin(g, d))
        PROVE  Moved(w)
    <2>1. f.tries \in Nat /\ MaxRetries \in Nat
      BY <1>1, DiscoverAssumption DEF Frame
    <2>2. /\ g.tries = f.tries + 1 /\ g.c = f.c /\ g.own = f.own /\ g.up = f.up
          /\ g.i = f.i /\ g.gen = f.gen /\ g.page = f.page /\ g.num = f.num /\ g.at = f.at
      BY <1>1 DEF Frame
    <2>3. f.tries + 1 \in 0..MaxRetries
      BY <1>3, <2>1, <2>2
    <2>4. g \in Frame
      BY <1>1, <2>3 DEF Frame
    <2>5. g = [f EXCEPT !.tries = f.tries + 1] /\ SetTop(w, Begin(g, g.c.to))
      BY <1>3, <2>2
    <2> HIDE DEF g
    <2>6. FrameInv(w, g) /\ g.at # "walk"
      BY <1>1, <2>2 DEF FrameInv, ReadSoFar
    <2> DEFINE h == Begin(g, g.c.to)
    <2>7. /\ h \in Frame /\ h.at # "walk" /\ h.c = g.c /\ h.own = g.own
          /\ FrameInv(w, h)
      BY <2>4, <2>6, BeginFrame
    <2>8. SetTop(w, h)
      BY <2>5
    <2> HIDE DEF h
    <2>9. h.c = Top(w).c /\ h.own = Top(w).own
      BY <2>2, <2>7
    <2> QED  BY <1>1, <2>7, <2>8, <2>9, KeepsTop
  <1>4. ASSUME Pop(w) PROVE Moved(w)
    BY <1>1, <1>4, KeepsPop
  <1> QED  BY <1>2, <1>3, <1>4 DEF get_header_again, GiveUp

LEMMA KeepsSurvey ==
    ASSUME IInv, NEW w \in Walker, dc_survey(w)
    PROVE  Moved(w)
  <1>1. WalkInv(w)' /\ Shape' /\ \A v \in Walker \ {w} : walk'[v] = walk[v]
    BY SurveyStep
  <1>2. UNCHANGED <<log, past, changes, faults>> /\ faults \in Nat
    BY Numbers DEF dc_survey, bounds, IInv
  <1>3. \A v \in Walker \ {w} : read'[v] = read[v]
    BY DEF dc_survey, IInv, Shape
  <1>4. conn' = IF dc_decide(walk[w].mode, Top(w)) THEN conn \ {Top(w).c} ELSE conn
    BY DEF dc_survey
  <1>5. Top(w).own => Top(w).c.by = w
    BY TopFrame DEF dc_survey, At, FrameInv
  <1>6. conn' \subseteq conn /\ \A c \in conn \ conn' : c.by = w
    BY <1>4, <1>5 DEF dc_decide
  <1> QED  BY <1>1, <1>2, <1>3, <1>6, OneWalker

(* The entry that a walk is at. *)
LEMMA CurrentEntry ==
    ASSUME IInv, NEW w \in Walker, NEW kind, AtEntry(w, kind)
    PROVE  LET e == Top(w).page[Top(w).i]
           IN  /\ At(w, "walk") /\ e \in Entry /\ e.kind = kind /\ Target(w) = e.to
  <1> DEFINE n == Len(walk[w].stack)
  <1>1. walk[w].st = "run" /\ Top(w).at = "walk" /\ Top(w).i <= Len(Top(w).page)
    BY DEF AtEntry, At
  <1>2. n \in 1..n /\ Top(w) = walk[w].stack[n] /\ Top(w) \in Frame
    BY <1>1, TopFrame
  <1>3. \A j \in 1..Len(Top(w).page) : Top(w).page[j] \in Entry
    BY <1>1, <1>2, WalkedPage
  <1>4. Top(w).i \in Nat \ {0} /\ Len(Top(w).page) \in Nat
    BY <1>2, Numbers DEF IInv
  <1>5. Top(w).i \in 1..Len(Top(w).page)
    BY <1>1, <1>4
  <1> QED  BY <1>3, <1>5 DEF AtEntry, Target

(* The walk has done with an entry. *)
LEMMA KeepsSkip ==
    ASSUME IInv, NEW w \in Walker, At(w, "walk"), Skip(w),
           Len(walk[w].stack) - 1 < MaxDepth
               => Met(w, Top(w).page[Top(w).i]) \/ faults' > 0,
           UNCHANGED <<log, past, read, changes>>, Fault \/ UNCHANGED faults,
           conn \subseteq conn', conn' \subseteq Connection,
           \A c \in conn' \ conn : c.by = w /\ c.to \notin Dc
    PROVE  Moved(w)
  <1>1. walk' \in [Walker -> Walk] /\ \A v \in Walker \ {w} : walk'[v] = walk[v]
    BY TopFrame, SkipStack DEF IInv, At
  <1>2. Shape' /\ faults <= faults'
    BY <1>1, FaultCount DEF Shape, IInv
  <1>3. WalkInv(w)'
    BY <1>2, SkipStep
  <1> QED  BY <1>1, <1>2, <1>3, OneWalker

LEMMA KeepsSelf ==
    ASSUME IInv, NEW w \in Walker, skip_self(w)
    PROVE  Moved(w)
  <1>1. At(w, "walk") /\ Top(w).page[Top(w).i].kind = "self"
    BY CurrentEntry DEF skip_self
  <1>2. Met(w, Top(w).page[Top(w).i])
    BY <1>1 DEF Met
  <1>3. Skip(w) /\ UNCHANGED <<log, conn, past, read, changes, faults>>
    BY DEF skip_self, bounds
  <1>4. conn \subseteq Connection
    BY DEF IInv, Shape
  <1> QED  BY <1>1, <1>2, <1>3, <1>4, KeepsSkip

(* An I/O controller is connected or not: that concerns no DC. *)
LEMMA KeepsLeaf ==
    ASSUME IInv, NEW w \in Walker, dc_connect_leaf_entry(w)
    PROVE  Moved(w)
  <1> DEFINE e == Top(w).page[Top(w).i]
             c == [to |-> Target(w), by |-> w]
  <1>1. At(w, "walk") /\ e \in Entry /\ e.kind = "nvme" /\ Target(w) = e.to
    BY CurrentEntry DEF dc_connect_leaf_entry
  <1>2. Met(w, e)
    BY <1>1 DEF Met
  <1>3. Skip(w) /\ UNCHANGED <<log, past, read, changes>>
    BY DEF dc_connect_leaf_entry
  <1>4. conn \subseteq Connection
    BY DEF IInv, Shape
  <1>5. e.to \in Io /\ e.to \notin Dc
    BY <1>1, DiscoverAssumption DEF Entry
  <1>6. c \in Connection /\ c.by = w /\ c.to \notin Dc
    BY <1>1, <1>5 DEF Connection
  <1>7. (conn' = conn \/ conn' = conn \cup {c}) /\ (Fault \/ UNCHANGED faults)
    BY DEF dc_connect_leaf_entry
  <1>8. /\ conn \subseteq conn' /\ conn' \subseteq Connection
        /\ \A x \in conn' \ conn : x.by = w /\ x.to \notin Dc
    BY <1>4, <1>6, <1>7
  <1> QED  BY <1>1, <1>2, <1>3, <1>7, <1>8, KeepsSkip

(* A referral is followed, or there is no need or no way to follow it. *)
LEMMA KeepsReferral ==
    ASSUME IInv, NEW w \in Walker, dc_walk_referral(w)
    PROVE  Moved(w)
  <1> DEFINE e == Top(w).page[Top(w).i]
             d == Target(w)
             c == [to |-> d, by |-> w]
             skip == Deep(w) \/ dc_visited_has(w, d)
  <1>1. /\ At(w, "walk") /\ e \in Entry /\ e.kind = "disc" /\ d = e.to
        /\ AtEntry(w, "disc") /\ UNCHANGED <<log, past, read, changes>>
    BY CurrentEntry DEF dc_walk_referral
  <1>2. d \in Dc /\ c \in Connection
    BY <1>1 DEF Entry, Connection
  <1>3. conn \subseteq Connection /\ faults \in Nat /\ Shape
    BY Numbers DEF IInv, Shape
  <1>4. ASSUME Skip(w), UNCHANGED conn, Fault \/ UNCHANGED faults,
               skip \/ Refused(d) \/ Fault
        PROVE  Moved(w)
    <2>1. Len(walk[w].stack) - 1 < MaxDepth => Met(w, e) \/ faults' > 0
      <3>1. Len(walk[w].stack) - 1 < MaxDepth => ~Deep(w)
        <4>1. Len(walk[w].stack) \in Nat /\ MaxDepth \in Nat
          BY <1>3, Numbers
        <4> QED  BY <4>1 DEF Deep
      <3>2. dc_visited_has(w, d) => Met(w, e)
        BY <1>1 DEF Met, dc_visited_has
      <3>3. Refused(d) => Met(w, e)
        BY <1>1, <1>2, DiscoverAssumption DEF Met, Refused
      <3>4. Fault => faults' > 0
        BY <1>3, FaultCount
      <3> QED  BY <1>4, <3>1, <3>2, <3>3, <3>4
    <2> QED  BY <1>1, <1>3, <1>4, <2>1, KeepsSkip
  <1>5. ASSUME ~skip, NEW x \in Connection, x.to = d, NEW own \in BOOLEAN,
               own <=> x.by = w, Descend(w, x, own), UNCHANGED faults,
               conn' = IF own THEN conn \cup {x} ELSE conn
        PROVE  Moved(w)
    <2>1. ~Deep(w) /\ d \notin walk[w].visited
      BY <1>5 DEF dc_visited_has
    <2>2. /\ WalkInv(w)' /\ walk' \in [Walker -> Walk]
          /\ \A v \in Walker \ {w} : walk'[v] = walk[v]
      BY <1>1, <1>5, <2>1, DescendStep
    <2>3. Shape'
      BY <1>1, <1>3, <1>5, <2>2 DEF Shape
    <2> QED  BY <1>1, <1>3, <1>5, <2>2, <2>3, OneWalker
  <1>6. ASSUME ~skip, NEW b \in Found(w, d), Descend(w, b, FALSE), UNCHANGED <<conn, faults>>
        PROVE  Moved(w)
    <2>1. b \in Connection /\ b.to = d /\ b.by # w
      BY DEF IInv, WalkInv, LifeInv, Shape, Walk, Found
    <2> QED  BY <1>5, <1>6, <2>1
  <1>7. ASSUME ~skip, Descend(w, c, TRUE), conn' = conn \cup {c}, UNCHANGED faults
        PROVE  Moved(w)
    <2>1. c.to = d /\ c.by = w
      OBVIOUS
    <2> HIDE DEF c
    <2> QED  BY <1>2, <1>5, <1>7, <2>1
  <1>8. \/ skip /\ Skip(w) /\ UNCHANGED <<conn, faults>>
        \/ ~skip /\ (\E b \in Found(w, d) : Descend(w, b, FALSE)) /\ UNCHANGED <<conn, faults>>
        \/ Refused(d) /\ Skip(w) /\ UNCHANGED <<conn, faults>>
        \/ ~skip /\ Descend(w, c, TRUE) /\ conn' = conn \cup {c} /\ UNCHANGED faults
        \/ Fault /\ Skip(w) /\ UNCHANGED conn
    BY DEF dc_walk_referral
  <1> HIDE DEF skip, c, d
  <1> QED  BY <1>4, <1>6, <1>7, <1>8

LEMMA KeepsEnd ==
    ASSUME IInv, NEW w \in Walker, walk_end(w)
    PROVE  Moved(w)
  <1>1. /\ walk[w].st = "run" /\ Top(w).i > Len(Top(w).page) /\ Pop(w)
        /\ UNCHANGED <<log, conn, past, read, changes, faults>>
    BY DEF walk_end, At, bounds
  <1> QED  BY <1>1, KeepsPop

(* Every step of a walk. *)
LEMMA WalkStep ==
    ASSUME IInv, NEW w \in Walker, Step(w)
    PROVE  Moved(w)
  BY KeepsScan, KeepsOpen, KeepsCreate, KeepsReadFails, KeepsHeader, KeepsGetLog,
     KeepsHeaderAgain, KeepsSurvey, KeepsSelf, KeepsLeaf, KeepsReferral, KeepsEnd
  DEF Step

(* The fabric changes under the walks. *)
LEMMA FabricStep ==
    ASSUME IInv,
           \/ \E d \in Dc : Change(d)
           \/ \E x \in Dc \cup Io : Connected(x)
           \/ \E c \in conn : Lost(c)
           \/ UNCHANGED vars
    PROVE  IInv'
  <1> USE DEF IInv
  <1>1. faults \in Nat /\ changes \in Nat /\ MaxChange \in Nat /\ MaxFault \in Nat
    BY Numbers, DiscoverAssumption
  <1>2. ASSUME NEW d \in Dc, Change(d) PROVE IInv'
    <2>1. PICK p \in Pages[d] :
             /\ log' = [log EXCEPT ![d] = [gen |-> log[d].gen + 1, page |-> p]]
             /\ past' = [past EXCEPT ![d] = Append(@, p)]
      BY <1>2 DEF Change
    <2>2. p \in Seq(Entry)
      BY DiscoverAssumption
    <2>3. changes' \in 0..MaxChange /\ log[d].gen + 1 \in 0..MaxChange
      <3>1. log[d].gen \in Nat /\ log[d].gen <= changes /\ changes < MaxChange
            /\ changes' = changes + 1
        BY <1>2, Numbers DEF LogInv, Change
      <3> QED  BY <1>1, <3>1
    <2>4. log' \in [Dc -> [gen : 0..MaxChange, page : Seq(Entry)]]
      BY <2>1, <2>2, <2>3 DEF Shape
    <2>5. past' \in [Dc -> Seq(Seq(Entry))]
      BY <2>1, <2>2, AppendProperties DEF Shape
    <2>6. Shape'
      BY <1>2, <2>3, <2>4, <2>5 DEF Shape, Change
    <2> QED  BY <1>2, <2>6, ChangeStep
  <1>3. ASSUME UNCHANGED <<log, walk, past, read>>, conn' \subseteq Connection,
               \A c \in conn' \ conn : c.by \notin Walker, changes' \in 0..MaxChange,
               changes <= changes', faults' \in 0..MaxFault, faults <= faults'
        PROVE  IInv'
    <2>1. Shape'
      BY <1>3 DEF Shape
    <2>2. LogInv'
      <3>1. \A d \in Dc : log[d].gen \in Nat /\ log[d].gen <= changes
        BY Numbers DEF LogInv
      <3>2. \A d \in Dc : log[d].gen <= changes'
        BY <1>1, <1>3, <3>1
      <3> QED  BY <1>3, <3>2 DEF LogInv
    <2>3. ASSUME NEW w \in Walker PROVE WalkInv(w)'
      <3>1. \A c \in conn' : c.by = w => c \in conn
        BY <1>3
      <3> QED  BY <1>3, <2>1, <3>1, BystanderStep
    <2> QED  BY <2>1, <2>2, <2>3
  <1>4. conn \subseteq Connection /\ changes \in 0..MaxChange /\ faults \in 0..MaxFault
    BY DEF Shape
  <1>5. ASSUME NEW x \in Dc \cup Io, Connected(x) PROVE IInv'
    <2>1. [to |-> x, by |-> Other] \in Connection /\ Other \notin Walker
      BY DiscoverAssumption DEF Connection
    <2>2. conn' = conn \cup {[to |-> x, by |-> Other]} /\ changes < MaxChange
          /\ changes' = changes + 1 /\ UNCHANGED <<log, walk, past, read, faults>>
      BY <1>5 DEF Connected
    <2> QED  BY <1>1, <1>3, <1>4, <2>1, <2>2
  <1>6. ASSUME NEW c \in conn, Lost(c) PROVE IInv'
    <2>1. conn' \subseteq conn /\ faults' \in 0..MaxFault /\ faults <= faults'
          /\ UNCHANGED <<log, walk, past, read, changes>>
      BY <1>6, FaultCount DEF Lost
    <2> QED  BY <1>1, <1>3, <1>4, <2>1
  <1>7. ASSUME UNCHANGED vars PROVE IInv'
    BY <1>1, <1>3, <1>4, <1>7 DEF vars
  <1> QED  BY <1>2, <1>5, <1>6, <1>7

LEMMA InitInv ==
    ASSUME Init
    PROVE  IInv
  <1>1. MaxChange \in Nat /\ MaxFault \in Nat /\ MaxDepth \in Nat
    BY DiscoverAssumption
  <1>2. \A d \in Dc : log[d].gen = 0 /\ log[d].page \in Pages[d] /\ log[d].page \in Seq(Entry)
    BY DiscoverAssumption DEF Init
  <1>3. \A d \in Dc : Len(past[d]) = 1 /\ past[d][1] = log[d].page /\ past[d] \in Seq(Seq(Entry))
    BY <1>2 DEF Init
  <1>4. log \in [Dc -> [gen : 0..MaxChange, page : Seq(Entry)]]
    <2>1. \A d \in Dc : log[d] \in [gen : {0}, page : UNION {Pages[x] : x \in Dc}]
      BY DEF Init
    <2>2. \A d \in Dc : log[d] \in [gen : 0..MaxChange, page : Seq(Entry)]
      BY <1>1, <1>2, <2>1
    <2>3. log = [d \in Dc |-> log[d]]
      BY DEF Init
    <2> QED  BY <2>2, <2>3
  <1>5. past \in [Dc -> Seq(Seq(Entry))]
    <2>1. past = [d \in Dc |-> <<log[d].page>>]
      BY DEF Init
    <2> QED  BY <1>3, <2>1
  <1>6. conn \subseteq Connection /\ \A c \in conn : c.by \notin Walker
    BY DiscoverAssumption DEF Init, Connection
  <1>7. NoWalk \in Walk
    BY EmptySeq DEF NoWalk, Walk
  <1>8. ASSUME NEW w \in Walker
        PROVE  /\ walk[w].st = "new" /\ walk[w].stack = <<>> /\ walk[w].visited = {}
               /\ walk[w].tree = {} /\ read[w] = {} /\ Len(walk[w].stack) = 0
    BY EmptySeq DEF Init, NoWalk
  <1>9. Shape
    <2>1. walk \in [Walker -> Walk] /\ read \in [Walker -> SUBSET Record]
      BY <1>7 DEF Init
    <2>2. changes \in 0..MaxChange /\ faults \in 0..MaxFault
      BY <1>1 DEF Init
    <2> QED  BY <1>4, <1>5, <1>6, <2>1, <2>2 DEF Shape
  <1>10. LogInv
    <2>1. changes = 0
      BY DEF Init
    <2>2. ASSUME NEW d \in Dc
          PROVE  /\ log[d].gen <= changes /\ Len(past[d]) = log[d].gen + 1
                 /\ past[d][log[d].gen + 1] = log[d].page
                 /\ \A k \in 1..Len(past[d]) : past[d][k] \in Pages[d]
      <3>1. log[d].gen = 0 /\ log[d].gen + 1 = 1 /\ \A k \in 1..1 : k = 1
        BY <1>2
      <3> QED  BY <1>2, <1>3, <2>1, <3>1
    <2> QED  BY <2>2 DEF LogInv
  <1>11. ASSUME NEW w \in Walker PROVE WalkInv(w)
    <2>1. 1..0 = {} /\ 0 <= MaxDepth + 1
      BY <1>1
    <2>2. StackInv(w) /\ LifeInv(w) /\ ConnInv(w)
      BY <1>6, <1>8, <2>1 DEF StackInv, LifeInv, ConnInv
    <2>3. ReadInv(w) /\ PersistInv(w) /\ OnceInv(w) /\ FollowInv(w)
      BY <1>8 DEF ReadInv, PersistInv, OnceInv, FollowInv
    <2> QED  BY <2>2, <2>3 DEF WalkInv
  <1> QED  BY <1>9, <1>10, <1>11 DEF IInv

-----------------------------------------------------------------------------

(* The theorems *)

(* Every reachable state satisfies the inductive invariant, whatever walks  *)
(* run beside each other, pages change, connections are lost and commands   *)
(* fail.                                                                    *)
THEOREM Invariance == Spec => []IInv
  <1>1. Init => IInv
    BY InitInv
  <1>2. IInv /\ [Next]_vars => IInv'
    <2> SUFFICES ASSUME IInv, [Next]_vars PROVE IInv'
      OBVIOUS
    <2>1. CASE \E w \in Walker : Step(w)
      BY <2>1, WalkStep DEF Moved
    <2> QED  BY <2>1, FabricStep DEF Next
  <1> QED  BY <1>1, <1>2, PTL DEF Spec

(* The types: among them that no walk is deeper than MaxDepth, and that no  *)
(* page is read more than MaxRetries times.                                 *)
THEOREM TypeCorrect == Spec => []TypeOK
  <1>1. IInv => TypeOK
    <2> SUFFICES ASSUME IInv PROVE TypeOK
      OBVIOUS
    <2>1. ASSUME NEW d \in Dc
          PROVE  log[d].gen \in 0..MaxChange /\ log[d].page \in Pages[d]
      <3>1. log[d].gen \in 0..MaxChange /\ log[d].gen \in Nat
        BY Numbers DEF IInv, Shape
      <3>2. /\ Len(past[d]) = log[d].gen + 1 /\ past[d][log[d].gen + 1] = log[d].page
            /\ \A k \in 1..Len(past[d]) : past[d][k] \in Pages[d]
        BY DEF IInv, LogInv
      <3>3. log[d].gen + 1 \in 1..Len(past[d])
        BY <3>1, <3>2
      <3> QED  BY <3>1, <3>2, <3>3
    <2>2. ASSUME NEW w \in Walker
          PROVE  /\ walk[w] \in Walk /\ read[w] \subseteq Record
                 /\ Len(walk[w].stack) <= MaxDepth + 1
                 /\ \A k \in 1..Len(walk[w].stack) : walk[w].stack[k] \in Frame
      BY Numbers DEF IInv, Shape, WalkInv, StackInv
    <2>3. conn \subseteq Connection /\ changes \in 0..MaxChange /\ faults \in 0..MaxFault
      BY DEF IInv, Shape
    <2> QED  BY <2>1, <2>2, <2>3 DEF TypeOK, Walk, Record
  <1> QED  BY <1>1, Invariance, PTL

(* nvme_discovery_log(): a walk acts on pages that a DC had at one time,    *)
(* never on the pieces of two.                                              *)
THEOREM SnapshotsAreRead == Spec => []SnapshotRead
  <1>1. IInv => SnapshotRead
    <2> SUFFICES ASSUME IInv, NEW w \in Walker, NEW k \in 1..(MaxDepth + 1),
                        k <= Len(walk[w].stack),
                        walk[w].stack[k].at \in {"survey", "walk"}
                 PROVE  LET f == walk[w].stack[k] IN f.page = past[f.c.to][f.gen + 1]
      BY DEF SnapshotRead
    <2>1. k \in 1..Len(walk[w].stack)
      BY Numbers DEF IInv
    <2> QED  BY <2>1 DEF IInv, WalkInv, StackInv, PlaceInv, FrameInv
  <1> QED  BY <1>1, Invariance, PTL

(* dc_visited: no DC is opened again after it was read.                     *)
THEOREM DcsAreReadOnce == Spec => []ReadOnce
  <1>1. IInv => ReadOnce
    BY DEF IInv, WalkInv, OnceInv, ReadOnce
  <1> QED  BY <1>1, Invariance, PTL

(* --persistent: of the DCs that a program connected and read, those stay   *)
(* connected that the mode lets persist.                                    *)
THEOREM PersistentAreChosen == Spec => []Persisted
  <1>1. IInv => Persisted
    BY DEF IInv, WalkInv, PersistInv, Persisted
  <1> QED  BY <1>1, Invariance, PTL

(* A walk that is over has followed every referral above the depth limit    *)
(* that it could follow.                                                    *)
THEOREM ReferralsAreFollowed == Spec => []Followed
  <1>1. IInv => Followed
    <2> SUFFICES ASSUME IInv, NEW w \in Walker, walk[w].st = "done", NEW r \in read[w],
                        r.depth < MaxDepth, NEW e \in ToSet(PageOf(r)), e.kind = "disc"
                 PROVE  e.to \in walk[w].visited \cup Excluded \/ faults > 0
      BY DEF Followed
    <2>1. Len(walk[w].stack) = 0 /\ 1..0 = {}
      BY EmptySeq DEF IInv, WalkInv, LifeInv
    <2>2. \A j \in 1..Len(PageOf(r)) : Met(w, PageOf(r)[j])
      BY <2>1 DEF IInv, WalkInv, FollowInv
    <2>3. \E j \in 1..Len(PageOf(r)) : e = PageOf(r)[j]
      <3>1. r.dc \in Dc /\ r.gen \in Nat /\ r.gen <= log[r.dc].gen /\ log[r.dc].gen \in Nat
        BY Numbers DEF IInv, WalkInv, ReadInv
      <3>2. Len(past[r.dc]) = log[r.dc].gen + 1
        BY <3>1 DEF IInv, LogInv
      <3>3. r.gen + 1 \in 1..Len(past[r.dc])
        BY <3>1, <3>2
      <3>4. PageOf(r) \in Seq(Entry)
        BY <3>1, <3>3, ElementOfSeq DEF IInv, Shape, PageOf
      <3> QED  BY <3>4, LenProperties DEF ToSet
    <2> QED  BY <2>2, <2>3 DEF Met
  <1> QED  BY <1>1, Invariance, PTL

(* dc_decide(), DC_BORROWED: a program disconnects its own connections      *)
(* only.                                                                    *)
THEOREM OthersAreKept == Spec => OthersKept
  <1>1. IInv /\ [Next]_vars =>
           [\A w \in Walker :
              walk'[w] # walk[w] => \A c \in conn \ conn' : c.by = w]_vars
    <2> SUFFICES ASSUME IInv, Next, NEW w \in Walker, walk'[w] # walk[w]
                 PROVE  \A c \in conn \ conn' : c.by = w
      OBVIOUS
    <2>1. CASE \E v \in Walker : Step(v)
      <3>1. PICK v \in Walker : Moved(v)
        BY <2>1, WalkStep
      <3> QED  BY <3>1 DEF Moved
    <2>2. walk' = walk \/ \E v \in Walker : Step(v)
      BY DEF Next, Change, Connected, Lost
    <2> QED  BY <2>1, <2>2
  <1> QED  BY <1>1, Invariance, PTL DEF Spec, OthersKept
=============================================================================
