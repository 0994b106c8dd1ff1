--------------------------- MODULE ConflictOrder ----------------------------
(***************************************************************************)
(* What a task graph must look like for its bodies never to race: whenever *)
(* tasks of two workgroups touch a cell one of them writes, the events one *)
(* of them has waited for show that the other is done with it.  This is a  *)
(* condition on the descriptors alone, without an execution.               *)
(***************************************************************************)
EXTENDS Visibility, FleetInvariant, SequencesExt

\* The tasks that count on an event of E.
ProducersOf(E) == { i \in TaskIds : \E e \in E, v \in Waves : <<i, v>> \in Producers[e] }

\* The events that are complete once a task's waits are over: those it waits
\* for, those a producer of them waits for, and so on.  Tasks are numbered in
\* the order the data flows, so one pass over them finds them ...
Upstream ==
  FoldLeft(LAMBDA up, i : [up EXCEPT ![i] =
             WaitsOf(Desc[i]) \cup UNION { up[j] : j \in ProducersOf(WaitsOf(Desc[i])) }],
           [i \in TaskIds |-> {}], [i \in 1 .. Len(Desc) |-> i])

\* ... and names none without a reason.
UpstreamIsJustified ==
  \A i \in TaskIds : \A e \in Upstream[i] :
    e \in WaitsOf(Desc[i]) \/ \E j \in ProducersOf(Upstream[i]) : e \in WaitsOf(Desc[j])

\* The places of a body: where it is, and how many waits inside it are over.
PlacesOf(i) ==
  LET t == Desc[i] IN
  { <<"bodywait", n>> : n \in 0 .. BodyWaits(t) - 1 } \cup {<<"body", BodyWaits(t)>>}
    \cup (IF CountsTopk(t) THEN { <<"arrive", 0>>, <<"topk", 0>> } ELSE {})

\* The events whose waits are over there, the last router's arrival included,
\* and all those they show to be complete.
Passed(i, at) ==
  LET t == Desc[i] IN
  ({t.wait_event} \ {NoEvent}) \cup { BodyWaitEvent(t, n) : n \in 1 .. at[2] }
    \cup (IF at[1] = "topk" THEN {t.local_event} ELSE {})

Known ==
  [i \in TaskIds |-> [at \in PlacesOf(i) |->
    Passed(i, at) \cup UNION { Upstream[j] : j \in ProducersOf(Passed(i, at)) }]]

\* The tasks behind task i in its workgroup's queue.
After ==
  [i \in TaskIds |->
    { j \in TaskIds : Owner(j) = Owner(i) /\ TaskPosition[j] > TaskPosition[i] }]

\* Known events show that task i is past the place: its workgroup counts on
\* one of them at the end of the body, after the router's arrival, or in a
\* task behind it.
Over ==
  [i \in TaskIds |-> [at \in PlacesOf(i) |->
    LET t == Desc[i]
    IN  { e \in Events :
            \/ e = t.signal_event
            \/ at[1] = "arrive" /\ CountsTopk(t) /\ e = t.local_event
            \/ \E p \in Producers[e] : p[1] \in After[i] }]]

\* Two bodies are never at these places together.
Exclusive(i, at, j, bt) ==
  \/ Over[i][at] \cap Known[j][bt] # {}
  \/ Over[j][bt] \cap Known[i][at] # {}
  \/ at[1] = "topk" /\ bt[1] = "topk" /\ Desc[i].local_event = Desc[j].local_event

Touched(i, at, k) ==
  { c[1] : c \in InputsAt(i, at[1], at[2], k) \cup OutputsAt(i, at[1], at[2], k)
                   \cup ChunksOwed(i, [v \in Waves |-> 0], k) }
    \cup AliasesOf(i)

\* What the first writes there is not touched by the second; of a chunked
\* expert_h only what is still to be counted.
Disjoint(i, at, j, bt, k) ==
  /\ \A o \in OutputsAt(i, at[1], at[2], k) : o[1] \notin Touched(j, bt, k)
  /\ \A v \in Waves, c \in 0 .. Chunks(Desc[i]) - 1 :
       \/ Desc[i].local_event + c \in Known[j][bt]
       \/ <<"h", Desc[i].xcd, Desc[i].worker, v, c>> \notin Touched(j, bt, k)

\* The routers of a chiplet that count for the top-k are all its workers.
ElectionsAreExact ==
  \A i \in TaskIds : CountsTopk(Desc[i]) =>
    /\ OfXcd(Desc[i].local_event, Desc[i].xcd)
    /\ Cardinality(Producers[Desc[i].local_event]) = Cardinality(Workers)

\* What task i writes no task of another workgroup touches in the same epoch,
\* unless the two are never under way together.  (The first epoch stands for
\* all: only rows of the cache and token ids have the epoch in their name.)
KeptApart ==
  [i \in TaskIds |->
    \A j \in { n \in TaskIds : Owner(n) # Owner(i) } :
      \A at \in PlacesOf(i), bt \in PlacesOf(j) :
        Exclusive(i, at, j, bt) \/ Disjoint(i, at, j, bt, 1)]

ConflictsAreOrdered ==
  /\ UpstreamIsJustified /\ ElectionsAreExact
  /\ \A i \in TaskIds : KeptApart[i]

-----------------------------------------------------------------------------
(* The same for the writebacks of the chiplets: between the stores of two  *)
(* chiplets to a cell the first has written its L2 back.                   *)

\* The mirrored events that are only published after task i has ended: its
\* chiplet writes back before it adds its share.
Flushed ==
  [i \in TaskIds |->
    { e \in GlobalEvents :
        \/ e = Desc[i].signal_event
        \/ \E p \in Producers[e] : p[1] \in After[i] }]

StoredAt(i, at, k) ==
  { o[1] : o \in OutputsAt(i, at[1], at[2], k) \cup ChunksOwed(i, [v \in Waves |-> 0], k) }

FlushedBetween(i, at, j, bt) ==
  Flushed[i] \cap Known[j][bt] # {} \/ Flushed[j] \cap Known[i][at] # {}

\* Of the stores of task i: each is written back before its epoch ends, and
\* before or after another chiplet stores to its cell.
WrittenBackInTime ==
  [i \in TaskIds |->
    \A at \in PlacesOf(i) : StoredAt(i, at, 1) # {} =>
      /\ Flushed[i] # {}
      /\ \A j \in { n \in TaskIds : Desc[n].xcd # Desc[i].xcd } : \A bt \in PlacesOf(j) :
           StoredAt(i, at, 1) \cap StoredAt(j, bt, 1) # {} => FlushedBetween(i, at, j, bt)]

WritebacksAreOrdered ==
  /\ UpstreamIsJustified /\ ElectionsAreExact
  /\ \A i \in TaskIds : WrittenBackInTime[i]

-----------------------------------------------------------------------------
(* The same for the values: what a body reads was stored last by the task  *)
(* the model calls for.                                                    *)

\* The sites a task stores from: the places of its body, and its waves' chunks
\* of expert_h, which land one by one at its last place.
SitesOf(i) ==
  PlacesOf(i) \cup { <<"chunk", v, c>> : v \in Waves, c \in 0 .. Chunks(Desc[i]) - 1 }

PlaceOf(i, at) == IF at[1] = "chunk" THEN <<"body", BodyWaits(Desc[i])>> ELSE at

StoresFrom(i, at, k) ==
  LET t == Desc[i] IN
  IF at[1] = "chunk" THEN { <<<<"h", t.xcd, t.worker, at[2], at[3]>>, <<k, t.layer, "mid">>>> }
  ELSE OutputsAt(i, at[1], at[2], k)

\* The events that show task i to be past the site.
PastEvents(i, at) ==
  Over[i][PlaceOf(i, at)]
    \cup (IF at[1] = "chunk" THEN {Desc[i].local_event + at[3]} ELSE {})

\* The top-k of a chiplet is stored by one of its routers, the last to arrive:
\* it has landed once all of them are past it.
Peers(i, at) ==
  IF at[1] = "topk"
  THEN { j \in TaskIds : CountsTopk(Desc[j]) /\ Desc[j].local_event = Desc[i].local_event }
  ELSE {i}

\* Whoever is at site bt of task j finds what task i stores at its site done
\* in this epoch, or not done.
DoneBefore(i, at, j, bt) ==
  \A n \in Peers(i, at) :
    PastEvents(n, at) \cap Known[j][PlaceOf(j, bt)] # {} \/ j \in After[n]

NotDoneAt(i, at, j, bt) ==
  \/ i \in After[j]
  \/ i = j /\ at = bt
  \/ Over[j][bt] \cap Known[i][PlaceOf(i, at)] # {}

\* All stores of the first epoch, by cell.
AllStores ==
  UNION { UNION { { [task |-> i, at |-> at, cell |-> o[1], value |-> o[2]] :
                      o \in StoresFrom(i, at, 1) } : at \in SitesOf(i) } : i \in TaskIds }

StoresTo == [c \in { s.cell : s \in AllStores } |-> { s \in AllStores : s.cell = c }]

\* A value a task reads is stored before, by a store that any other one to the
\* cell either precedes or has to wait for.
FedInTime ==
  [j \in TaskIds |->
    \A bt \in PlacesOf(j) : \A r \in InputsAt(j, bt[1], bt[2], 1) :
      \/ r[1] = <<"token_in", 1>>
      \/ /\ r[1] \in DOMAIN StoresTo
         /\ \E s \in StoresTo[r[1]] :
              /\ s.value = r[2]
              /\ DoneBefore(s.task, s.at, j, bt)
              /\ \A u \in StoresTo[r[1]] : u.value # r[2] =>
                   DoneBefore(u.task, u.at, s.task, s.at) \/ NotDoneAt(u.task, u.at, j, bt)]

\* Tasks that store count on some event; a task stores to a cell once; only the
\* routers of a chiplet and a layer count for its top-k; and someone stores the
\* rows of the cache and the tokens that later epochs read.
StoresLandOnce ==
  /\ \A i \in TaskIds :
       /\ \A at, bt \in SitesOf(i) : at # bt =>
            { o[1] : o \in StoresFrom(i, at, 1) } \cap { o[1] : o \in StoresFrom(i, bt, 1) } = {}
       /\ (\E at \in SitesOf(i) : StoresFrom(i, at, 1) # {}) =>
            \E e \in Events, v \in Waves : <<i, v>> \in Producers[e]
       /\ Chunks(Desc[i]) > 0 => BodyWaits(Desc[i]) = 0
       /\ CountsTopk(Desc[i]) =>
            /\ \A p \in Producers[Desc[i].local_event] : p[1] \in Peers(i, <<"topk", 0>>)
            /\ \A j \in Peers(i, <<"topk", 0>>) :
                 Desc[j].kind = "NORM_ROUTER" /\ Desc[j].layer = Desc[i].layer
  /\ \A j \in AttentionTasks : \E i \in AttentionTasks :
       Desc[i].layer = Desc[j].layer /\ Desc[i].head = 0 /\ Desc[i].kv_chunk = 0
  /\ \E i \in TaskIds : Desc[i].kind = "ARGMAX"

InputsAreFed ==
  /\ UpstreamIsJustified /\ ElectionsAreExact /\ StoresLandOnce
  /\ \A i \in TaskIds : FedInTime[i]

-----------------------------------------------------------------------------
(* The same for the caches: no chiplet keeps an older copy of what one of  *)
(* its bodies reads.                                                       *)

\* Where the body of task i begins.
FirstPlace(i) == IF BodyWaits(Desc[i]) > 0 THEN <<"bodywait", 0>> ELSE <<"body", 0>>

\* The tasks whose wait drops the copies in their chiplet's L2, and those of
\* them on the chiplet of task j that have started when it is at the place.
Acquires(g) ==
  /\ Desc[g].wait_event # NoEvent /\ Desc[g].wait_scope = "GLOBAL"
  /\ \E e \in Events, v \in Waves : <<g, v>> \in Producers[e]

Acquirers(j, bt) ==
  { g \in TaskIds :
      /\ Acquires(g) /\ Desc[g].xcd = Desc[j].xcd
      /\ \/ g = j
         \/ j \in After[g]
         \/ \E e \in Known[j][bt], v \in Waves : <<g, v>> \in Producers[e] }

\* Every task but the embed drops copies as it starts or follows one that did;
\* and what another chiplet stores to a cell it reads one of those knew to be
\* written back, or it is not stored yet.
SeenInTime ==
  [j \in TaskIds |->
    Desc[j].kind # "EMBED" =>
      /\ Desc[j].wait_scope # "NONE"
      /\ \A bt \in PlacesOf(j) :
           /\ Acquirers(j, bt) # {}
           /\ \A r \in InputsAt(j, bt[1], bt[2], 1) : ~ InLds(r[1]) =>
                /\ r[1] \in Cells
                /\ r[1] \in DOMAIN StoresTo => \A s \in StoresTo[r[1]] :
                     \/ Desc[s.task].xcd = Desc[j].xcd
                     \/ NotDoneAt(s.task, s.at, j, bt)
                     \/ \E g \in Acquirers(j, bt) :
                          Flushed[s.task] \cap Known[g][FirstPlace(g)] # {}]

\* The token goes from the argmax to the embed by way of one chiplet's L2.
TokensStay ==
  \A i, j \in TaskIds :
    Desc[i].kind = "ARGMAX" /\ Desc[j].kind = "EMBED" => Desc[i].xcd = Desc[j].xcd

PayloadsAreOrdered ==
  /\ InputsAreFed /\ WritebacksAreOrdered /\ TokensStay
  /\ \A i \in TaskIds : SeenInTime[i]

-----------------------------------------------------------------------------
\* The events of the graph alone, whatever the timing, keep every body a
\* workgroup runs apart from the bodies of others it conflicts with.  (Every
\* task is run in every epoch, so a full run checks ConflictsAreOrdered.)
RunsAreOrdered ==
  /\ UpstreamIsJustified /\ ElectionsAreExact
  /\ \A b \in Blocks : pc[b] \in Running => KeptApart[Queue[b][slot[b]]]

\* ... and have the chiplet write its stores back before another one stores
\* to the same cell (a full run checks WritebacksAreOrdered).
StoresAreWrittenBack ==
  /\ UpstreamIsJustified /\ ElectionsAreExact
  /\ \A b \in Blocks : pc[b] \in Running => WrittenBackInTime[Queue[b][slot[b]]]

\* ... and have every body that runs read what was stored for it (a full run
\* checks InputsAreFed).
ReadersAreFed ==
  /\ UpstreamIsJustified /\ ElectionsAreExact /\ StoresLandOnce
  /\ \A b \in Blocks : pc[b] \in Running => FedInTime[Queue[b][slot[b]]]

\* ... and have the fences on the chain of events drop every older copy of what
\* a running body reads (with StoresAreWrittenBack and ReadersAreFed, a full run
\* checks PayloadsAreOrdered).
CopiesAreDropped ==
  /\ TokensStay
  /\ \A b \in Blocks : pc[b] \in Running => SeenInTime[Queue[b][slot[b]]]

\* What the election of a chiplet's top-k gives the state: who selects the
\* experts has seen all the chiplet's routers of its epoch, and does so alone.
TopkHeld ==
  \A b \in Blocks : pc[b] = "topk" =>
    /\ AllArrived(Current(b).local_event, Epoch(b))
    /\ \A c \in Blocks :
         pc[c] = "topk" /\ Current(c).local_event = Current(b).local_event => b = c

\* Where an unwritten change of a chiplet comes from: a store of one of its
\* tasks that has not been flushed since.
Origin(x, c) ==
  \E i \in TaskIds, k \in 1 .. Tokens : \E at \in PlacesOf(i) :
    /\ Desc[i].xcd = x /\ c \in StoredAt(i, at, k)
    /\ Settled(k - 1)
    /\ \A e \in Known[i][at] : Delivered(e, k)
    /\ \A e \in Flushed[i] : ~ ShareOut(x, e, k)

DirtyHeld == \A x \in Xcds : \A c \in DirtyIn(l2[x]) : Origin(x, c)

\* Of the task it is at, workgroup b is past the site; the workgroup of task
\* i is past it in epoch k; all that may store there are.
PastHere(b, at) ==
  \/ pc[b] = "publish"
  \/ at[1] = "bodywait" /\ (pc[b] = "body" \/ (pc[b] = "bodywait" /\ inner[b] > at[2]))
  \/ at[1] = "arrive" /\ pc[b] \in {"topk", "body"}
  \/ at[1] = "topk" /\ pc[b] = "body"
  \/ at[1] = "chunk" /\ wave[b][at[2]] > at[3]

Past(i, at, k) ==
  Behind(i, k) \/ (AtTask(i) /\ k = Epoch(Owner(i)) /\ PastHere(Owner(i), at))

Done(i, at, k) == \A n \in Peers(i, at) : Past(n, at, k)

\* The stores of epoch l at a site are known to be done by whoever stores at
\* the other in epoch k.
Precedes(j, bt, l, i, at, k) == l < k \/ (l = k /\ DoneBefore(j, bt, i, at))

Holds(c, v) == c \in DOMAIN mem /\ mem[c] = v

\* A store that all the others done to its cell precede is what the cell holds.
StoreHeld(i, at, k, o) ==
  (/\ Done(i, at, k)
   /\ \A j \in TaskIds, l \in 1 .. Tokens : \A bt \in SitesOf(j) : \A u \in StoresFrom(j, bt, l) :
        u[1] = o[1] /\ u[2] # o[2] /\ Done(j, bt, l) => Precedes(j, bt, l, i, at, k))
  => Holds(o[1], o[2])

StoresHeld ==
  /\ Holds(<<"token_in", 1>>, <<1, -1, "in">>)
  /\ \A i \in TaskIds, k \in 1 .. Tokens : \A at \in SitesOf(i) : \A o \in StoresFrom(i, at, k) :
       StoreHeld(i, at, k, o)

\* The wait in front of task g is over in epoch m: its body runs or has run.
HasStarted(g, m) ==
  Behind(g, m) \/ (AtTask(g) /\ m = Epoch(Owner(g)) /\ pc[Owner(g)] \in Started)

\* Chiplet x holds a change of the cell by one of its own done stores that has
\* not been flushed.
DoneOrigin(x, c) ==
  \E n \in TaskIds, l \in 1 .. Tokens : \E at \in SitesOf(n) :
    /\ Desc[n].xcd = x /\ \E o \in StoresFrom(n, at, l) : o[1] = c
    /\ Done(n, at, l)
    /\ \A e \in Flushed[n] : ~ ShareOut(x, e, l)

DirtyDone == \A x \in Xcds : \A c \in DirtyIn(l2[x]) : DoneOrigin(x, c)

\* Another chiplet has stored to the cell since a task of chiplet x last
\* dropped its copies: no task that has, knew that store to be written back.
Stale(x, c) ==
  \E n \in TaskIds, l \in 1 .. Tokens : \E at \in SitesOf(n) :
    /\ Desc[n].xcd # x /\ \E o \in StoresFrom(n, at, l) : o[1] = c
    /\ Done(n, at, l)
    /\ \A g \in TaskIds, m \in 1 .. Tokens :
         Acquires(g) /\ Desc[g].xcd = x /\ HasStarted(g, m) =>
           m < l \/ (m = l /\ Flushed[n] \cap Known[g][FirstPlace(g)] = {})

\* The values in the caches against mem: a dirty line is current, the memory
\* below is where no line is dirty, and a line that is not is stale.
DirtyIsCurrent ==
  \A x \in Xcds : \A c \in DirtyIn(l2[x]) : ~ InLds(c) /\ Holds(c, l2[x][c].value)

RamIsCurrent ==
  \A c \in Cells : ~ InLds(c) => (\E x \in Xcds : c \in DirtyIn(l2[x])) \/ Holds(c, ram[c])

OthersAreStale ==
  \A x, y \in Xcds : x # y => \A c \in DirtyIn(l2[y]) : Stale(x, c)

OldIsStale ==
  \A x \in Xcds : \A c \in DOMAIN l2[x] \cap Cells :
    ~ InLds(c) => Holds(c, l2[x][c].value) \/ Stale(x, c)

\* What a body reads its L2 shows if it has it, and its L1 has; a token its
\* L1 keeps is never another one.
ReadersSee ==
  \A b \in Blocks : \A q \in Inputs(b) :
    ~ InLds(q[1]) /\ q[1] \in DOMAIN l2[b[1]] => l2[b[1]][q[1]].value = q[2]

CopiesHeld ==
  \A b \in Blocks :
    /\ \A q \in Inputs(b) : ~ InLds(q[1]) => q[1] \in DOMAIN l1[b] /\ l1[b][q[1]] = q[2]
    /\ \A k \in 1 .. Tokens : <<"token_in", k>> \in DOMAIN l1[b] =>
         l1[b][<<"token_in", k>>] = <<k, -1, "in">>

=============================================================================
