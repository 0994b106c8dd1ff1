---------------------------- MODULE OrderProofs -----------------------------
(***************************************************************************)
(* FleetRuntime implements DataflowOrder: every step of the kernel, of its *)
(* schedulers and of the host is one arrival in order or leaves the        *)
(* arrivals alone.                                                         *)
(***************************************************************************)
EXTENDS FleetRuntimeProofs, Visibility, ConflictOrder

\* The host never launches more than it has tokens left.
TokensLeft == Decoded <= Tokens

LEMMA TokensLeftStep ==
  ASSUME IInv, TokensLeft, [Next]_vars
  PROVE  TokensLeft'
<1>1. epoch0 \in Nat /\ n_tokens \in Nat /\ Tokens \in Nat /\ PerLaunch \in Nat
  BY ConstantsAssumption DEF IInv, TypeOK
<1>2. CASE Relaunch
  BY <1>1, <1>2 DEF Relaunch, NextLaunch, TokensLeft, Decoded, AtMost
<1>3. CASE UNCHANGED host
  BY <1>3 DEF host, TokensLeft, Decoded
<1>4. ASSUME NEW b \in Blocks, Worker(b) PROVE UNCHANGED host
  BY <1>4 DEF Worker, PassBoundary, StartTask, PassBodyWait, Checkpoint, GiveUp, SignalChunk,
         ArriveRouter, PublishTopk, Signal, Publish
<1>5. ASSUME NEW x \in Xcds, Scheduler(x) PROVE UNCHANGED host
  BY <1>5 DEF Scheduler, Relay, PollGlobal, StoreFlag, StopScheduler, ExitScheduler
<1>6. UNCHANGED vars => UNCHANGED host
  BY DEF vars, host
<1> QED
  BY <1>2, <1>3, <1>4, <1>5, <1>6 DEF Next, Finished

LEMMA PositionOf ==
  ASSUME NEW i \in TaskIds, NEW s \in DOMAIN Queue[Owner(i)], Queue[Owner(i)][s] = i
  PROVE  TaskPosition[i] = s /\ TaskOwner[i] = Owner(i) /\ TaskWaits[i] = WaitsOf(Desc[i])
<1>1. Owner(i) \in Blocks
  BY TaskFacts
<1>2. \A r \in DOMAIN Queue[Owner(i)] : Queue[Owner(i)][r] = i => r = s
  BY <1>1, QueueFacts
<1> QED
  BY <1>2 DEF TaskPosition, TaskOwner, TaskWaits

\* What an arriving task has waited for, in its own epoch and in those before.
LEMMA ArrivingIsReleased ==
  ASSUME IInv, NEW b \in Blocks, NEW e, NEW V, Adds(b, e, V)
  PROVE  Order!Released(Here(b), Epoch(b))
<1> USE DEF IInv
<1> DEFINE t == Current(b)
<1>1. pc[b] \in {"arrive", "body"} /\ pc[b] \in Started
  BY DEF Adds, Started, Running
<1>2. Here(b) \in TaskIds /\ t = Desc[Here(b)] /\ t \in TaskDescriptor /\ CountsOnce(t)
  BY <1>1, Standing, TaskFacts
<1>3. PlaceOK(b) /\ inner[b] = BodyWaits(t)
  BY <1>1, <1>2 DEF Places, PlaceOK, CountsOnce
<1>4. \A f \in WaitsOf(t) : Order!Complete(f, Epoch(b))
  BY <1>1, <1>3 DEF WaitsOver, WaitsOf, Delivered, AllArrived, Order!Complete
<1>5. \A f \in Awaited : \A j \in 1 .. Epoch(b) - 1 : Order!Complete(f, j)
  BY <1>1 DEF Gates, Settled, Delivered, AllArrived, Order!Complete
<1>6. TaskWaits[Here(b)] = WaitsOf(t)
  BY <1>2 DEF TaskWaits
<1> QED
  BY <1>4, <1>5, <1>6 DEF Order!Released

\* A workgroup only arrives for the task it is at: all it has done is behind.
LEMMA ArrivingIsNotPast ==
  ASSUME IInv, NEW b \in Blocks, pc[b] # "exit"
  PROVE  Order!NotPast(Here(b), Epoch(b))
<1> USE DEF IInv
<1>1. /\ Here(b) \in TaskIds /\ Owner(Here(b)) = b /\ slot[b] \in DOMAIN Queue[b]
      /\ Queue[b][slot[b]] = Here(b)
  BY Standing DEF Here
<1>2. TaskPosition[Here(b)] = slot[b] /\ TaskOwner[Here(b)] = b
  BY <1>1, PositionOf
<1>3. Epoch(b) \in Nat /\ slot[b] \in Nat
  BY EpochType DEF TypeOK
<1>4. ASSUME NEW e \in Events, NEW a \in arrived[e], TaskOwner[a[1][1]] = b
      PROVE  a[2] < Epoch(b) \/ (a[2] = Epoch(b) /\ TaskPosition[a[1][1]] <= slot[b])
  <2> DEFINE i == a[1][1]
  <2>1. i \in TaskIds /\ a[2] \in Nat
    BY ArrivalType
  <2>2. Owner(i) = b
    BY <1>4, <2>1 DEF TaskOwner
  <2>3. CASE Behind(i, a[2])
    <3>1. CASE a[2] < Epoch(b)
      BY <3>1
    <3>2. CASE /\ a[2] = Epoch(b)
               /\ \E s \in DOMAIN Queue[b] : Queue[b][s] = i /\ s < slot[b]
      <4>1. PICK s \in DOMAIN Queue[b] : Queue[b][s] = i /\ s < slot[b]
        BY <3>2
      <4>2. TaskPosition[i] = s /\ s \in Nat
        BY <2>1, <2>2, <4>1, PositionOf, QueueFacts
      <4> QED
        BY <1>3, <3>2, <4>1, <4>2
    <3> QED
      BY <2>2, <2>3, <3>1, <3>2 DEF Behind
  <2>4. CASE AtTask(i) /\ a[2] = Epoch(b)
    <3>1. i = Here(b)
      BY <2>2, <2>4 DEF AtTask
    <3> QED
      BY <1>2, <1>3, <2>4, <3>1
  <2> QED
    BY <2>2, <2>3, <2>4 DEF Fresh
<1> QED
  BY <1>2, <1>4 DEF Order!NotPast

LEMMA WorkerArrives ==
  ASSUME IInv, TokensLeft, NEW b \in Blocks, Worker(b)
  PROVE  [Order!Next]_arrived
<1> USE DEF IInv
<1>1. ASSUME NEW e, NEW V, Adds(b, e, V) PROVE [Order!Next]_arrived
  <2> DEFINE i == Here(b)
             k == Epoch(b)
  <2>1. /\ e \in Events /\ V \in SUBSET Waves /\ pc[b] # "exit"
        /\ \A v \in V : <<i, v>> \in Producers[e]
    BY <1>1 DEF Adds
  <2>2. i \in TaskIds
    BY <2>1, Standing
  <2>3. k \in 1 .. Tokens
    <3>1. k \in Nat \ {0} /\ tok[b] < n_tokens /\ tok[b] \in Nat
      BY <2>1, EpochType DEF Places, PlaceOK
    <3>2. epoch0 \in Nat /\ n_tokens \in Nat /\ Tokens \in Nat
      BY ConstantsAssumption DEF TypeOK
    <3> QED
      BY <3>1, <3>2 DEF TokensLeft, Decoded, Epoch
  <2>4. /\ NewArrivals(b, V) = { <<<<i, v>>, k>> : v \in V }
        /\ NewArrivals(b, V) \cap arrived[e] = {}
        /\ arrived'[e] = arrived[e] \cup NewArrivals(b, V)
    BY <1>1, Arrivals DEF NewArrivals
  <2>5. arrived' = [arrived EXCEPT ![e] = @ \cup { <<<<i, v>>, k>> : v \in V }]
    BY <1>1 DEF Adds, Count, Here
  <2>6. \A v \in V : <<<<i, v>>, k>> \notin arrived[e]
    BY <2>4
  <2>7. Order!Released(i, k) /\ Order!NotPast(i, k)
    BY <1>1, <2>1, ArrivingIsReleased, ArrivingIsNotPast
  <2>8. Order!Arrive(e, i, k, V)
    BY <2>5, <2>6, <2>7 DEF Order!Arrive
  <2>9. V \in SUBSET Order!Arriving(e, i)
    BY <2>1 DEF Order!Arriving
  <2> HIDE DEF i, k
  <2>10. CASE V = {}
    <3>1. arrived' = arrived
      BY <2>1, <2>5, <2>10 DEF TypeOK
    <3> QED
      BY <3>1
  <2>11. CASE V # {}
    BY <2>1, <2>2, <2>3, <2>8, <2>9, <2>11 DEF Order!Next
  <2> QED
    BY <2>10, <2>11
<1> QED
  BY <1>1, AddsOrNot

\* The runtime implements the order of arrivals it is built for: per token,
\* each producer arrives once, in its queue's order, after all its task waits
\* for, and after all the tokens before.
THEOREM RuntimeKeepsOrder == Spec => CountsInOrder
<1>1. Init => Order!Init /\ TokensLeft
  BY ConstantsAssumption DEF Init, Order!Init, TokensLeft, Decoded, AtMost
<1>2. IInv /\ TokensLeft /\ [Next]_vars => TokensLeft'
  BY TokensLeftStep
<1>3. IInv /\ TokensLeft /\ [Next]_vars => [Order!Next]_arrived
  <2> SUFFICES ASSUME IInv, TokensLeft, [Next]_vars PROVE [Order!Next]_arrived
    OBVIOUS
  <2>1. ASSUME NEW x \in Xcds, Scheduler(x) PROVE arrived' = arrived
    BY <2>1 DEF Scheduler, Relay, PollGlobal, StoreFlag, StopScheduler, ExitScheduler
  <2>2. Relaunch \/ UNCHANGED vars => arrived' = arrived
    BY DEF Relaunch, NextLaunch, vars
  <2> QED
    BY <2>1, <2>2, WorkerArrives DEF Next, Finished
<1> QED
  BY <1>1, <1>2, <1>3, CountersMeanArrivals, PTL DEF Spec, CountsInOrder, Order!Spec
-----------------------------------------------------------------------------
(* Bodies that touch the same cell are never under way together, if the    *)
(* graph orders them: the descriptors alone tell.                          *)

\* The last of a chiplet's routers completes the arrivals of its epoch.
LEMMA LastRouter ==
  ASSUME IInv, ElectionsAreExact, NEW b \in Blocks, Worker(b), ArriveRouter(b), pc'[b] = "topk",
         NEW e, e = Current(b).local_event
  PROVE  /\ e \in Events /\ Adds(b, e, {0}) /\ <<Here(b), 0>> \in Producers[e]
         /\ \A p \in Producers[e] : <<p, Epoch(b)>> \in arrived'[e]
<1> USE DEF IInv
<1> DEFINE t  == Current(b)
           k  == Epoch(b)
           PO == Producers[e]
           a0 == <<<<Here(b), 0>>, k>>
           B  == arrived[e] \cup {a0}
<1>1. /\ Here(b) \in TaskIds /\ t = Desc[Here(b)] /\ t.xcd = b[1] /\ b[1] \in Xcds
      /\ k \in Nat \ {0} /\ pc[b] = "arrive" /\ pc[b] # "exit" /\ CountsTopk(t)
  BY Standing, BlockXcd, EpochType DEF ArriveRouter, Places, PlaceOK
<1>2. LastArrival(b, e, Cardinality(Workers))
  BY <1>1 DEF ArriveRouter, Goto, TypeOK
<1>3. Adds(b, e, {0}) /\ e \in Events /\ <<Here(b), 0>> \in PO
  BY RouterAdds DEF Adds
<1>4. a0 \notin arrived[e] /\ arrived'[e] = B
  <2>1. NewArrivals(b, {0}) = {a0}
    BY DEF NewArrivals
  <2> QED
    BY <1>3, <2>1, Arrivals
<1>5. OfXcd(e, b[1]) /\ Cardinality(PO) = Cardinality(Workers)
  BY <1>1 DEF ElectionsAreExact
<1>6. ASSUME NEW a \in arrived[e] PROVE a \in PO \X (1 .. k)
  <2>1. a = <<a[1], a[2]>> /\ a[1] \in PO /\ a[2] \in Nat \ {0}
    BY <1>3, ArrivalType
  <2>2. a[2] <= k
    <3> SUFFICES ASSUME ~ (a[2] <= k) PROVE FALSE
      OBVIOUS
    <3>1. Settled(a[2] - 1)
      BY <1>3 DEF Gates
    <3>2. Settled(k)
      BY <1>1, <2>1, <3>1, SettledLess
    <3> QED
      BY <1>1, <3>2, NobodyBehind
  <2> QED
    BY <1>1, <2>1, <2>2
<1>7. B \in SUBSET (PO \X (1 .. k))
  <2>1. a0 \in PO \X (1 .. k)
    BY <1>1, <1>3
  <2> QED
    BY <1>6, <2>1
<1>8. Cardinality(B) = k * Cardinality(PO)
  <2>1. ArrivedOn(b[1], e) = arrived[e]
    BY <1>3, <1>5, ArrivalType DEF ArrivedOn, OfXcd
  <2>2. xcd_counters[b[1]][e] = Cardinality(arrived[e])
    BY <1>1, <1>3, <2>1 DEF Counts
  <2>3. IsFiniteSet(arrived[e])
    BY <1>3 DEF Fresh
  <2>4. Cardinality(B) = Cardinality(arrived[e]) + 1
    BY <1>4, <2>3, FS_AddElement
  <2> QED
    BY <1>2, <1>5, <2>2, <2>4 DEF LastArrival
<1>9. B = PO \X (1 .. k)
  <2>1. IsFiniteSet(PO) /\ k \in Nat /\ k * Cardinality(PO) \in Nat
    BY <1>1, <1>3, ProducerFacts, FS_CardinalityType
  <2>2. Cardinality(B) >= k * Cardinality(PO)
    BY <1>8, <2>1
  <2> HIDE DEF B, PO, k
  <2> QED
    BY <1>7, <2>1, <2>2, Full
<1>10. ASSUME NEW p \in PO PROVE <<p, k>> \in arrived'[e]
  <2>1. k \in 1 .. k
    BY <1>1
  <2> QED
    BY <1>4, <1>9, <2>1
<1> QED
  BY <1>3, <1>10
\* Only its arrival, as the last, takes a workgroup to the top-k.
LEMMA ToTopk ==
  ASSUME TypeOK, NEW b \in Blocks, Worker(b), pc'[b] = "topk"
  PROVE  /\ ArriveRouter(b) /\ pc[b] = "arrive"
         /\ Epoch(b)' = Epoch(b) /\ Current(b)' = Current(b)
<1> USE DEF host
<1>0. pc \in [Blocks -> PCs] /\ pc[b] # "exit" /\ epoch0' = epoch0
  BY OthersStay DEF TypeOK
<1>1. ~ Advance(b)
  BY <1>0, AdvanceTo
<1>2. ASSUME NEW p, Goto(b, p) PROVE pc'[b] = p
  BY <1>0, <1>2 DEF Goto
<1>3. BodyStart(Current(b)) # "topk"
  BY DEF BodyStart
<1>4. ~ PassBoundary(b) /\ ~ StartTask(b) /\ ~ PassBodyWait(b) /\ ~ PublishTopk(b)
  BY <1>2, <1>3 DEF PassBoundary, StartTask, PassBodyWait, PublishTopk
<1>5. ~ Checkpoint(b) /\ ~ GiveUp(b) /\ ~ Publish(b)
  BY <1>0, <1>1, <1>2 DEF Checkpoint, GiveUp, Publish, Waiting
<1>6. ~ Signal(b) /\ \A v \in Waves : ~ SignalChunk(b, v)
  BY <1>0, <1>1, <1>2 DEF Signal, SignalChunk
<1>7. ArriveRouter(b)
  BY <1>4, <1>5, <1>6 DEF Worker
<1> QED
  BY <1>0, <1>7 DEF ArriveRouter, Epoch, Current

LEMMA RouterEvent ==
  ASSUME TypeOK, Places, NEW b \in Blocks, pc[b] = "topk"
  PROVE  Current(b).local_event \in Events /\ pc[b] \in Running
<1>1. Here(b) \in TaskIds /\ Current(b) = Desc[Here(b)] /\ CountsTopk(Current(b))
  BY Standing DEF Places, PlaceOK
<1>2. Current(b).local_event \in BodyEvents(Current(b))
  BY <1>1 DEF CountsTopk, BodyEvents
<1> QED
  BY <1>1, <1>2, DescriptorAssumption DEF Running

LEMMA TopkHeldStep ==
  ASSUME IInv, TokensDoNotOverlap, TopkHeld, ElectionsAreExact, [Next]_vars
  PROVE  TopkHeld'
<1> USE DEF IInv
<1>1. ASSUME NEW b \in Blocks, Worker(b) PROVE TopkHeld'
  <2>1. ASSUME NEW c \in Blocks, c # b, pc'[c] = "topk"
        PROVE  /\ pc[c] = "topk" /\ Current(c)' = Current(c) /\ Epoch(c)' = Epoch(c)
               /\ Current(c).local_event \in Events
               /\ \A p \in Producers[Current(c).local_event] :
                    <<p, Epoch(c)>> \in arrived'[Current(c).local_event]
    <3>1. pc[c] = "topk" /\ Current(c)' = Current(c) /\ Epoch(c)' = Epoch(c)
      BY <1>1, <2>1, OthersStay
    <3>2. Current(c).local_event \in Events
      BY <2>1, <3>1, RouterEvent
    <3>3. arrived[Current(c).local_event] \subseteq arrived'[Current(c).local_event]
      BY <1>1, <3>2, Grow
    <3> QED
      BY <2>1, <3>1, <3>2, <3>3 DEF TopkHeld, AllArrived
  <2>2. ASSUME pc'[b] = "topk"
        PROVE  /\ Current(b)' = Current(b) /\ Epoch(b)' = Epoch(b) /\ pc[b] \in Running
               /\ Adds(b, Current(b).local_event, {0})
               /\ \A p \in Producers[Current(b).local_event] :
                    <<p, Epoch(b)>> \in arrived'[Current(b).local_event]
    BY <1>1, <2>2, ToTopk, LastRouter DEF Running
  <2>3. ASSUME NEW c \in Blocks, c # b, pc'[c] = "topk", pc'[b] = "topk",
               Current(c).local_event = Current(b).local_event
        PROVE  FALSE
    <3> DEFINE e == Current(b).local_event
    <3>1. pc[c] = "topk" /\ pc[c] \in Running /\ pc[b] \in Running
      BY <2>1, <2>2, <2>3, RouterEvent
    <3>2. Epoch(c) = Epoch(b)
      <4>1. Epoch(c) >= Epoch(b) /\ Epoch(b) >= Epoch(c)
        BY <3>1 DEF TokensDoNotOverlap, Running
      <4> QED
        BY <4>1, EpochType
    <3>3. AllArrived(e, Epoch(b))
      BY <2>3, <3>1, <3>2 DEF TopkHeld
    <3>4. /\ <<<<Here(b), 0>>, Epoch(b)>> \notin arrived[e]
          /\ <<Here(b), 0>> \in Producers[e]
      <4>1. Adds(b, e, {0}) /\ NewArrivals(b, {0}) = {<<<<Here(b), 0>>, Epoch(b)>>}
        BY <2>2, <2>3 DEF NewArrivals
      <4> QED
        BY <4>1, Arrivals DEF Adds
    <3> QED
      BY <3>3, <3>4 DEF AllArrived
  <2>4. ASSUME NEW c \in Blocks, NEW d \in Blocks, pc'[c] = "topk", pc'[d] = "topk",
               Current(d)'.local_event = Current(c)'.local_event
        PROVE  c = d
    <3>1. CASE c # b /\ d # b
      <4>1. /\ pc[c] = "topk" /\ pc[d] = "topk"
            /\ Current(d).local_event = Current(c).local_event
        BY <2>1, <2>4, <3>1
      <4> QED
        BY <4>1 DEF TopkHeld
    <3>2. CASE c = b \/ d = b
      BY <2>1, <2>2, <2>3, <2>4, <3>2
    <3> QED
      BY <3>1, <3>2
  <2>5. ASSUME NEW c \in Blocks, pc'[c] = "topk"
        PROVE  AllArrived(Current(c).local_event, Epoch(c))'
    <3>1. /\ Current(c)' = Current(c) /\ Epoch(c)' = Epoch(c)
          /\ \A p \in Producers[Current(c).local_event] :
               <<p, Epoch(c)>> \in arrived'[Current(c).local_event]
      BY <2>1, <2>2, <2>5
    <3> QED
      BY <3>1 DEF AllArrived
  <2> QED
    BY <2>4, <2>5 DEF TopkHeld
<1>2. CASE UNCHANGED <<epoch0, pc, tok, slot, arrived>>
  <2>1. \A c : Current(c)' = Current(c) /\ Epoch(c)' = Epoch(c)
    BY <1>2 DEF Current, Epoch
  <2> QED
    BY <1>2, <2>1 DEF TopkHeld, AllArrived
<1>3. CASE Relaunch
  <2>1. \A b \in Blocks : pc'[b] # "topk"
    BY <1>3, RelaunchPlaces
  <2> QED
    BY <2>1 DEF TopkHeld
<1>4. ASSUME NEW x \in Xcds, Scheduler(x) PROVE UNCHANGED <<epoch0, pc, tok, slot, arrived>>
  BY <1>4 DEF Scheduler, Relay, PollGlobal, StoreFlag, StopScheduler, ExitScheduler, host, block
<1>5. UNCHANGED vars => UNCHANGED <<epoch0, pc, tok, slot, arrived>>
  BY DEF vars
<1> QED
  BY <1>1, <1>2, <1>3, <1>4, <1>5 DEF Next, Finished

\* A task that has counted in an epoch shows all that is upstream of it to be
\* delivered: of what is not, take the part that the last task waits for.
LEMMA UpstreamArrived ==
  ASSUME IInv, UpstreamIsJustified, NEW f \in Events, NEW a \in arrived[f],
         NEW e \in Upstream[a[1][1]]
  PROVE  e \in Events /\ Delivered(e, a[2])
<1> USE DEF IInv
<1> DEFINE i == a[1][1]
           k == a[2]
           Missing(g) == ~ Delivered(g, k)
           S == { j \in ProducersOf(Upstream[i]) :
                    \E g \in Upstream[i] : g \in WaitsOf(Desc[j]) /\ Missing(g) }
<1>1. i \in TaskIds /\ a = <<a[1], k>>
  BY ArrivalType
<1>2. ASSUME NEW j \in TaskIds, NEW g \in Events, NEW v \in Waves,
             <<j, v>> \in Producers[g], ~ Missing(g)
      PROVE  \A h \in WaitsOf(Desc[j]) : ~ Missing(h)
  <2>1. <<<<j, v>>, k>> \in arrived[g]
    BY <1>2 DEF Delivered, AllArrived
  <2> QED
    BY <2>1 DEF WaitsOver
<1>3. \A h \in WaitsOf(Desc[i]) : ~ Missing(h)
  BY <1>1 DEF WaitsOver
<1>4. \A j \in ProducersOf(Upstream[i]) : j \in TaskIds
  BY DEF ProducersOf
<1>5. ASSUME NEW g \in Upstream[i]
      PROVE  /\ g \in Events
             /\ Missing(g) => \E j \in S : g \in WaitsOf(Desc[j])
  <2>1. g \in WaitsOf(Desc[i]) \/ \E j \in ProducersOf(Upstream[i]) : g \in WaitsOf(Desc[j])
    BY <1>1, <1>5 DEF UpstreamIsJustified
  <2>2. g \in Events
    BY <1>1, <1>4, <2>1, AwaitedFacts
  <2> QED
    BY <1>3, <1>5, <2>1, <2>2
<1>6. S = {}
  <2> SUFFICES ASSUME S # {} PROVE FALSE
    OBVIOUS
  <2>1. S \subseteq 0 .. Len(Desc) /\ Len(Desc) \in Nat
    BY <1>4, TasksFinite
  <2> HIDE DEF S
  <2>2. PICK j \in S : \A n \in S : n <= j
    BY <2>1, Greatest
  <2> USE DEF S
  <2>3. PICK g \in Upstream[i] : g \in WaitsOf(Desc[j]) /\ Missing(g)
    BY <2>2
  <2>4. PICK h \in Upstream[i], v \in Waves : <<j, v>> \in Producers[h]
    BY <2>2 DEF ProducersOf
  <2>5. j \in TaskIds /\ h \in Events
    BY <1>4, <1>5, <2>2, <2>4
  <2>6. Missing(h)
    BY <1>2, <2>3, <2>4, <2>5
  <2>7. PICK n \in S : h \in WaitsOf(Desc[n])
    BY <1>5, <2>4, <2>6
  <2>8. n \in TaskIds
    BY <1>4, <2>7
  <2>9. j < n
    BY <2>4, <2>7, <2>8, GraphAssumption
  <2>10. n <= j /\ j \in Nat /\ n \in Nat
    BY <2>2, <2>5, <2>7, <2>8, TasksFinite
  <2> QED
    BY <2>9, <2>10
<1> QED
  BY <1>5, <1>6

\* A running workgroup is at one of the places of its task.
LEMMA AtPlace ==
  ASSUME TypeOK, Places, NEW b \in Blocks, pc[b] \in Running
  PROVE  <<pc[b], inner[b]>> \in PlacesOf(Here(b))
<1> DEFINE t == Desc[Here(b)]
<1>1. /\ t = Current(b) /\ BodyWaits(t) \in Nat /\ inner[b] \in Nat
  BY Standing, BodyWaitsType DEF Running, TypeOK
<1>2. PlaceOK(b)
  BY DEF Places
<1>3. CASE pc[b] = "bodywait"
  <2>1. inner[b] \in 0 .. BodyWaits(t) - 1
    BY <1>1, <1>2, <1>3 DEF PlaceOK
  <2> QED
    BY <1>3, <2>1 DEF PlacesOf
<1>4. CASE pc[b] \in {"arrive", "topk", "body"}
  BY <1>1, <1>2, <1>4 DEF PlaceOK, PlacesOf
<1> QED
  BY <1>3, <1>4 DEF Running

\* What a place is known to have waited for is complete and published.
LEMMA PassedArrived ==
  ASSUME IInv, TopkHeld, NEW b \in Blocks, pc[b] \in Running,
         NEW e \in Passed(Here(b), <<pc[b], inner[b]>>)
  PROVE  e \in Events /\ Delivered(e, Epoch(b))
<1> USE DEF IInv
<1> DEFINE t == Current(b)
<1>1. /\ t = Desc[Here(b)] /\ Here(b) \in TaskIds
      /\ t \in TaskDescriptor /\ pc[b] \in Started /\ pc[b] # "exit"
  BY Standing DEF Running, Started
<1>2. \/ e = t.wait_event /\ t.wait_event # NoEvent
      \/ \E n \in 1 .. inner[b] : e = BodyWaitEvent(t, n)
      \/ pc[b] = "topk" /\ e = t.local_event
  BY <1>1 DEF Passed
<1>3. CASE e = t.wait_event /\ t.wait_event # NoEvent
  BY <1>1, <1>3, WaitEventsType DEF WaitsOver
<1>4. CASE \E n \in 1 .. inner[b] : e = BodyWaitEvent(t, n)
  BY <1>1, <1>4, WaitEventsType DEF WaitsOver
<1>5. CASE pc[b] = "topk" /\ e = t.local_event
  <2>1. e \in Events /\ AllArrived(e, Epoch(b))
    BY <1>5, RouterEvent DEF TopkHeld
  <2>2. e \notin GlobalEvents
    BY <1>1, <1>5, TaskFacts DEF Places, PlaceOK, CountsOnce
  <2>3. \A c \in Blocks : ~ Publishing(c, e, Epoch(b))
    BY <2>2 DEF Publishing, Places, PlaceOK
  <2> QED
    BY <2>1, <2>3 DEF Delivered
<1> QED
  BY <1>2, <1>3, <1>4, <1>5

LEMMA KnownArrived ==
  ASSUME IInv, TopkHeld, UpstreamIsJustified, NEW b \in Blocks, pc[b] \in Running,
         NEW e \in Known[Here(b)][<<pc[b], inner[b]>>]
  PROVE  e \in Events /\ Delivered(e, Epoch(b)) /\ AllArrived(e, Epoch(b))
<1> DEFINE i == Here(b)
           at == <<pc[b], inner[b]>>
<1>1. i \in TaskIds /\ at \in PlacesOf(i)
  BY Standing, AtPlace DEF IInv, Running
<1>2. \/ e \in Passed(i, at)
      \/ \E j \in ProducersOf(Passed(i, at)) : e \in Upstream[j]
  BY <1>1 DEF Known
<1>3. ASSUME NEW j \in ProducersOf(Passed(i, at)), e \in Upstream[j]
      PROVE  e \in Events /\ Delivered(e, Epoch(b))
  <2>1. PICK f \in Passed(i, at), v \in Waves : <<j, v>> \in Producers[f]
    BY DEF ProducersOf
  <2>2. f \in Events /\ <<<<j, v>>, Epoch(b)>> \in arrived[f]
    BY <2>1, PassedArrived DEF Delivered, AllArrived
  <2> DEFINE a == <<<<j, v>>, Epoch(b)>>
  <2>3. e \in Upstream[a[1][1]] /\ a[2] = Epoch(b)
    BY <1>3
  <2> HIDE DEF a
  <2> QED
    BY <2>2, <2>3, UpstreamArrived DEF a
<1>4. e \in Events /\ Delivered(e, Epoch(b))
  BY <1>2, <1>3, PassedArrived
<1> QED
  BY <1>4 DEF Delivered

\* What would show a place to be over has not happened while a workgroup is
\* there: an arrival of this very workgroup is missing.
LEMMA OverNotYet ==
  ASSUME IInv, NEW b \in Blocks, pc[b] \in Running,
         NEW e \in Over[Here(b)][<<pc[b], inner[b]>>]
  PROVE  /\ e \in Events
         /\ \E p \in Producers[e] : Owner(p[1]) = b /\ <<p, Epoch(b)>> \notin arrived[e]
<1> USE DEF IInv
<1> DEFINE i == Here(b)
           t == Current(b)
           k == Epoch(b)
           at == <<pc[b], inner[b]>>
<1>1. /\ i \in TaskIds /\ Owner(i) = b /\ t = Desc[i] /\ pc[b] # "exit" /\ ~ Behind(i, k)
      /\ slot[b] \in DOMAIN Queue[b] /\ Queue[b][slot[b]] = i /\ CountsOnce(t)
      /\ k \in Nat /\ slot[b] \in Nat
  <2>1. pc[b] # "exit"
    BY DEF Running
  <2>2. i \in TaskIds /\ Owner(i) = b /\ t = Desc[i] /\ ~ Behind(i, k) /\ slot[b] \in DOMAIN Queue[b]
    BY <2>1, Standing
  <2>3. k \in Nat /\ slot[b] \in Nat
    BY EpochType DEF TypeOK
  <2> QED
    BY <2>1, <2>2, <2>3, TaskFacts DEF Here
<1>2. at \in PlacesOf(i)
  BY AtPlace
<1>3. /\ e \in Events
      /\ \/ e = t.signal_event
         \/ pc[b] = "arrive" /\ CountsTopk(t) /\ e = t.local_event
         \/ \E p \in Producers[e] : p[1] \in After[i]
  BY <1>1, <1>2 DEF Over
<1> SUFFICES ASSUME \A p \in Producers[e] : Owner(p[1]) = b => <<p, k>> \in arrived[e]
             PROVE  FALSE
  BY <1>3
<1>4. ASSUME <<i, 0>> \in Producers[e] PROVE HasCounted(<<i, 0>>, e)
  <2>1. <<<<i, 0>>, k>> \in arrived[e]
    BY <1>1, <1>4
  <2> QED
    BY <1>1, <1>3, <2>1 DEF Fresh
<1>5. ASSUME e = t.signal_event PROVE FALSE
  <2>1. HasCounted(<<i, 0>>, e)
    BY <1>1, <1>3, <1>4, <1>5, IsProducer, WaveSets
  <2>2. ~ \E c \in 0 .. Chunks(t) - 1 : e = t.local_event + c
    BY <1>1, <1>5 DEF CountsOnce, ChunkEvents
  <2> QED
    BY <1>1, <1>5, <2>1, <2>2, HasCountedHere DEF Running, CountsOnce
<1>6. ASSUME pc[b] = "arrive", CountsTopk(t), e = t.local_event PROVE FALSE
  <2>1. HasCounted(<<i, 0>>, e)
    BY <1>1, <1>3, <1>4, <1>6, IsProducer, WaveSets
  <2>2. 0 .. Chunks(t) - 1 = {}
    BY <1>1, <1>6 DEF CountsOnce
  <2> QED
    BY <1>1, <1>6, <2>1, <2>2, HasCountedHere
<1>7. ASSUME NEW p \in Producers[e], p[1] \in After[i] PROVE FALSE
  <2> DEFINE j == p[1]
  <2>1. /\ j \in TaskIds /\ Owner(j) = b /\ TaskPosition[j] > TaskPosition[i]
    BY <1>1, <1>7 DEF After
  <2>2. TaskPosition[i] = slot[b]
    BY <1>1, PositionOf
  <2>3. <<p, k>> \in arrived[e]
    BY <1>7, <2>1
  <2>4. Behind(j, k) \/ AtTask(j)
    BY <1>3, <2>3 DEF Fresh
  <2>5. CASE AtTask(j)
    BY <1>1, <2>1, <2>2, <2>5 DEF AtTask
  <2>6. ASSUME NEW s \in DOMAIN Queue[b], Queue[b][s] = j, s < slot[b] PROVE FALSE
    <3>1. TaskPosition[j] = s /\ s \in Nat
      BY <2>1, <2>6, PositionOf, QueueFacts
    <3> QED
      BY <1>1, <2>1, <2>2, <2>6, <3>1
  <2> QED
    BY <1>1, <2>1, <2>4, <2>5, <2>6 DEF Behind
<1> QED
  BY <1>3, <1>5, <1>6, <1>7

\* So two workgroups are never at places that the graph keeps apart.
LEMMA NeverTogether ==
  ASSUME IInv, TopkHeld, UpstreamIsJustified,
         NEW b \in Blocks, NEW c \in Blocks, b # c, pc[b] \in Running, pc[c] \in Running,
         Epoch(b) = Epoch(c)
  PROVE  ~ Exclusive(Here(b), <<pc[b], inner[b]>>, Here(c), <<pc[c], inner[c]>>)
<1> DEFINE at == <<pc[b], inner[b]>>
           bt == <<pc[c], inner[c]>>
<1>1. Over[Here(b)][at] \cap Known[Here(c)][bt] = {}
  BY KnownArrived, OverNotYet DEF AllArrived
<1>2. Over[Here(c)][bt] \cap Known[Here(b)][at] = {}
  BY KnownArrived, OverNotYet DEF AllArrived
<1>3. ~ (/\ pc[b] = "topk" /\ pc[c] = "topk"
         /\ Desc[Here(b)].local_event = Desc[Here(c)].local_event)
  BY DEF TopkHeld, Current, Here
<1> QED
  BY <1>1, <1>2, <1>3 DEF Exclusive

LEMMA ChunkTypes ==
  ASSUME NEW t \in TaskDescriptor PROVE t.local_event \in Int /\ Chunks(t) \in Int
<1>1. t.kv_chunk \in Int /\ t.local_event \in Events \cup {NoEvent}
  BY DEF TaskDescriptor
<1>2. Events \cup {NoEvent} \subseteq Int
  BY EventsNat DEF NoEvent
<1> QED
  BY <1>1, <1>2 DEF Chunks

\* A wave whose chunk somebody knows to be complete has counted it.
LEMMA ChunkCounted ==
  ASSUME IInv, ~ Smoke, NEW b \in Blocks, pc[b] \in Running,
         NEW v \in Waves, NEW c \in 0 .. Chunks(Current(b)) - 1,
         AllArrived(Current(b).local_event + c, Epoch(b))
  PROVE  c < wave[b][v]
<1> USE DEF IInv
<1> DEFINE i == Here(b)
           t == Current(b)
           e == t.local_event + c
<1>1. /\ i \in TaskIds /\ Owner(i) = b /\ t = Desc[i] /\ pc[b] # "exit" /\ ~ Behind(i, Epoch(b))
      /\ CountsOnce(t) /\ t \in TaskDescriptor
  BY Standing, TaskFacts DEF Running
<1>2. e \in ChunkEvents(t) /\ e \in Events
  BY <1>1, DescriptorAssumption DEF ChunkEvents, BodyEvents
<1>3. <<i, v>> \in Producers[e]
  BY <1>1, <1>2, IsProducer
<1>4. HasCounted(<<i, v>>, e)
  BY <1>1, <1>2, <1>3 DEF AllArrived, Fresh
<1>5. ~ CountsTopk(t)
  BY <1>1 DEF CountsOnce
<1>6. e # t.signal_event
  BY <1>1, <1>2 DEF CountsOnce
<1>7. PICK d \in 0 .. Chunks(t) - 1, w \in Signallers :
        e = t.local_event + d /\ v \in SignalledBy(w) /\ d < wave[b][w]
  BY <1>1, <1>4, <1>5, <1>6, HasCountedHere
<1>8. w = v
  BY <1>7 DEF SignalledBy
<1>9. t.local_event \in Int /\ Chunks(t) \in Int
  BY <1>1, ChunkTypes
<1>10. d = c
  BY <1>7, <1>9
<1> QED
  BY <1>7, <1>8, <1>10
LEMMA RunningEpoch ==
  ASSUME IInv, TokensLeft, NEW b \in Blocks, pc[b] # "exit"
  PROVE  Epoch(b) \in 1 .. Tokens
<1>1. Epoch(b) \in Nat \ {0} /\ tok[b] \in Nat /\ epoch0 \in Nat /\ n_tokens \in Nat
  BY EpochType DEF IInv, TypeOK
<1>2. tok[b] < n_tokens
  BY DEF IInv, Places, PlaceOK
<1>3. Tokens \in Nat
  BY ConstantsAssumption
<1> QED
  BY <1>1, <1>2, <1>3 DEF TokensLeft, Decoded, Epoch

\* Of all cells only the rows of the cache and the token ids have a token in
\* their name; no body's fixed cells are among them.
Timed      == {"kv", "token_in"}
Fixed(S)   == \A c \in S : c[1] \notin Timed
Untimed(S) == \A c \in S : c[1][1] \notin Timed

\* A fixed set of cells stays so when it is tagged with layer and step.
LEMMA UntimedAt ==
  ASSUME NEW S, NEW L, NEW s, Fixed(S) PROVE Untimed(At(S, L, s))
BY DEF Untimed, Fixed, At

\* The activation buffers are fixed cells.
LEMMA FixedCells ==
  /\ \A buf, x, ws : buf \notin Timed => Fixed(Owned(buf, x, ws))
  /\ \A buf : buf \notin Timed => Fixed(EveryXcd(buf))
  /\ \A buf, h, n : buf \notin Timed => Fixed(HeadCells(buf, h, n))
  /\ \A x, ws, c : Fixed(ExpertH(x, ws, c))
  /\ \A L : Fixed(Partials(L))
  /\ Fixed({}) /\ Fixed(X0) /\ Fixed(X1)
BY DEF Fixed, Timed, Owned, EveryXcd, HeadCells, ExpertH, Partials, X0, X1

\* What a body stores from its operands are fixed cells ...
LEMMA FixedTasks ==
  ASSUME NEW i \in TaskIds, NEW p \in Running
  PROVE  Untimed(WrittenBy(Desc[i], p))
<1> DEFINE t == Desc[i]
<1>1. Untimed(RouterWrites(t, p))
  BY FixedCells DEF RouterWrites, Mid, Untimed, At, Fixed, Timed
<1>2. Untimed(ReduceWrites(t))
  BY FixedCells DEF ReduceWrites, Mid, Untimed, At, Fixed, Timed
<1> QED
  BY <1>1, <1>2, FixedCells DEF WrittenBy, Mid, Untimed, At, Fixed, Timed, Lds

\* ... and so is what it loads as them.
LEMMA FixedReads ==
  ASSUME NEW i \in TaskIds, NEW p \in Running, NEW n
  PROVE  Untimed(ReadBy(Desc[i], p, n))
<1> DEFINE t == Desc[i]
<1>1. Untimed(RouterReads(t, p))
  BY FixedCells DEF RouterReads, Mid, Untimed, At, Fixed, Timed
<1>2. Untimed(AttentionReads(t, p))
  BY FixedCells DEF AttentionReads, Mid, Untimed, At, Fixed, Timed
<1>3. ASSUME NEW L PROVE Untimed(FoldedExperts(L))
  BY FixedCells DEF FoldedExperts, Mid, Untimed, At, Fixed, Timed
<1>4. Untimed(ReduceReads(t))
  BY <1>3, FixedCells DEF ReduceReads, Mid, Untimed, At, Fixed, Timed
<1>5. Untimed(OprojReads(t))
  BY FixedCells DEF OprojReads, Mid, Untimed, At, Fixed, Timed
<1>6. ASSUME NEW L PROVE Untimed(Folded(t, L))
  BY <1>3, FixedCells DEF Folded, Residual, Mid, Untimed, At, Fixed, Timed
<1>7. Untimed(Routing(t))
  BY FixedCells DEF Routing, Lds, Mid, Untimed, At, Fixed, Timed
<1> QED
  BY <1>1, <1>2, <1>4, <1>5, <1>6, <1>7, FixedCells DEF ReadBy, Mid, Untimed, At, Fixed, Timed

\* The cell that a store of a later token has in the first one.
AtFirst(c) ==
  IF c[1] = "kv" THEN <<"kv", c[2], 1>> ELSE IF c[1] = "token_in" THEN <<"token_in", 2>> ELSE c

\* A timed cell that a body stores to in epoch k.
OfEpoch(c, k) ==
  /\ c[1] = "kv" => c = <<"kv", c[2], k>>
  /\ c[1] = "token_in" => c = <<"token_in", k + 1>>

\* What a body stores in epoch k it stores in the first one, under the first
\* epoch's name (body_attention's cache rows, body_argmax's next token).
LEMMA OutputAnyEpoch ==
  ASSUME NEW i \in TaskIds, NEW at \in PlacesOf(i), NEW k \in Nat,
         NEW o \in OutputsAt(i, at[1], at[2], k)
  PROVE  /\ OfEpoch(o[1], k)
         /\ \E o1 \in OutputsAt(i, at[1], at[2], 1) : o1[1] = AtFirst(o[1])
<1> DEFINE t == Desc[i]
<1>1. at[1] \in Running
  BY DEF PlacesOf, Running
<1>2. Stores[i][at[1]] = WrittenBy(t, at[1]) /\ Untimed(Stores[i][at[1]])
  BY <1>1, FixedTasks DEF Stores
<1>3. CASE \E s \in Stores[i][at[1]] : o = <<s[1], <<k, s[2], s[3]>>>>
  <2>1. PICK s \in Stores[i][at[1]] : o = <<s[1], <<k, s[2], s[3]>>>>
    BY <1>3
  <2>2. o[1] = s[1] /\ o[1][1] # "kv" /\ o[1][1] # "token_in"
    BY <1>2, <2>1 DEF Untimed, Timed
  <2> DEFINE o1 == <<s[1], <<1, s[2], s[3]>>>>
  <2>3. o1 \in OutputsAt(i, at[1], at[2], 1) /\ o1[1] = s[1]
    BY <2>1 DEF OutputsAt
  <2> QED
    BY <2>2, <2>3 DEF OfEpoch, AtFirst
<1>4. ASSUME t.kind = "ATTENTION", t.head = 0, t.kv_chunk = 0, at[2] = 0,
             o = <<<<"kv", t.layer, k>>, <<k, t.layer, "mid">>>>
      PROVE  /\ OfEpoch(o[1], k)
             /\ \E o1 \in OutputsAt(i, at[1], at[2], 1) : o1[1] = AtFirst(o[1])
  <2>1. o[1] = <<"kv", t.layer, k>> /\ AtFirst(o[1]) = <<"kv", t.layer, 1>>
    BY <1>4 DEF AtFirst
  <2> DEFINE o1 == <<<<"kv", t.layer, 1>>, <<1, t.layer, "mid">>>>
  <2>2. o1 \in OutputsAt(i, at[1], at[2], 1) /\ o1[1] = <<"kv", t.layer, 1>>
    BY <1>4 DEF OutputsAt
  <2> QED
    BY <2>1, <2>2 DEF OfEpoch
<1>5. ASSUME t.kind = "ARGMAX", o = <<<<"token_in", k + 1>>, <<k + 1, -1, "in">>>>
      PROVE  /\ OfEpoch(o[1], k)
             /\ \E o1 \in OutputsAt(i, at[1], at[2], 1) : o1[1] = AtFirst(o[1])
  <2>1. o[1] = <<"token_in", k + 1>> /\ AtFirst(o[1]) = <<"token_in", 2>>
    BY <1>5 DEF AtFirst
  <2> DEFINE o1 == <<<<"token_in", 1 + 1>>, <<1 + 1, -1, "in">>>>
  <2>2. o1 \in OutputsAt(i, at[1], at[2], 1) /\ o1[1] = <<"token_in", 2>>
    BY <1>5 DEF OutputsAt
  <2> QED
    BY <2>1, <2>2 DEF OfEpoch
<1> QED
  BY <1>3, <1>4, <1>5 DEF OutputsAt

\* The same with the chunks of expert_h it still owes.
LEMMA StoredAnyEpoch ==
  ASSUME NEW i \in TaskIds, NEW at \in PlacesOf(i), NEW k \in Nat, NEW c \in StoredAt(i, at, k)
  PROVE  OfEpoch(c, k) /\ AtFirst(c) \in StoredAt(i, at, 1)
<1> DEFINE t == Desc[i]
           owed(n) == ChunksOwed(i, [v \in Waves |-> 0], n)
<1>1. PICK o \in OutputsAt(i, at[1], at[2], k) \cup owed(k) : c = o[1]
  BY DEF StoredAt
<1>2. CASE o \in OutputsAt(i, at[1], at[2], k)
  BY <1>1, <1>2, OutputAnyEpoch DEF StoredAt
<1>3. CASE o \in owed(k)
  <2>1. PICK q \in Waves \X (0 .. Chunks(t) - 1) :
          /\ q[2] >= [v \in Waves |-> 0][q[1]]
          /\ o = <<<<"h", t.xcd, t.worker, q[1], q[2]>>, <<k, t.layer, "mid">>>>
    BY <1>3, Zenon DEF ChunksOwed
  <2> DEFINE o1 == <<<<"h", t.xcd, t.worker, q[1], q[2]>>, <<1, t.layer, "mid">>>>
  <2>2. o1 \in owed(1)
    BY <2>1, Zenon DEF ChunksOwed
  <2>3. o1[1] \in StoredAt(i, at, 1)
    BY <2>2 DEF StoredAt
  <2> QED
    BY <1>1, <2>1, <2>3 DEF OfEpoch, AtFirst
<1> QED
  BY <1>1, <1>2, <1>3

\* A cell stored to in epoch k that a body touches then, it touches in the first
\* epoch under its first name: older cache rows are never stored to again.
LEMMA TouchedAnyEpoch ==
  ASSUME NEW j \in TaskIds, NEW bt \in PlacesOf(j), NEW k \in Nat,
         NEW c \in Touched(j, bt, k), OfEpoch(c, k)
  PROVE  AtFirst(c) \in Touched(j, bt, 1)
<1> DEFINE t == Desc[j]
<1>1. bt[1] \in Running /\ bt[2] \in 0 .. BodyWaits(t)
  <2>1. BodyWaits(t) \in Nat
    BY TaskFacts, BodyWaitsType
  <2> QED
    BY <2>1 DEF PlacesOf, Running, CountsTopk
<1>2. \A n \in Nat : Touched(j, bt, n) =
        { o[1] : o \in InputsAt(j, bt[1], bt[2], n) } \cup StoredAt(j, bt, n) \cup AliasesOf(j)
  BY DEF Touched, StoredAt
<1>3. CASE c \in StoredAt(j, bt, k)
  BY <1>2, <1>3, StoredAnyEpoch
<1>4. CASE c \in AliasesOf(j)
  <2>1. c[1] # "kv" /\ c[1] # "token_in"
    BY <1>4, FixedCells DEF AliasesOf, Fixed, Timed
  <2> QED
    BY <1>2, <1>4, <2>1 DEF AtFirst
<1>5. ASSUME NEW o \in InputsAt(j, bt[1], bt[2], k), c = o[1]
      PROVE  AtFirst(c) \in Touched(j, bt, 1)
  <2>1. Loads[j][bt[1]][bt[2]] = ReadBy(t, bt[1], bt[2]) /\ Untimed(Loads[j][bt[1]][bt[2]])
    BY <1>1, FixedReads DEF Loads
  <2>2. ASSUME NEW s \in Loads[j][bt[1]][bt[2]], o = <<s[1], <<k, s[2], s[3]>>>>
        PROVE  AtFirst(c) \in Touched(j, bt, 1)
    <3>1. c = s[1] /\ c[1] # "kv" /\ c[1] # "token_in"
      BY <1>5, <2>1, <2>2 DEF Untimed, Timed
    <3> DEFINE o1 == <<s[1], <<1, s[2], s[3]>>>>
    <3>2. o1 \in InputsAt(j, bt[1], bt[2], 1)
      BY <2>2 DEF InputsAt
    <3>3. o1[1] \in Touched(j, bt, 1)
      BY <1>2, <3>2
    <3> QED
      BY <3>1, <3>3 DEF AtFirst
  <2>3. o # <<<<"token_in", k>>, <<k, -1, "in">>>>
    BY <1>5 DEF OfEpoch
  <2>4. ASSUME NEW n \in 1 .. k - 1 PROVE o # <<<<"kv", t.layer, n>>, <<n, t.layer, "mid">>>>
    BY <1>5 DEF OfEpoch
  <2> QED
    BY <1>5, <2>2, <2>3, <2>4 DEF InputsAt
<1> QED
  BY <1>2, <1>3, <1>4, <1>5

\* Tasks that are disjoint in the first epoch are so in every one.
LEMMA DisjointAnyEpoch ==
  ASSUME NEW i \in TaskIds, NEW at \in PlacesOf(i), NEW j \in TaskIds, NEW bt \in PlacesOf(j),
         NEW k \in Nat, Disjoint(i, at, j, bt, 1)
  PROVE  Disjoint(i, at, j, bt, k)
<1>1. ASSUME NEW o \in OutputsAt(i, at[1], at[2], k), o[1] \in Touched(j, bt, k) PROVE FALSE
  <2>1. PICK o1 \in OutputsAt(i, at[1], at[2], 1) : o1[1] = AtFirst(o[1])
    BY OutputAnyEpoch
  <2>2. o1[1] \in Touched(j, bt, 1)
    BY <1>1, <2>1, OutputAnyEpoch, TouchedAnyEpoch
  <2> QED
    BY <2>2 DEF Disjoint
<1>2. ASSUME NEW v \in Waves, NEW c \in 0 .. Chunks(Desc[i]) - 1,
             <<"h", Desc[i].xcd, Desc[i].worker, v, c>> \in Touched(j, bt, k)
      PROVE  Desc[i].local_event + c \in Known[j][bt]
  <2> DEFINE h == <<"h", Desc[i].xcd, Desc[i].worker, v, c>>
  <2>1. OfEpoch(h, k) /\ AtFirst(h) = h
    BY DEF OfEpoch, AtFirst
  <2>2. h \in Touched(j, bt, 1)
    BY <1>2, <2>1, TouchedAnyEpoch
  <2> QED
    BY <2>2 DEF Disjoint
<1> QED
  BY <1>1, <1>2 DEF Disjoint

\* What a body may touch at its place, whatever its waves have counted so far.
LEMMA TouchedHere ==
  ASSUME TypeOK, NEW b \in Blocks, pc[b] \in Running
  PROVE  Reads(b) \cup Writes(b) \subseteq Touched(Here(b), <<pc[b], inner[b]>>, Epoch(b))
<1> DEFINE i == Here(b)
           k == Epoch(b)
<1>1. Inputs(b) = InputsAt(i, pc[b], inner[b], k) /\ Aliases(b) = AliasesOf(i)
  BY DEF Inputs, Aliases, Here
<1>2. Outputs(b) = OutputsAt(i, pc[b], inner[b], k) \cup ChunksOwed(i, wave[b], k)
  BY DEF Outputs, Here
<1>3. ChunksOwed(i, wave[b], k) \subseteq ChunksOwed(i, [v \in Waves |-> 0], k)
  <2>1. \A q \in Waves \X (0 .. Chunks(Desc[i]) - 1) :
          /\ [v \in Waves |-> 0][q[1]] = 0 /\ q[2] >= 0
    OBVIOUS
  <2> QED
    BY <2>1, Zenon DEF ChunksOwed
<1> QED
  BY <1>1, <1>2, <1>3, Zenon DEF Reads, Writes, Touched

LEMMA WrittenHere ==
  ASSUME IInv, ~ Smoke, NEW b \in Blocks, pc[b] \in Running,
         NEW m \in Writes(b), NEW j, NEW bt,
         Disjoint(Here(b), <<pc[b], inner[b]>>, j, bt, Epoch(b)),
         \A e \in Known[j][bt] : AllArrived(e, Epoch(b))
  PROVE  m \notin Touched(j, bt, Epoch(b))
<1> DEFINE i == Here(b)
           k == Epoch(b)
<1>1. Current(b) = Desc[i] /\ i \in TaskIds
  BY Standing DEF IInv, Running
<1>2. PICK o \in OutputsAt(i, pc[b], inner[b], k) \cup ChunksOwed(i, wave[b], k) : m = o[1]
  BY DEF Writes, Outputs, Here
<1>3. CASE o \in OutputsAt(i, pc[b], inner[b], k)
  BY <1>2, <1>3 DEF Disjoint
<1>4. CASE o \in ChunksOwed(i, wave[b], k)
  <2>1. PICK q \in Waves \X (0 .. Chunks(Desc[i]) - 1) :
          /\ q[2] >= wave[b][q[1]]
          /\ o = <<<<"h", Desc[i].xcd, Desc[i].worker, q[1], q[2]>>, <<k, Desc[i].layer, "mid">>>>
    BY <1>4, Zenon DEF ChunksOwed
  <2> DEFINE v == q[1]
             c == q[2]
  <2>2. v \in Waves /\ c \in 0 .. Chunks(Desc[i]) - 1
    BY <2>1
  <2>3. \/ Desc[i].local_event + c \in Known[j][bt]
        \/ <<"h", Desc[i].xcd, Desc[i].worker, v, c>> \notin Touched(j, bt, k)
    BY <2>2 DEF Disjoint
  <2>4. ASSUME Desc[i].local_event + c \in Known[j][bt] PROVE FALSE
    <3>1. AllArrived(Current(b).local_event + c, k)
      BY <1>1, <2>4
    <3>2. c < wave[b][v]
      BY <1>1, <2>2, <3>1, ChunkCounted
    <3>3. wave[b][v] \in Nat /\ c \in Int
      BY <2>2 DEF IInv, TypeOK
    <3> QED
      BY <2>1, <3>2, <3>3
  <2> QED
    BY <1>2, <2>1, <2>3, <2>4
<1> QED
  BY <1>2, <1>3, <1>4

LEMMA OrderedBodies ==
  ASSUME IInv, TokensDoNotOverlap, TokensLeft, TopkHeld, ConflictsAreOrdered, ~ Smoke
  PROVE  NoDataRace
<1> USE DEF IInv
<1>1. ASSUME NEW b \in Blocks, NEW c \in Blocks \ {b}, NEW m \in Writes(b),
             m \in Reads(c) \cup Writes(c)
      PROVE  FALSE
  <2> DEFINE i  == Here(b)
             j  == Here(c)
             at == <<pc[b], inner[b]>>
             bt == <<pc[c], inner[c]>>
             k  == Epoch(b)
  <2>1. pc[b] \in Running /\ pc[c] \in Running
    BY <1>1 DEF Reads, Writes, Inputs, Outputs, Aliases
  <2>2. pc[b] # "exit" /\ pc[c] # "exit"
    BY <2>1 DEF Running
  <2>3. Epoch(c) = k
    BY <2>1, <2>2, EpochType DEF TokensDoNotOverlap
  <2>4. i \in TaskIds /\ j \in TaskIds /\ Owner(i) = b /\ Owner(j) = c
    BY <2>2, Standing
  <2>5. at \in PlacesOf(i) /\ bt \in PlacesOf(j)
    BY <2>1, AtPlace
  <2>6. k \in 1 .. Tokens
    BY <2>2, RunningEpoch
  <2>7. Exclusive(i, at, j, bt) \/ Disjoint(i, at, j, bt, k)
    <3>1. KeptApart[i] /\ j \in { n \in TaskIds : Owner(n) # Owner(i) }
      BY <1>1, <2>4 DEF ConflictsAreOrdered
    <3> HIDE DEF i, j, at, bt, k
    <3>2. Exclusive(i, at, j, bt) \/ Disjoint(i, at, j, bt, 1)
      BY <2>4, <2>5, <3>1 DEF KeptApart
    <3> QED
      BY <2>4, <2>5, <2>6, <3>2, DisjointAnyEpoch
  <2>8. UpstreamIsJustified
    BY DEF ConflictsAreOrdered
  <2>9. ~ Exclusive(i, at, j, bt)
    BY <1>1, <2>1, <2>3, <2>8, NeverTogether
  <2>10. m \in Touched(j, bt, k)
    BY <1>1, <2>1, <2>3, TouchedHere
  <2>11. \A e \in Known[j][bt] : AllArrived(e, k)
    BY <2>1, <2>3, <2>8, KnownArrived
  <2>12. m \notin Touched(j, bt, k)
    BY <1>1, <2>1, <2>7, <2>9, <2>11, WrittenHere
  <2> QED
    BY <2>10, <2>12
<1> QED
  BY <1>1 DEF NoDataRace

\* The caches change nothing in the protocol.
LEMMA CachesImplementProtocol == VSpec => Spec
<1>1. VInit => Init
  BY DEF VInit, DInit
<1>2. [VNext]_vvars => [Next]_vars
  BY DEF VNext, Next, Finished, vvars, dvars
<1> QED
  BY <1>1, <1>2, PTL DEF VSpec, Spec

LEMMA HeldAtStart == Init => TokensLeft /\ TopkHeld
<1>1. Init => TokensLeft
  BY ConstantsAssumption DEF Init, TokensLeft, Decoded, AtMost
<1>2. Init => TopkHeld
  BY DEF Init, TopkHeld
<1> QED
  BY <1>1, <1>2

\* If the descriptors order every two tasks of different workgroups that touch
\* the same cell, no two bodies ever race, whatever the number of tokens and of
\* launches, and waits given up or not ("no reader and writer ever share one").
THEOREM OrderedGraphsDoNotRace ==
  ASSUME ConflictsAreOrdered, ~ Smoke
  PROVE  VSpec => []NoDataRace
<1>1. VSpec => Spec
  BY CachesImplementProtocol
<1>2. Init => TokensLeft /\ TopkHeld
  BY HeldAtStart
<1>3. IInv /\ TokensLeft /\ [Next]_vars => TokensLeft'
  BY TokensLeftStep
<1>4. ElectionsAreExact
  BY DEF ConflictsAreOrdered
<1>5. IInv /\ TokensDoNotOverlap /\ TopkHeld /\ [Next]_vars => TopkHeld'
  BY <1>4, TopkHeldStep
<1>6. IInv /\ TokensDoNotOverlap /\ TokensLeft /\ TopkHeld => NoDataRace
  BY OrderedBodies
<1> QED
  BY <1>1, <1>2, <1>3, <1>5, <1>6, CountersMeanArrivals, OneTokenAtATime, PTL DEF Spec
-----------------------------------------------------------------------------
(* The chiplets' L2s never both hold a change of the same cell, if the     *)
(* graph has the writebacks in order: every dirty line has an origin, and  *)
(* two origins of a cell contradict what their tasks have waited for.      *)

LEMMA KnownEvents ==
  ASSUME UpstreamIsJustified, NEW i \in TaskIds, NEW at \in PlacesOf(i)
  PROVE  Known[i][at] \subseteq Events
<1> DEFINE t == Desc[i]
<1>1. Passed(i, at) \subseteq Events
  <2>1. t \in TaskDescriptor /\ BodyWaits(t) \in Nat
    BY TaskFacts, BodyWaitsType
  <2>2. at[2] \in 0 .. BodyWaits(t) /\ (at[1] = "topk" => CountsTopk(t))
    BY <2>1 DEF PlacesOf
  <2>3. ({t.wait_event} \ {NoEvent}) \cup { BodyWaitEvent(t, n) : n \in 1 .. at[2] } \subseteq WaitsOf(t)
    BY <2>1, <2>2 DEF WaitsOf
  <2>4. WaitsOf(t) \subseteq Events
    BY AwaitedFacts
  <2>5. CountsTopk(t) => t.local_event \in Events
    BY DescriptorAssumption DEF CountsTopk, BodyEvents
  <2> QED
    BY <2>2, <2>3, <2>4, <2>5 DEF Passed
<1>2. ASSUME NEW j \in TaskIds, NEW e \in Upstream[j] PROVE e \in Events
  <2>1. e \in WaitsOf(Desc[j]) \/ \E n \in ProducersOf(Upstream[j]) : e \in WaitsOf(Desc[n])
    BY <1>2 DEF UpstreamIsJustified
  <2> QED
    BY <2>1, AwaitedFacts DEF ProducersOf
<1>3. ProducersOf(Passed(i, at)) \subseteq TaskIds
  BY DEF ProducersOf
<1>4. Known[i][at] = Passed(i, at) \cup UNION { Upstream[j] : j \in ProducersOf(Passed(i, at)) }
  BY DEF Known
<1> QED
  BY <1>1, <1>2, <1>3, <1>4

\* A body's stores are among those of its place, whatever its waves have
\* counted so far.
LEMMA StoredHere ==
  ASSUME NEW b \in Blocks, NEW o \in Outputs(b)
  PROVE  pc[b] \in Running /\ o[1] \in StoredAt(Here(b), <<pc[b], inner[b]>>, Epoch(b))
<1> DEFINE i == Here(b)
           k == Epoch(b)
<1>1. pc[b] \in Running /\ o \in OutputsAt(i, pc[b], inner[b], k) \cup ChunksOwed(i, wave[b], k)
  BY DEF Outputs, Here
<1>2. ASSUME o \in ChunksOwed(i, wave[b], k)
      PROVE  o \in ChunksOwed(i, [v \in Waves |-> 0], k)
  <2>1. \A q \in Waves \X (0 .. Chunks(Desc[i]) - 1) :
          /\ [v \in Waves |-> 0][q[1]] = 0 /\ q[2] >= 0
    OBVIOUS
  <2> QED
    BY <1>2, <2>1, Zenon DEF ChunksOwed
<1>3. o \in OutputsAt(i, pc[b], inner[b], k) \cup ChunksOwed(i, [v \in Waves |-> 0], k)
  BY <1>1, <1>2
<1> QED
  BY <1>1, <1>3, Zenon DEF StoredAt

\* What a task's stores are flushed by is not out while its body runs.
LEMMA FlushedLater ==
  ASSUME IInv, NEW b \in Blocks, pc[b] \in Running, NEW e \in Flushed[Here(b)]
  PROVE  ~ ShareOut(b[1], e, Epoch(b))
<1> DEFINE i  == Here(b)
           at == <<pc[b], inner[b]>>
<1>1. i \in TaskIds /\ at \in PlacesOf(i)
  BY Standing, AtPlace DEF IInv, Running
<1>2. e \in GlobalEvents /\ e \in Events
  BY <1>1, AwaitedFacts DEF Flushed
<1>3. e \in Over[i][at]
  BY <1>1, <1>2 DEF Flushed, Over
<1>4. PICK p \in Producers[e] : Owner(p[1]) = b /\ <<p, Epoch(b)>> \notin arrived[e]
  BY <1>3, OverNotYet
<1>5. p \in ProducersOn[b[1]][e]
  <2>1. b[1] \in Xcds /\ Desc[p[1]].xcd = b[1]
    BY <1>4, BlockXcd DEF Owner
  <2> QED
    BY <1>2, <1>4, <2>1, ShareFacts
<1> QED
  BY <1>4, <1>5 DEF ShareOut
\* A change of a chiplet's L2 that a step leaves unwritten was there before,
\* or is a store that lands in it.
LEMMA DirtyAfter ==
  ASSUME NEW b \in Blocks, WorkerCaches(b), DOMAIN l2 = Xcds
  PROVE  /\ DOMAIN l2' = Xcds
         /\ \A y \in Xcds : y # b[1] => l2'[y] = l2[y]
         /\ \A c \in DirtyIn(l2'[b[1]]) :
              ~ Releases(b) /\ (c \in DirtyIn(l2[b[1]]) \/ \E o \in Landed(b) : o[1] = c)
<1> DEFINE x       == b[1]
           landed  == { o \in Landed(b) : ~InLds(o[1]) }
           stored  == Stored(l2[x], landed)
           lines   == IF Releases(b) THEN Cleaned(stored) ELSE stored
           acquire == Acquire(b)
           kept    == IF acquire = "GLOBAL" THEN Restrict(lines, DirtyIn(lines)) ELSE lines
           copies  == IF acquire # "NONE" THEN {} ELSE DOMAIN l1[b] \ { o[1] : o \in landed }
           reads   == PlainReads(b)'
           fetched == (reads \ copies) \ DOMAIN kept
           filled  == Overlay([c \in fetched |-> Line(ram'[c], FALSE)], kept)
<1>1. x \in Xcds
  BY BlockXcd
<1>2. l2' = [l2 EXCEPT ![x] = filled]
  BY Zenon DEF WorkerCaches
<1>3. ASSUME NEW c \in DirtyIn(filled) PROVE c \in DirtyIn(lines)
  <2> HIDE DEF lines, reads, copies, acquire
  <2>1. c \in DirtyIn(kept)
    <3> HIDE DEF kept
    <3> QED
      BY <1>3 DEF DirtyIn, Line, Overlay
  <2> QED
    BY <2>1 DEF DirtyIn, Restrict
<1>4. ASSUME NEW c \in DirtyIn(lines) PROVE ~ Releases(b) /\ c \in DirtyIn(stored)
  <2> HIDE DEF stored
  <2> QED
    BY <1>4 DEF DirtyIn, Cleaned, Line
<1>5. ASSUME NEW c \in DirtyIn(stored)
      PROVE  c \in DirtyIn(l2[x]) \/ \E o \in landed : o[1] = c
  <2> HIDE DEF landed
  <2> QED
    BY <1>5 DEF DirtyIn, Stored, Line, Overlay
<1> HIDE DEF filled, lines, stored
<1>6. DOMAIN l2' = Xcds /\ l2'[x] = filled /\ \A y \in Xcds : y # x => l2'[y] = l2[y]
  BY <1>1, <1>2
<1>7. ASSUME NEW c \in DirtyIn(filled)
      PROVE  ~ Releases(b) /\ (c \in DirtyIn(l2[x]) \/ \E o \in Landed(b) : o[1] = c)
  BY <1>3, <1>4, <1>5, <1>7
<1> QED
  BY <1>6, <1>7
LEMMA NewOrigin ==
  ASSUME IInv, TokensLeft, TopkHeld, UpstreamIsJustified,
         NEW b \in Blocks, NEW o \in Outputs(b)
  PROVE  Origin(b[1], o[1])
<1> USE DEF IInv
<1> DEFINE i  == Here(b)
           k  == Epoch(b)
           at == <<pc[b], inner[b]>>
<1>1. pc[b] \in Running /\ o[1] \in StoredAt(i, at, k)
  BY StoredHere
<1>2. pc[b] # "exit" /\ pc[b] \in Started
  BY <1>1 DEF Running, Started
<1>3. i \in TaskIds /\ at \in PlacesOf(i) /\ Desc[i].xcd = b[1]
  BY <1>1, <1>2, Standing, AtPlace
<1>4. k \in 1 .. Tokens
  BY <1>2, RunningEpoch
<1>5. Settled(k - 1)
  BY <1>2 DEF Gates
<1>6. \A e \in Known[i][at] : Delivered(e, k)
  BY <1>1, KnownArrived
<1>7. \A e \in Flushed[i] : ~ ShareOut(b[1], e, k)
  BY <1>1, FlushedLater
<1> HIDE DEF i, k, at
<1> QED
  BY <1>1, <1>3, <1>4, <1>5, <1>6, <1>7 DEF Origin

\* An origin stays one until its chiplet writes back.
LEMMA OriginStays ==
  ASSUME IInv, UpstreamIsJustified, NEW b \in Blocks, Worker(b),
         NEW x \in Xcds, NEW c, Origin(x, c), ~ (x = b[1] /\ Publish(b))
  PROVE  Origin(x, c)'
<1> USE DEF IInv
<1>0. PICK i \in TaskIds, k \in 1 .. Tokens : \E at \in PlacesOf(i) :
        /\ Desc[i].xcd = x /\ c \in StoredAt(i, at, k)
        /\ Settled(k - 1)
        /\ \A e \in Known[i][at] : Delivered(e, k)
        /\ \A e \in Flushed[i] : ~ ShareOut(x, e, k)
  BY DEF Origin
<1>1. PICK at \in PlacesOf(i) :
        /\ Desc[i].xcd = x /\ c \in StoredAt(i, at, k)
        /\ Settled(k - 1)
        /\ \A e \in Known[i][at] : Delivered(e, k)
        /\ \A e \in Flushed[i] : ~ ShareOut(x, e, k)
  BY <1>0
<1>2. Settled(k - 1)'
  BY <1>1, SettledStays
<1>3. \A e \in Known[i][at] : Delivered(e, k)'
  BY <1>1, KnownEvents, DeliveredStays
<1>4. ASSUME NEW e \in Flushed[i] PROVE ~ ShareOut(x, e, k)'
  <2>1. e \in GlobalEvents /\ k \in Nat /\ ~ ShareOut(x, e, k) /\ Protocol /\ OnePublisher
    BY <1>1, <1>4 DEF Flushed, Protocol
  <2>2. CASE Publish(b)
    BY <2>1, <2>2, PublishShares
  <2>3. CASE ~ Publish(b)
    BY <2>1, <2>3, SharesStay
  <2> QED
    BY <2>2, <2>3
<1> QED
  BY <1>1, <1>2, <1>3, <1>4 DEF Origin
LEMMA OriginUnmoved ==
  ASSUME UNCHANGED <<epoch0, pc, tok, slot, arrived>>, NEW x, NEW c, Origin(x, c)
  PROVE  Origin(x, c)'
<1>1. \A b : Epoch(b)' = Epoch(b) /\ Current(b)' = Current(b)
  BY DEF Epoch, Current
<1>2. \A e, k : AllArrived(e, k)' <=> AllArrived(e, k)
  BY DEF AllArrived
<1>3. \A b, e, k : Publishing(b, e, k)' <=> Publishing(b, e, k)
  BY <1>1 DEF Publishing
<1>4. \A e, k : Delivered(e, k)' <=> Delivered(e, k)
  BY <1>2, <1>3 DEF Delivered
<1>5. \A e, k : ShareOut(x, e, k)' <=> ShareOut(x, e, k)
  BY <1>3 DEF ShareOut
<1>6. \A m : Settled(m)' <=> Settled(m)
  BY <1>4 DEF Settled
<1> QED
  BY <1>4, <1>5, <1>6 DEF Origin

LinesHeld == DOMAIN l2 = Xcds /\ DirtyHeld

LEMMA DirtyHeldStep ==
  ASSUME IInv, TokensLeft, TopkHeld, UpstreamIsJustified,
         DOMAIN l2 = Xcds, DirtyHeld, [VNext]_vvars
  PROVE  DOMAIN l2' = Xcds /\ DirtyHeld'
<1> USE DEF IInv
<1>1. ASSUME NEW b \in Blocks, Worker(b), WorkerCaches(b)
      PROVE  DOMAIN l2' = Xcds /\ DirtyHeld'
  <2>1. Publish(b) => Releases(b)
    <3>1. ASSUME Publish(b) PROVE pc[b] = "publish" /\ pc'[b] # "publish"
      <4>1. pc[b] = "publish" /\ Advance(b) /\ epoch0' = epoch0
        BY <3>1 DEF Publish, host
      <4> QED
        BY <4>1, AdvanceTo
    <3> QED
      BY <3>1 DEF Releases
  <2>2. ASSUME NEW x \in Xcds, x # b[1], NEW c \in DirtyIn(l2'[x]) PROVE Origin(x, c)'
    <3>1. c \in DirtyIn(l2[x])
      BY <1>1, <2>2, DirtyAfter
    <3>2. Origin(x, c)
      BY <3>1 DEF DirtyHeld
    <3> QED
      BY <1>1, <2>2, <3>2, OriginStays
  <2>3. ASSUME NEW c \in DirtyIn(l2'[b[1]]) PROVE Origin(b[1], c)'
    <3>1. ~ Releases(b) /\ (c \in DirtyIn(l2[b[1]]) \/ \E o \in Landed(b) : o[1] = c)
      BY <1>1, <2>3, DirtyAfter
    <3>2. b[1] \in Xcds
      BY BlockXcd
    <3>3. Origin(b[1], c)
      <4>1. CASE c \in DirtyIn(l2[b[1]])
        BY <3>2, <4>1 DEF DirtyHeld
      <4>2. ASSUME NEW o \in Landed(b), o[1] = c PROVE Origin(b[1], c)
        <5>1. o \in Outputs(b)
          BY <4>2 DEF Landed
        <5> QED
          BY <4>2, <5>1, NewOrigin
      <4> QED
        BY <3>1, <4>1, <4>2
    <3> QED
      BY <1>1, <2>1, <3>1, <3>2, <3>3, OriginStays
  <2>4. DOMAIN l2' = Xcds
    BY <1>1, DirtyAfter
  <2>5. \A x \in Xcds : \A c \in DirtyIn(l2'[x]) : Origin(x, c)'
    BY <2>2, <2>3
  <2> QED
    BY <2>4, <2>5 DEF DirtyHeld, DirtyIn
<1>2. ASSUME UNCHANGED <<epoch0, pc, tok, slot, arrived>>, UNCHANGED l2
      PROVE  DOMAIN l2' = Xcds /\ DirtyHeld'
  <2>1. \A x \in Xcds : \A c \in DirtyIn(l2[x]) : Origin(x, c)'
    BY <1>2, OriginUnmoved DEF DirtyHeld
  <2> QED
    BY <1>2, <2>1 DEF DirtyHeld, DirtyIn
<1>3. ASSUME NEW x \in Xcds, Scheduler(x) PROVE UNCHANGED <<epoch0, pc, tok, slot, arrived>>
  BY <1>3 DEF Scheduler, Relay, PollGlobal, StoreFlag, StopScheduler, ExitScheduler, host, block
<1>4. Finished \/ UNCHANGED vvars => UNCHANGED <<epoch0, pc, tok, slot, arrived>>
  BY DEF Finished, vars, dvars, vvars
<1>5. ASSUME LaunchCaches PROVE DOMAIN l2' = Xcds /\ DirtyHeld'
  <2>1. l2' = [x \in Xcds |-> NoLines]
    BY <1>5 DEF LaunchCaches
  <2>2. \A x \in Xcds : DirtyIn(l2'[x]) = {}
    BY <2>1 DEF DirtyIn, NoLines
  <2> QED
    BY <2>1, <2>2 DEF DirtyHeld, DirtyIn
<1>6. UNCHANGED caches \/ UNCHANGED vvars => UNCHANGED l2
  BY DEF caches, vvars
<1>7. CASE \E b \in Blocks : Worker(b) /\ Land(b) /\ WorkerCaches(b)
  BY <1>1, <1>7
<1>8. CASE \E x \in Xcds : Scheduler(x) /\ UNCHANGED <<mem, caches>>
  BY <1>2, <1>3, <1>6, <1>8
<1>9. CASE Relaunch /\ UNCHANGED mem /\ LaunchCaches
  BY <1>5, <1>9
<1>10. CASE (Finished /\ UNCHANGED <<mem, caches>>) \/ UNCHANGED vvars
  BY <1>2, <1>4, <1>6, <1>10
<1> QED
  BY <1>7, <1>8, <1>9, <1>10 DEF VNext

LEMMA DeliveredIsOut ==
  ASSUME NEW e \in Events, NEW k, Delivered(e, k), NEW x \in Xcds
  PROVE  ShareOut(x, e, k)
BY ShareFacts DEF Delivered, AllArrived, ShareOut

\* An origin of an earlier epoch has been flushed, one of the same epoch
\* before or after the other task's store.
LEMMA OriginsApart ==
  ASSUME WritebacksAreOrdered, NEW x \in Xcds, NEW y \in Xcds, x # y,
         NEW c, Origin(x, c), Origin(y, c)
  PROVE  FALSE
<1>1. PICK i \in TaskIds, k \in 1 .. Tokens : \E at \in PlacesOf(i) :
        /\ Desc[i].xcd = x /\ c \in StoredAt(i, at, k)
        /\ Settled(k - 1)
        /\ \A e \in Known[i][at] : Delivered(e, k)
        /\ \A e \in Flushed[i] : ~ ShareOut(x, e, k)
  BY DEF Origin
<1>2. PICK at \in PlacesOf(i) :
        /\ Desc[i].xcd = x /\ c \in StoredAt(i, at, k)
        /\ Settled(k - 1)
        /\ \A e \in Known[i][at] : Delivered(e, k)
        /\ \A e \in Flushed[i] : ~ ShareOut(x, e, k)
  BY <1>1
<1>3. PICK j \in TaskIds, l \in 1 .. Tokens : \E bt \in PlacesOf(j) :
        /\ Desc[j].xcd = y /\ c \in StoredAt(j, bt, l)
        /\ Settled(l - 1)
        /\ \A e \in Known[j][bt] : Delivered(e, l)
        /\ \A e \in Flushed[j] : ~ ShareOut(y, e, l)
  BY DEF Origin
<1>4. PICK bt \in PlacesOf(j) :
        /\ Desc[j].xcd = y /\ c \in StoredAt(j, bt, l)
        /\ Settled(l - 1)
        /\ \A e \in Known[j][bt] : Delivered(e, l)
        /\ \A e \in Flushed[j] : ~ ShareOut(y, e, l)
  BY <1>3
<1>5. \A n \in TaskIds : Flushed[n] \subseteq GlobalEvents
  BY DEF Flushed
<1>6. GlobalEvents \subseteq Events /\ GlobalEvents \subseteq Awaited
  BY AwaitedFacts
<1>7. WrittenBackInTime[i] /\ WrittenBackInTime[j]
  BY DEF WritebacksAreOrdered
<1>8. Flushed[i] # {} /\ Flushed[j] # {}
  <2>1. StoredAt(i, at, 1) # {} /\ StoredAt(j, bt, 1) # {}
    BY <1>2, <1>4, StoredAnyEpoch
  <2> QED
    BY <1>7, <2>1 DEF WrittenBackInTime
<1>9. ~ (k < l)
  <2> SUFFICES ASSUME k < l PROVE FALSE
    OBVIOUS
  <2>1. PICK e \in Flushed[i] : e \in Events /\ e \in Awaited
    BY <1>5, <1>6, <1>8
  <2>2. Delivered(e, k)
    BY <1>4, <2>1 DEF Settled
  <2> QED
    BY <1>2, <2>1, <2>2, DeliveredIsOut
<1>10. ~ (l < k)
  <2> SUFFICES ASSUME l < k PROVE FALSE
    OBVIOUS
  <2>1. PICK e \in Flushed[j] : e \in Events /\ e \in Awaited
    BY <1>5, <1>6, <1>8
  <2>2. Delivered(e, l)
    BY <1>2, <2>1 DEF Settled
  <2> QED
    BY <1>4, <2>1, <2>2, DeliveredIsOut
<1>11. k = l
  BY <1>9, <1>10
<1>12. FlushedBetween(i, at, j, bt)
  <2>1. StoredAt(i, at, 1) \cap StoredAt(j, bt, 1) # {}
    BY <1>2, <1>4, <1>11, StoredAnyEpoch
  <2>2. StoredAt(i, at, 1) # {} /\ Desc[j].xcd # Desc[i].xcd
    BY <1>2, <1>4, <2>1
  <2> QED
    BY <1>7, <2>1, <2>2 DEF WrittenBackInTime
<1>13. Flushed[i] \cap Known[j][bt] = {}
  BY <1>2, <1>4, <1>5, <1>6, <1>11, DeliveredIsOut
<1>14. Flushed[j] \cap Known[i][at] = {}
  BY <1>2, <1>4, <1>5, <1>6, <1>11, DeliveredIsOut
<1> QED
  BY <1>12, <1>13, <1>14 DEF FlushedBetween

\* If the descriptors have every store written back before another chiplet
\* stores to its cell and before its epoch ends, no two L2s ever hold unwritten
\* changes of the same cell (x[1], "published by XCD 0" and rewritten in place
\* by every chiplet's dense_down), with or without --coherent-acts.
THEOREM OrderedWritebacksNeverClash ==
  ASSUME WritebacksAreOrdered
  PROVE  VSpec => []OneDirtyCopy
<1>1. VSpec => Spec
  BY CachesImplementProtocol
<1>2. VInit => TokensLeft /\ TopkHeld /\ LinesHeld
  <2> SUFFICES ASSUME VInit PROVE TokensLeft /\ TopkHeld /\ LinesHeld
    OBVIOUS
  <2>1. Init /\ l2 = [x \in Xcds |-> NoLines]
    BY DEF VInit, DInit
  <2>2. \A x \in Xcds : DirtyIn(l2[x]) = {}
    BY <2>1 DEF DirtyIn, NoLines
  <2> QED
    BY <2>1, <2>2, HeldAtStart DEF LinesHeld, DirtyHeld
<1>3. IInv /\ TokensLeft /\ [Next]_vars => TokensLeft'
  BY TokensLeftStep
<1>4. UpstreamIsJustified /\ ElectionsAreExact
  BY DEF WritebacksAreOrdered
<1>5. IInv /\ TokensDoNotOverlap /\ TopkHeld /\ [Next]_vars => TopkHeld'
  BY <1>4, TopkHeldStep
<1>6. IInv /\ TokensLeft /\ TopkHeld /\ LinesHeld /\ [VNext]_vvars => LinesHeld'
  BY <1>4, DirtyHeldStep DEF LinesHeld
<1>7. LinesHeld => OneDirtyCopy
  BY OriginsApart DEF LinesHeld, DirtyHeld, OneDirtyCopy
<1> QED
  BY <1>1, <1>2, <1>3, <1>5, <1>6, <1>7, CountersMeanArrivals, OneTokenAtATime, PTL
  DEF VSpec, Spec
\* A task in front of one that its workgroup is at or past is behind it.
LEMMA BehindBefore ==
  ASSUME TypeOK, NEW i \in TaskIds, NEW j \in TaskIds, Owner(j) = Owner(i),
         TaskPosition[j] > TaskPosition[i], NEW k \in Nat,
         Behind(j, k) \/ (AtTask(j) /\ k = Epoch(Owner(i)))
  PROVE  Behind(i, k)
<1> DEFINE b == Owner(i)
<1>1. b \in Blocks /\ slot[b] \in Nat
  BY TaskFacts DEF TypeOK
<1>2. PICK s \in DOMAIN Queue[b] : Queue[b][s] = i
  BY TaskFacts
<1>3. TaskPosition[i] = s /\ s \in Nat
  BY <1>1, <1>2, PositionOf, QueueFacts
<1>4. ASSUME NEW r \in DOMAIN Queue[b], Queue[b][r] = j, r <= slot[b] PROVE s < slot[b]
  <2>1. TaskPosition[j] = r /\ r \in Nat
    BY <1>1, <1>4, PositionOf, QueueFacts
  <2> QED
    BY <1>1, <1>3, <1>4, <2>1
<1>5. CASE k < Epoch(b)
  BY <1>5 DEF Behind
<1>6. CASE k = Epoch(b)
  <2>1. \E r \in DOMAIN Queue[b] : Queue[b][r] = j /\ r <= slot[b]
    BY <1>1, <1>6, QueueFacts DEF Behind, AtTask, Here
  <2> QED
    BY <1>2, <1>4, <1>6, <2>1 DEF Behind
<1>7. k < Epoch(b) \/ k = Epoch(b)
  BY DEF Behind
<1> QED
  BY <1>5, <1>6, <1>7

-----------------------------------------------------------------------------
(* What a body reads is what was stored for it, if the graph says so.      *)

\* A site: a place of the body, or a wave's chunk of it.
LEMMA SiteFacts ==
  ASSUME NEW i \in TaskIds, NEW at \in SitesOf(i)
  PROVE  /\ PlaceOf(i, at) \in PlacesOf(i) /\ <<"body", BodyWaits(Desc[i])>> \in PlacesOf(i)
         /\ i \in Peers(i, at)
         /\ \/ /\ at \in PlacesOf(i) /\ at = <<at[1], at[2]>> /\ PlaceOf(i, at) = at
               /\ at[1] \in Running /\ at[2] \in 0 .. BodyWaits(Desc[i])
               /\ at[1] = "bodywait" => at[2] < BodyWaits(Desc[i])
               /\ at[1] \in {"arrive", "topk"} => CountsTopk(Desc[i]) /\ at[2] = 0
               /\ at[1] = "body" => at[2] = BodyWaits(Desc[i])
            \/ /\ at[1] = "chunk" /\ at[2] \in Waves /\ at[3] \in 0 .. Chunks(Desc[i]) - 1
               /\ at = <<"chunk", at[2], at[3]>> /\ PlaceOf(i, at) = <<"body", BodyWaits(Desc[i])>>
<1> DEFINE t == Desc[i]
<1>1. BodyWaits(t) \in Nat
  BY TaskFacts, BodyWaitsType
<1>2. <<"body", BodyWaits(t)>> \in PlacesOf(i)
  BY DEF PlacesOf
<1>3. CASE at \in PlacesOf(i)
  <2>1. /\ at = <<at[1], at[2]>> /\ at[1] \in Running /\ at[2] \in 0 .. BodyWaits(t)
        /\ at[1] = "bodywait" => at[2] < BodyWaits(t)
        /\ at[1] \in {"arrive", "topk"} => CountsTopk(t) /\ at[2] = 0
        /\ at[1] = "body" => at[2] = BodyWaits(t)
    BY <1>1, <1>3 DEF PlacesOf, Running
  <2>2. PlaceOf(i, at) = at
    BY <2>1 DEF PlaceOf, Running
  <2>3. i \in Peers(i, at)
    BY <2>1 DEF Peers
  <2> QED
    BY <1>2, <1>3, <2>1, <2>2, <2>3
<1>4. CASE at \in { <<"chunk", v, c>> : v \in Waves, c \in 0 .. Chunks(t) - 1 }
  BY <1>2, <1>4 DEF PlaceOf, Peers
<1> QED
  BY <1>3, <1>4 DEF SitesOf

\* Who else may store at a site: nobody, but for the top-k.
LEMMA PeerFacts ==
  ASSUME NEW i \in TaskIds, NEW at \in SitesOf(i), NEW n \in Peers(i, at)
  PROVE  /\ n \in TaskIds /\ at \in SitesOf(n) /\ Peers(n, at) = Peers(i, at)
         /\ at[1] # "topk" => n = i
         /\ at[1] = "topk" => /\ at = <<"topk", 0>> /\ at \in PlacesOf(n)
                              /\ CountsTopk(Desc[n]) /\ Desc[n].local_event = Desc[i].local_event
<1>1. CASE at[1] # "topk"
  BY <1>1 DEF Peers
<1>2. CASE at[1] = "topk"
  <2>1. at = <<"topk", 0>>
    BY <1>2, SiteFacts
  <2>2. n \in TaskIds /\ CountsTopk(Desc[n]) /\ Desc[n].local_event = Desc[i].local_event
    BY <1>2 DEF Peers
  <2>3. at \in PlacesOf(n)
    BY <2>1, <2>2 DEF PlacesOf
  <2>4. Peers(n, at) = Peers(i, at)
    BY <1>2, <2>2 DEF Peers
  <2> QED
    BY <1>2, <2>1, <2>2, <2>3, <2>4 DEF SitesOf
<1> QED
  BY <1>1, <1>2

\* The events of a site show what they are meant to show.
LEMMA PastByEvent ==
  ASSUME IInv, ~ Smoke, NEW i \in TaskIds, NEW at \in SitesOf(i), NEW e \in PastEvents(i, at),
         NEW k \in Nat, e \in Events => AllArrived(e, k)
  PROVE  Past(i, at, k)
<1> USE DEF IInv
<1> DEFINE t == Desc[i]
           b == Owner(i)
           pl == PlaceOf(i, at)
<1>1. /\ b \in Blocks /\ t \in TaskDescriptor /\ CountsOnce(t)
      /\ pl \in PlacesOf(i)
  BY TaskFacts, SiteFacts
<1>2. ASSUME NEW f \in Events, AllArrived(f, k), <<i, 0>> \in Producers[f], ~ Behind(i, k)
      PROVE  AtTask(i) /\ k = Epoch(b) /\ HasCounted(<<i, 0>>, f)
  <2>1. <<<<i, 0>>, k>> \in arrived[f]
    BY <1>2 DEF AllArrived
  <2> QED
    BY <1>2, <2>1 DEF Fresh
<1>3. ASSUME e \in Events, e = t.signal_event, ~ Behind(i, k) PROVE Past(i, at, k)
  <2>1. <<i, 0>> \in Producers[e]
    BY <1>3, IsProducer, WaveSets
  <2>2. AtTask(i) /\ k = Epoch(b) /\ HasCounted(<<i, 0>>, e)
    BY <1>2, <1>3, <2>1
  <2>3. ~ \E c \in 0 .. Chunks(t) - 1 : e = t.local_event + c
    BY <1>1, <1>3 DEF CountsOnce, ChunkEvents
  <2>4. pc[b] = "publish"
    BY <1>1, <1>3, <2>2, <2>3 DEF HasCounted, CountsOnce
  <2> QED
    BY <2>2, <2>4 DEF Past, PastHere
<1>4. ASSUME e \in Events, at[1] = "arrive", CountsTopk(t), e = t.local_event, ~ Behind(i, k)
      PROVE  Past(i, at, k)
  <2>1. <<i, 0>> \in Producers[e]
    BY <1>4, IsProducer, WaveSets
  <2>2. AtTask(i) /\ k = Epoch(b) /\ HasCounted(<<i, 0>>, e)
    BY <1>2, <1>4, <2>1
  <2>3. 0 .. Chunks(t) - 1 = {}
    BY <1>1, <1>4 DEF CountsOnce
  <2>4. pc[b] \in {"topk", "body", "publish"}
    BY <1>1, <1>4, <2>2, <2>3 DEF HasCounted, CountsOnce
  <2> QED
    BY <1>4, <2>2, <2>4 DEF Past, PastHere
<1>5. ASSUME e \in Events, NEW p \in Producers[e], p[1] \in After[i] PROVE Behind(i, k)
  <2> DEFINE j == p[1]
  <2>1. j \in TaskIds /\ Owner(j) = b /\ TaskPosition[j] > TaskPosition[i]
    BY <1>5 DEF After
  <2>2. <<p, k>> \in arrived[e]
    BY <1>5 DEF AllArrived
  <2>3. Behind(j, k) \/ (AtTask(j) /\ k = Epoch(b))
    BY <1>5, <2>1, <2>2 DEF Fresh
  <2> QED
    BY <2>1, <2>3, BehindBefore
<1>6. ASSUME at[1] = "chunk", e = t.local_event + at[3], ~ Behind(i, k) PROVE Past(i, at, k)
  <2> DEFINE v == at[2]
             c == at[3]
  <2>1. v \in Waves /\ c \in 0 .. Chunks(t) - 1
    BY <1>6, SiteFacts, WaveSets DEF Running
  <2>2. e \in ChunkEvents(t) /\ e \in Events
    BY <1>6, <2>1, DescriptorAssumption DEF ChunkEvents, BodyEvents
  <2>3. <<i, v>> \in Producers[e] /\ AllArrived(e, k)
    BY <2>1, <2>2, IsProducer
  <2>4. AtTask(i) /\ k = Epoch(b) /\ HasCounted(<<i, v>>, e)
    BY <1>6, <2>2, <2>3 DEF AllArrived, Fresh
  <2>5. ~ CountsTopk(t) /\ e # t.signal_event
    BY <1>1, <2>1, <2>2 DEF CountsOnce
  <2>6. PICK d \in 0 .. Chunks(t) - 1, w \in Signallers :
          e = t.local_event + d /\ v \in SignalledBy(w) /\ d < wave[b][w]
    BY <2>4, <2>5 DEF HasCounted
  <2>7. w = v
    BY <2>6 DEF SignalledBy
  <2>8. t.local_event \in Int /\ Chunks(t) \in Int
    BY <1>1, ChunkTypes
  <2>9. d = c
    BY <1>6, <2>1, <2>6, <2>8
  <2>10. wave[b][v] > c
    BY <1>1, <2>1, <2>6, <2>7, <2>8, <2>9 DEF TypeOK
  <2> QED
    BY <1>6, <2>4, <2>10 DEF Past, PastHere
<1>7. Behind(i, k) => Past(i, at, k)
  BY DEF Past, PastHere
<1>8. CASE e \in Over[i][pl]
  <2>1. /\ e \in Events
        /\ \/ e = t.signal_event
           \/ pl[1] = "arrive" /\ CountsTopk(t) /\ e = t.local_event
           \/ \E p \in Producers[e] : p[1] \in After[i]
    BY <1>1, <1>8 DEF Over
  <2>2. pl[1] = "arrive" => at[1] = "arrive"
    <3>1. pl = at \/ pl = <<"body", BodyWaits(t)>>
      BY SiteFacts
    <3> HIDE DEF pl
    <3> QED
      BY <3>1
  <2> QED
    BY <1>3, <1>4, <1>5, <1>7, <2>1, <2>2
<1> QED
  BY <1>6, <1>7, <1>8 DEF PastEvents

\* What a body at a site knows to be done is done.
LEMMA DoneByEvents ==
  ASSUME IInv, ~ Smoke, NEW i \in TaskIds, NEW at \in SitesOf(i),
         NEW j \in TaskIds, NEW bt \in SitesOf(j), DoneBefore(i, at, j, bt), NEW k \in Nat,
         \A e \in Known[j][PlaceOf(j, bt)] : AllArrived(e, k),
         Behind(j, k) \/ (AtTask(j) /\ k = Epoch(Owner(j)))
  PROVE  Done(i, at, k)
<1> SUFFICES ASSUME NEW n \in Peers(i, at) PROVE Past(n, at, k)
  BY DEF Done
<1>1. n \in TaskIds /\ at \in SitesOf(n)
  BY PeerFacts
<1>2. CASE PastEvents(n, at) \cap Known[j][PlaceOf(j, bt)] # {}
  BY <1>1, <1>2, PastByEvent
<1>3. CASE j \in After[n]
  <2>1. Owner(j) = Owner(n) /\ TaskPosition[j] > TaskPosition[n]
    BY <1>1, <1>3 DEF After
  <2>2. Behind(n, k)
    BY <1>1, <2>1, BehindBefore DEF IInv
  <2> QED
    BY <2>2 DEF Past, PastHere
<1> QED
  BY <1>2, <1>3 DEF DoneBefore

\* The events a place has waited for bring all its known ones.
LEMMA KnownByPassed ==
  ASSUME IInv, UpstreamIsJustified, NEW i \in TaskIds, NEW at \in PlacesOf(i), NEW k \in Nat,
         \A e \in Passed(i, at) : e \in Events /\ AllArrived(e, k), NEW e \in Known[i][at]
  PROVE  e \in Events /\ AllArrived(e, k)
<1>1. \/ e \in Passed(i, at)
      \/ \E j \in ProducersOf(Passed(i, at)) : e \in Upstream[j]
  BY DEF Known
<1>2. ASSUME NEW j \in ProducersOf(Passed(i, at)), e \in Upstream[j]
      PROVE  e \in Events /\ AllArrived(e, k)
  <2>1. PICK f \in Passed(i, at), v \in Waves : <<j, v>> \in Producers[f]
    BY DEF ProducersOf
  <2>2. f \in Events /\ <<<<j, v>>, k>> \in arrived[f]
    BY <2>1 DEF AllArrived
  <2> DEFINE a == <<<<j, v>>, k>>
  <2>3. e \in Upstream[a[1][1]] /\ a[2] = k
    BY <1>2
  <2> HIDE DEF a
  <2> QED
    BY <2>2, <2>3, UpstreamArrived DEF a, Delivered
<1> QED
  BY <1>1, <1>2

\* A task that stores has made an arrival of its own once it is behind.
LEMMA StoringTaskArrives ==
  ASSUME IInv, ~ abort, NEW i \in TaskIds, NEW k \in Nat \ {0}, Behind(i, k),
         \E e \in Events, v \in Waves : <<i, v>> \in Producers[e]
  PROVE  \E e \in Events : \E a \in arrived[e] : a[1][1] = i /\ a[2] = k
<1> USE DEF IInv
<1>1. PICK e \in Events, v \in Waves : <<i, v>> \in Producers[e]
  OBVIOUS
<1>2. Epoch(Owner(i)) \in Nat
  BY TaskFacts, EpochType
<1>3. k \in 1 .. Epoch(Owner(i))
  BY <1>2 DEF Behind
<1> DEFINE p == <<i, v>>
<1>4. p \in Producers[e] /\ p[1] = i
  BY <1>1
<1> HIDE DEF p
<1>5. <<p, k>> \in arrived[e]
  BY <1>3, <1>4 DEF NothingSkipped
<1>6. <<p, k>>[1][1] = i /\ <<p, k>>[2] = k
  BY <1>4
<1> QED
  BY <1>5, <1>6

\* What a workgroup past a site has waited for: the epochs ahead, and the
\* events of the waits in front of the site.
LEMMA PastWaited ==
  ASSUME IInv, ~ abort, NEW i \in TaskIds, NEW at \in SitesOf(i), NEW k \in Nat \ {0},
         Past(i, at, k), \E e \in Events, v \in Waves : <<i, v>> \in Producers[e],
         Chunks(Desc[i]) > 0 => BodyWaits(Desc[i]) = 0
  PROVE  /\ Settled(k - 1)
         /\ Behind(i, k) \/ (AtTask(i) /\ k = Epoch(Owner(i)))
         /\ Desc[i].wait_event # NoEvent => Delivered(Desc[i].wait_event, k)
         /\ \A n \in 1 .. PlaceOf(i, at)[2] : Delivered(BodyWaitEvent(Desc[i], n), k)
<1> USE DEF IInv
<1> DEFINE t == Desc[i]
           b == Owner(i)
           w == PlaceOf(i, at)[2]
<1>1. /\ b \in Blocks /\ t \in TaskDescriptor /\ CountsOnce(t) /\ BodyWaits(t) \in Nat
      /\ w \in 0 .. BodyWaits(t)
  BY TaskFacts, BodyWaitsType, SiteFacts DEF PlacesOf
<1>2. CASE Behind(i, k)
  <2>0. PICK e \in Events : \E a \in arrived[e] : a[1][1] = i /\ a[2] = k
    BY <1>2, StoringTaskArrives
  <2>1. PICK a \in arrived[e] : a[1][1] = i /\ a[2] = k
    BY <2>0
  <2>2. Settled(k - 1)
    BY <2>1 DEF Gates
  <2>3. \A f \in WaitsOf(t) : Delivered(f, k)
    BY <2>1 DEF WaitsOver
  <2>4. 1 .. w \subseteq 1 .. BodyWaits(t)
    BY <1>1
  <2> QED
    BY <1>2, <2>2, <2>3, <2>4 DEF WaitsOf
<1>3. CASE ~ Behind(i, k)
  <2>1. /\ AtTask(i) /\ k = Epoch(b) /\ slot[b] \in DOMAIN Queue[b] /\ Current(b) = t
    BY <1>3 DEF Past, PastHere, AtTask, Here, Current
  <2>2. PlaceOK(b) /\ wave[b] \in [Waves -> Nat] /\ inner[b] \in Nat /\ pc[b] \in PCs
    BY <1>1 DEF Places, TypeOK
  <2>3. pc[b] \in Started /\ w <= inner[b]
    <3>0. /\ \/ pc[b] = "publish"
             \/ at[1] = "bodywait" /\ (pc[b] = "body" \/ (pc[b] = "bodywait" /\ inner[b] > at[2]))
             \/ at[1] = "arrive" /\ pc[b] \in {"topk", "body"}
             \/ at[1] = "topk" /\ pc[b] = "body"
             \/ at[1] = "chunk" /\ wave[b][at[2]] > at[3]
    BY <1>3 DEF Past, PastHere
    <3>1. CASE at[1] = "chunk"
      <4>1. at[2] \in Waves /\ at[3] \in 0 .. Chunks(t) - 1 /\ Chunks(t) \in Int
        BY <1>1, <3>1, SiteFacts, ChunkTypes DEF Running
      <4>2. PlaceOf(i, at) = <<"body", BodyWaits(t)>>
        BY <3>1 DEF PlaceOf
      <4>3. BodyWaits(t) = 0 /\ ~ CountsTopk(t) /\ w = 0
        BY <1>1, <4>1, <4>2 DEF CountsOnce
      <4>4. pc[b] \notin {"boundary", "wait", "exit"}
        BY <2>2, <3>0, <3>1, <4>1 DEF PlaceOK
      <4> QED
        BY <2>1, <2>2, <4>3, <4>4 DEF PCs, Started, Running, Waiting, PlaceOK
    <3>2. CASE at[1] # "chunk"
      <4>1. PlaceOf(i, at) = at
        BY <3>2 DEF PlaceOf
      <4>2. w = at[2] /\ (at[1] \in {"arrive", "topk"} => at[2] = 0)
        BY <3>2, <4>1, SiteFacts
      <4>3. w <= BodyWaits(t) /\ w \in Nat
        BY <1>1
      <4> HIDE DEF w
      <4> QED
        BY <1>1, <2>1, <2>2, <3>0, <3>2, <4>2, <4>3 DEF PlaceOK, Started, Running
    <3> QED
      BY <3>1, <3>2
  <2>4. Settled(k - 1)
    BY <1>1, <2>1, <2>3 DEF Gates
  <2>5. 1 .. w \subseteq 1 .. inner[b]
    BY <1>1, <2>2, <2>3
  <2> QED
    BY <1>1, <2>1, <2>3, <2>4, <2>5 DEF WaitsOver
<1> QED
  BY <1>2, <1>3

\* All routers past their top-k means all have arrived for it.
LEMMA TopkArrived ==
  ASSUME IInv, ~ abort, StoresLandOnce, NEW i \in TaskIds, CountsTopk(Desc[i]), NEW k \in Nat \ {0},
         Done(i, <<"topk", 0>>, k)
  PROVE  Desc[i].local_event \in Events /\ AllArrived(Desc[i].local_event, k)
<1> USE DEF IInv
<1> DEFINE e == Desc[i].local_event
           at == <<"topk", 0>>
<1>1. e \in Events
  BY DescriptorAssumption DEF CountsTopk, BodyEvents
<1>2. ASSUME NEW p \in Producers[e] PROVE <<p, k>> \in arrived[e]
  <2> DEFINE j == p[1]
             c == Owner(j)
  <2>1. j \in Peers(i, at) /\ j \in TaskIds /\ p = <<j, p[2]>>
    BY <1>1, <1>2, ProducerFacts DEF StoresLandOnce
  <2>2. Past(j, at, k)
    BY <2>1 DEF Done
  <2>3. CountsTopk(Desc[j]) /\ Desc[j].local_event = e
    BY <2>1 DEF Peers
  <2>4. c \in Blocks /\ CountsOnce(Desc[j]) /\ Epoch(c) \in Nat
    BY <2>1, TaskFacts, EpochType
  <2>5. CASE Behind(j, k)
    <3>1. k \in 1 .. Epoch(c)
      BY <2>4, <2>5 DEF Behind
    <3> QED
      BY <1>1, <2>5, <3>1 DEF NothingSkipped
  <2>6. CASE ~ Behind(j, k)
    <3>1. AtTask(j) /\ k = Epoch(c) /\ pc[c] \in {"publish", "body"}
      BY <2>2, <2>6 DEF Past, PastHere
    <3>2. p[2] = 0
      <4>1. Desc[j].signal_event # e /\ 0 .. Chunks(Desc[j]) - 1 = {}
        BY <2>3, <2>4 DEF CountsOnce
      <4>2. p[2] \in Waves
        BY <1>1, ProducerFacts
      <4> QED
        BY <1>1, <2>1, <2>3, <4>1, <4>2, IsProducer DEF ChunkEvents
    <3>3. HasCounted(p, e)
      BY <2>3, <3>1, <3>2 DEF HasCounted
    <3> QED
      BY <1>1, <3>1, <3>3 DEF Kept
  <2> QED
    BY <2>5, <2>6
<1> QED
  BY <1>1, <1>2 DEF AllArrived

\* A site done has seen all the events its place is known to have waited for.
LEMMA DoneKnown ==
  ASSUME IInv, ~ abort, UpstreamIsJustified, StoresLandOnce,
         NEW i \in TaskIds, NEW at \in SitesOf(i), NEW k \in Nat \ {0},
         StoresFrom(i, at, 1) # {}, Done(i, at, k)
  PROVE  /\ Settled(k - 1)
         /\ Behind(i, k) \/ (AtTask(i) /\ k = Epoch(Owner(i)))
         /\ \A e \in Known[i][PlaceOf(i, at)] : AllArrived(e, k)
<1> DEFINE t == Desc[i]
           pl == PlaceOf(i, at)
<1>1. Past(i, at, k) /\ pl \in PlacesOf(i)
  BY SiteFacts DEF Done
<1>2. /\ \E e \in Events, v \in Waves : <<i, v>> \in Producers[e]
      /\ Chunks(t) > 0 => BodyWaits(t) = 0
  BY DEF StoresLandOnce
<1>3. /\ Settled(k - 1)
      /\ Behind(i, k) \/ (AtTask(i) /\ k = Epoch(Owner(i)))
      /\ t.wait_event # NoEvent => Delivered(t.wait_event, k)
      /\ \A n \in 1 .. pl[2] : Delivered(BodyWaitEvent(t, n), k)
  BY <1>1, <1>2, PastWaited
<1>4. ASSUME NEW e \in Passed(i, pl) PROVE e \in Events /\ AllArrived(e, k)
  <2>1. t \in TaskDescriptor /\ WaitsOf(t) \subseteq Events /\ BodyWaits(t) \in Nat
    BY TaskFacts, AwaitedFacts, BodyWaitsType
  <2>2. pl[2] \in 0 .. BodyWaits(t)
    BY <1>1, <2>1 DEF PlacesOf
  <2>3. CASE e \in {t.wait_event} \ {NoEvent}
    BY <1>3, <2>1, <2>3 DEF WaitsOf, Delivered
  <2>4. CASE e \in { BodyWaitEvent(t, n) : n \in 1 .. pl[2] }
    <3>1. PICK n \in 1 .. pl[2] : e = BodyWaitEvent(t, n)
      BY <2>4
    <3>2. n \in 1 .. BodyWaits(t)
      BY <2>1, <2>2
    <3> QED
      BY <1>3, <2>1, <3>1, <3>2 DEF WaitsOf, Delivered
  <2>5. CASE pl[1] = "topk" /\ e = t.local_event
    <3>1. at = <<"topk", 0>> /\ CountsTopk(t)
      <4>1. at[1] # "chunk"
        BY <2>5 DEF PlaceOf
      <4>2. pl = at
        BY <4>1 DEF PlaceOf
      <4> QED
        BY <2>5, <4>1, <4>2, SiteFacts
    <3> QED
      BY <2>5, <3>1, TopkArrived
  <2> QED
    BY <2>3, <2>4, <2>5 DEF Passed
<1> HIDE DEF pl
<1>5. \A e \in Known[i][pl] : AllArrived(e, k)
  BY <1>1, <1>4, KnownByPassed
<1> QED
  BY <1>3, <1>5 DEF pl

\* Every wave of the body has counted all its chunks.
AllChunks(b) == \A v \in Waves : wave[b][v] = Chunks(Current(b))

\* What a workgroup does in a step, unless a wait is given up: it stays at its
\* task, or goes on to the next.
Stays(b) ==
  \/ /\ pc[b] \in {"boundary", "wait"} /\ UNCHANGED <<inner, wave>>
     /\ pc'[b] \in {"boundary", "wait", BodyStart(Current(b))}
  \/ pc[b] \in Running /\ UNCHANGED <<pc, inner, wave>>
  \/ /\ pc[b] = "bodywait" /\ inner'[b] = inner[b] + 1 /\ UNCHANGED wave
     /\ pc'[b] = IF inner'[b] = BodyWaits(Current(b)) THEN "body" ELSE "bodywait"
  \/ pc[b] = "arrive" /\ pc'[b] \in {"topk", "body"} /\ ArriveRouter(b) /\ UNCHANGED <<inner, wave>>
  \/ pc[b] = "topk" /\ pc'[b] = "body" /\ UNCHANGED <<inner, wave>>
  \/ pc[b] = "body" /\ AllChunks(b) /\ pc'[b] = "publish" /\ UNCHANGED <<inner, wave>>
  \/ \E v \in Waves :
       /\ pc[b] = "body" /\ UNCHANGED <<pc, inner>>
       /\ wave[b][v] < Chunks(Current(b)) /\ wave' = [wave EXCEPT ![b][v] = @ + 1]

Moves(b) ==
  \/ pc[b] \in {"body", "publish"} /\ AllChunks(b) /\ Advance(b)
  \/ UNCHANGED <<tok, slot>> /\ Stays(b)

\* Every step of a workgroup is such a move, as long as nothing is aborted.
LEMMA WorkerMoves ==
  ASSUME IInv, ~ Smoke, NEW b \in Blocks, Worker(b), ~ abort'
  PROVE  Moves(b)
<1> USE DEF IInv
<1>0. pc \in [Blocks -> PCs] /\ inner \in [Blocks -> Nat] /\ ~ GiveUp(b)
  BY DEF TypeOK, GiveUp
<1>1. CASE PassBoundary(b)
  BY <1>0, <1>1 DEF PassBoundary, Goto, Moves, Stays
<1>2. CASE StartTask(b)
  BY <1>0, <1>2 DEF StartTask, Goto, Moves, Stays, BodyStart
<1>3. CASE PassBodyWait(b)
  BY <1>0, <1>3 DEF PassBodyWait, Goto, Moves, Stays
<1>4. CASE Checkpoint(b)
  BY <1>0, <1>4 DEF Checkpoint, Moves, Stays, Waiting, Running
<1>5. ASSUME NEW v \in Waves, SignalChunk(b, v) PROVE Moves(b)
  BY <1>0, <1>5 DEF SignalChunk, Moves, Stays
<1>6. CASE ArriveRouter(b)
  BY <1>0, <1>6 DEF ArriveRouter, Goto, Moves, Stays
<1>7. CASE PublishTopk(b)
  BY <1>0, <1>7 DEF PublishTopk, Goto, Moves, Stays
<1>8. CASE Signal(b)
  BY <1>0, <1>8 DEF Signal, Goto, Moves, Stays, AllChunks, Signallers
<1>9. CASE Publish(b)
  BY <1>0, <1>9 DEF Publish, Moves, Stays, AllChunks, Signallers, Places, PlaceOK
<1> QED
  BY <1>0, <1>1, <1>2, <1>3, <1>4, <1>5, <1>6, <1>7, <1>8, <1>9 DEF Worker

\* Another workgroup's step leaves what a workgroup is past as it is.
LEMMA OthersPast ==
  ASSUME IInv, NEW b \in Blocks, Worker(b), NEW i \in TaskIds, Owner(i) # b, NEW at, NEW k
  PROVE  Past(i, at, k)' <=> Past(i, at, k)
<1> DEFINE c == Owner(i)
<1>1. c \in Blocks /\ c # b
  BY TaskFacts
<1>2. /\ Epoch(c)' = Epoch(c) /\ (AtTask(i)' <=> AtTask(i)) /\ (Behind(i, k)' <=> Behind(i, k))
  BY OtherTasks DEF IInv
<1>3. pc'[c] = pc[c] /\ inner'[c] = inner[c] /\ wave'[c] = wave[c]
  BY <1>1, OthersStay DEF IInv
<1> QED
  BY <1>2, <1>3 DEF Past, PastHere

\* How a workgroup comes to be past a site.
Leaves(b, at) ==
  \/ at = <<pc[b], inner[b]>> /\ (pc'[b] # pc[b] \/ inner'[b] # inner[b])
  \/ at = <<"topk", 0>> /\ pc[b] = "arrive" /\ pc'[b] = "body"
  \/ /\ at[1] = "chunk" /\ pc[b] = "body" /\ UNCHANGED <<pc, inner, tok, slot>>
     /\ wave[b][at[2]] = at[3] /\ wave' = [wave EXCEPT ![b][at[2]] = @ + 1]

\* Within its task, a workgroup comes to be past the site it leaves, only.
LEMMA PastHereStep ==
  ASSUME NEW b \in Blocks, NEW t, t = Current(b), PlaceOK(b), Stays(b), UNCHANGED <<tok, slot>>, CountsOnce(t),
         BodyWaits(t) \in Nat, Chunks(t) \in Int, inner[b] \in Nat,
         wave \in [Blocks -> [Waves -> Nat]], NEW at,
         at[1] = "chunk" => at[2] \in Waves /\ at[3] \in 0 .. Chunks(t) - 1,
         at[1] # "chunk" =>
           /\ at = <<at[1], at[2]>> /\ at[1] \in Running /\ at[2] \in Nat
           /\ at[1] = "bodywait" => at[2] < BodyWaits(t)
           /\ at[1] \in {"arrive", "topk"} => CountsTopk(t) /\ at[2] = 0
           /\ at[1] = "body" => at[2] = BodyWaits(t)
  PROVE  PastHere(b, at)' <=> PastHere(b, at) \/ (pc[b] \in Running /\ Leaves(b, at))
<1> DEFINE Goal == PastHere(b, at)' <=> PastHere(b, at) \/ (pc[b] \in Running /\ Leaves(b, at))
<1>0. /\ CountsTopk(t) => BodyWaits(t) = 0 /\ Chunks(t) = 0
      /\ pc[b] \in {"boundary", "wait"} => inner[b] = 0 /\ \A v \in Waves : wave[b][v] = 0
      /\ pc[b] = "bodywait" => inner[b] < BodyWaits(t)
      /\ pc[b] \in {"arrive", "topk"} => CountsTopk(t) /\ inner[b] = 0
      /\ pc[b] = "body" => inner[b] = BodyWaits(t)
  BY DEF CountsOnce, PlaceOK
<1>1. CASE /\ pc[b] \in {"boundary", "wait"} /\ UNCHANGED <<inner, wave>>
           /\ pc'[b] \in {"boundary", "wait", BodyStart(t)}
  <2>1. /\ pc'[b] \in {"boundary", "wait", "bodywait", "arrive", "body"}
        /\ pc'[b] = "body" => BodyWaits(t) = 0 /\ ~ CountsTopk(t)
    BY <1>1 DEF BodyStart, CountsTopk
  <2>2. at[1] = "chunk" => wave[b][at[2]] = 0 /\ wave'[b][at[2]] = 0 /\ at[3] >= 0
    BY <1>0, <1>1
  <2>3. inner'[b] = 0 /\ inner[b] = 0
    BY <1>0, <1>1
  <2>4. ~ PastHere(b, at)
    BY <1>1, <2>2 DEF PastHere
  <2>5. ~ PastHere(b, at)'
    BY <2>1, <2>2, <2>3 DEF PastHere
  <2> QED
    BY <1>1, <2>4, <2>5 DEF Running
<1>2. CASE pc[b] \in Running /\ UNCHANGED <<pc, inner, wave>>
  <2>1. ~ Leaves(b, at)
    <3>1. at[1] = "chunk" /\ wave' = [wave EXCEPT ![b][at[2]] = @ + 1] => wave'[b][at[2]] # wave[b][at[2]]
      OBVIOUS
    <3> QED
      BY <1>2, <3>1 DEF Leaves
  <2> QED
    BY <1>2, <2>1 DEF PastHere
<1>3. CASE /\ pc[b] = "bodywait" /\ inner'[b] = inner[b] + 1 /\ UNCHANGED wave
           /\ pc'[b] = IF inner'[b] = BodyWaits(t) THEN "body" ELSE "bodywait"
  <2>1. CASE at[1] = "bodywait"
    <3>1. at[2] \in Nat /\ at[2] < BodyWaits(t) /\ at = <<"bodywait", at[2]>>
      BY <2>1
    <3>2. Leaves(b, at) <=> at[2] = inner[b]
      <4>1. at = <<pc[b], inner[b]>> <=> at[2] = inner[b]
        BY <1>3, <3>1
      <4> QED
        BY <1>3, <2>1, <4>1 DEF Leaves
    <3>3. PastHere(b, at) <=> inner[b] > at[2]
      BY <1>3, <2>1 DEF PastHere
    <3>4. PastHere(b, at)' <=> pc'[b] = "body" \/ (pc'[b] = "bodywait" /\ inner'[b] > at[2])
      BY <1>3, <2>1 DEF PastHere
    <3>5. PastHere(b, at)' <=> at[2] <= inner[b]
      <4>1. CASE inner'[b] = BodyWaits(t)
        BY <1>3, <3>1, <3>4, <4>1
      <4>2. CASE inner'[b] # BodyWaits(t)
        BY <1>3, <3>1, <3>4, <4>2
      <4> QED
        BY <4>1, <4>2
    <3>6. pc[b] \in Running
      BY <1>3 DEF Running
    <3> QED
      BY <3>1, <3>2, <3>3, <3>5, <3>6
  <2>2. CASE at[1] # "bodywait"
    BY <1>0, <1>3, <2>2 DEF PastHere, Leaves, Running
  <2> QED
    BY <2>1, <2>2
<1>4. CASE pc[b] = "arrive" /\ pc'[b] \in {"topk", "body"} /\ UNCHANGED <<inner, wave>>
  <2>1. at[1] \in {"arrive", "topk"} => at = <<at[1], 0>>
    OBVIOUS
  <2>2. at[1] # "bodywait"
    BY <1>0, <1>4
  <2> QED
    BY <1>0, <1>4, <2>1, <2>2 DEF PastHere, Leaves, Running
<1>5. CASE pc[b] = "topk" /\ pc'[b] = "body" /\ UNCHANGED <<inner, wave>>
  <2>1. at[1] \in {"arrive", "topk"} => at = <<at[1], 0>>
    OBVIOUS
  <2>2. at[1] # "bodywait"
    BY <1>0, <1>5
  <2> QED
    BY <1>0, <1>5, <2>1, <2>2 DEF PastHere, Leaves, Running
<1>6. CASE pc[b] = "body" /\ AllChunks(b) /\ pc'[b] = "publish" /\ UNCHANGED <<inner, wave>>
  <2>1. CASE at[1] = "chunk"
    BY <1>6, <2>1 DEF PastHere, AllChunks
  <2>2. CASE at[1] # "chunk"
    BY <1>0, <1>6, <2>2 DEF PastHere, Leaves, Running
  <2> QED
    BY <2>1, <2>2
<1>7. ASSUME NEW v \in Waves, pc[b] = "body", UNCHANGED <<pc, inner>>,
             wave[b][v] < Chunks(t), wave' = [wave EXCEPT ![b][v] = @ + 1]
      PROVE  Goal
  <2>1. CASE at[1] = "chunk" /\ at[2] = v
    <3>1. wave'[b][v] = wave[b][v] + 1 /\ wave[b][v] \in Nat
      BY <1>7
    <3>2. Leaves(b, at) <=> wave[b][v] = at[3]
      BY <1>7, <2>1 DEF Leaves
    <3>3. PastHere(b, at) <=> wave[b][v] > at[3]
      BY <1>7, <2>1 DEF PastHere
    <3>4. PastHere(b, at)' <=> wave'[b][v] > at[3]
      BY <1>7, <2>1 DEF PastHere
    <3>5. at[3] \in Int /\ pc[b] \in Running
      BY <1>7, <2>1 DEF Running
    <3> QED
      BY <3>1, <3>2, <3>3, <3>4, <3>5
  <2>2. CASE at[1] = "chunk" /\ at[2] # v
    <3>1. wave'[b][at[2]] = wave[b][at[2]] /\ wave'[b][v] = wave[b][v] + 1 /\ wave[b][v] \in Nat
      BY <1>7, <2>2
    <3>2. wave' = [wave EXCEPT ![b][at[2]] = @ + 1] => wave'[b][v] = wave[b][v]
      BY <1>7, <2>2
    <3>3. ~ Leaves(b, at)
      BY <1>7, <2>2, <3>1, <3>2 DEF Leaves
    <3> QED
      BY <1>7, <2>2, <3>1, <3>3 DEF PastHere
  <2>3. CASE at[1] # "chunk"
    BY <1>7, <2>3 DEF PastHere, Leaves
  <2> QED
    BY <2>1, <2>2, <2>3
<1> QED
  BY <1>1, <1>2, <1>3, <1>4, <1>5, <1>6, <1>7 DEF Stays

\* The same over its queue: the step out of a task is past all of its sites.
LEMMA PastStep ==
  ASSUME IInv, ~ Smoke, ~ abort', NEW b \in Blocks, Worker(b), NEW i \in TaskIds, Owner(i) = b,
         NEW at \in SitesOf(i), NEW k \in Nat
  PROVE  Past(i, at, k)' <=>
           \/ Past(i, at, k)
           \/ i = Here(b) /\ k = Epoch(b) /\ pc[b] \in Running /\ Leaves(b, at)
<1> USE DEF IInv
<1> DEFINE t == Current(b)
<1>0. /\ pc[b] # "exit" /\ epoch0' = epoch0 /\ Here(b) \in TaskIds /\ AtTask(Here(b))
      /\ t = Desc[Here(b)] /\ PlaceOK(b)
      /\ inner[b] \in Nat /\ wave \in [Blocks -> [Waves -> Nat]]
      /\ CountsOnce(t) /\ BodyWaits(t) \in Nat /\ Chunks(t) \in Int
  <2>1. pc[b] # "exit" /\ epoch0' = epoch0
    BY OthersStay
  <2>2. Here(b) \in TaskIds /\ AtTask(Here(b)) /\ t = Desc[Here(b)] /\ t \in TaskDescriptor
    BY <2>1, Standing
  <2>3. CountsOnce(t) /\ BodyWaits(t) \in Nat /\ Chunks(t) \in Int
    BY <2>2, TaskFacts, BodyWaitsType, ChunkTypes
  <2> QED
    BY <2>1, <2>2, <2>3 DEF Places, TypeOK
<1>1. Moves(b)
  BY WorkerMoves
<1>2. i # Here(b) => ~ AtTask(i)
  BY DEF AtTask
<1>3. ASSUME i = Here(b)
      PROVE  /\ at[1] = "chunk" => at[2] \in Waves /\ at[3] \in 0 .. Chunks(t) - 1
             /\ at[1] # "chunk" =>
                  /\ at = <<at[1], at[2]>> /\ at[1] \in Running /\ at[2] \in Nat
                  /\ at[1] = "bodywait" => at[2] < BodyWaits(t)
                  /\ at[1] \in {"arrive", "topk"} => CountsTopk(t) /\ at[2] = 0
                  /\ at[1] = "body" => at[2] = BodyWaits(t)
  <2>1. CASE at[1] = "chunk"
    BY <1>0, <1>3, <2>1, SiteFacts DEF Running
  <2>2. CASE at[1] # "chunk"
    <3>1. /\ at = <<at[1], at[2]>> /\ at[1] \in Running /\ at[2] \in 0 .. BodyWaits(t)
          /\ at[1] = "bodywait" => at[2] < BodyWaits(t)
          /\ at[1] \in {"arrive", "topk"} => CountsTopk(t) /\ at[2] = 0
          /\ at[1] = "body" => at[2] = BodyWaits(t)
      BY <1>0, <1>3, <2>2, SiteFacts
    <3> QED
      BY <1>0, <2>2, <3>1
  <2> QED
    BY <2>1, <2>2
<1>4. CASE Advance(b) /\ pc[b] \in {"body", "publish"} /\ AllChunks(b)
  <2>1. /\ pc'[b] \in {"exit", "boundary", "wait"} /\ wave'[b] = [v \in Waves |-> 0]
    BY <1>0, <1>4, AdvanceTo
  <2>2. Behind(i, k)' <=> Behind(i, k) \/ (i = Here(b) /\ k = Epoch(b))
    BY <1>0, <1>4, AdvanceBehind
  <2>3. Past(i, at, k)' <=> Behind(i, k)'
    <3>1. at[1] = "chunk" => wave'[b][at[2]] = 0 /\ at[3] \in Nat
      <4>1. Chunks(Desc[i]) \in Int
        BY TaskFacts, ChunkTypes
      <4>2. at[1] = "chunk" => at[2] \in Waves /\ at[3] \in 0 .. Chunks(Desc[i]) - 1
        BY SiteFacts DEF Running
      <4> QED
        BY <2>1, <4>1, <4>2
    <3>2. ~ PastHere(b, at)'
      BY <2>1, <3>1 DEF PastHere
    <3> QED
      BY <3>2 DEF Past
  <2>4. ASSUME i = Here(b), k = Epoch(b)
        PROVE  Past(i, at, k) \/ (pc[b] \in Running /\ Leaves(b, at))
    <3>1. CASE pc[b] = "publish"
      BY <1>0, <2>4, <3>1 DEF Past, PastHere
    <3>2. CASE pc[b] = "body"
      <4>1. CASE at[1] = "chunk"
        BY <1>0, <1>3, <1>4, <2>4, <4>1 DEF Past, PastHere, AllChunks
      <4>2. CASE at[1] \in {"bodywait", "arrive", "topk"}
        BY <1>0, <2>4, <3>2, <4>2 DEF Past, PastHere
      <4>3. CASE at[1] = "body"
        BY <1>0, <1>3, <2>1, <2>4, <3>2, <4>3 DEF Leaves, Running, PlaceOK
      <4> QED
        BY <1>3, <2>4, <4>1, <4>2, <4>3 DEF Running
    <3> QED
      BY <1>4, <3>1, <3>2
  <2> QED
    BY <1>2, <2>2, <2>3, <2>4 DEF Past
<1>5. CASE UNCHANGED <<tok, slot>> /\ Stays(b)
  <2>1. /\ Behind(i, k)' <=> Behind(i, k)
        /\ AtTask(i)' <=> AtTask(i)
        /\ Epoch(b)' = Epoch(b)
    BY <1>0, <1>5 DEF Behind, AtTask, Here, Epoch
  <2>2. ASSUME i = Here(b)
        PROVE  PastHere(b, at)' <=> PastHere(b, at) \/ (pc[b] \in Running /\ Leaves(b, at))
    BY <1>0, <1>1, <1>3, <1>5, <2>2, PastHereStep
  <2> QED
    BY <1>0, <1>2, <2>1, <2>2, Zenon DEF Past
<1> QED
  BY <1>1, <1>4, <1>5 DEF Moves

\* A router past the top-k has arrived for it.
LEMMA PeerArrived ==
  ASSUME IInv, ~ abort, NEW j \in TaskIds, CountsTopk(Desc[j]), NEW k \in Nat \ {0},
         Past(j, <<"topk", 0>>, k),
         NEW p \in Producers[Desc[j].local_event], p[1] = j
  PROVE  Desc[j].local_event \in Events /\ <<p, k>> \in arrived[Desc[j].local_event]
<1> USE DEF IInv
<1> DEFINE e == Desc[j].local_event
           c == Owner(j)
<1>1. e \in Events
  BY DescriptorAssumption DEF CountsTopk, BodyEvents
<1>2. c \in Blocks /\ CountsOnce(Desc[j]) /\ Epoch(c) \in Nat
  BY TaskFacts, EpochType
<1>3. CASE Behind(j, k)
  <2>1. k \in 1 .. Epoch(c)
    BY <1>2, <1>3 DEF Behind
  <2> QED
    BY <1>1, <1>3, <2>1 DEF NothingSkipped
<1>4. CASE ~ Behind(j, k)
  <2>1. AtTask(j) /\ k = Epoch(c) /\ pc[c] \in {"publish", "body"}
    BY <1>4 DEF Past, PastHere
  <2>2. p[2] = 0
    <3>1. Desc[j].signal_event # e /\ 0 .. Chunks(Desc[j]) - 1 = {}
      BY <1>2 DEF CountsOnce
    <3>2. p[2] \in Waves /\ p = <<j, p[2]>>
      BY <1>1, ProducerFacts
    <3> QED
      BY <1>1, <3>1, <3>2, IsProducer DEF ChunkEvents
  <2>3. HasCounted(p, e)
    BY <2>1, <2>2 DEF HasCounted
  <2> QED
    BY <1>1, <2>1, <2>3 DEF Kept
<1> QED
  BY <1>1, <1>3, <1>4

\* The converse of LastRouter: who completes a chiplet's arrivals is elected.
LEMMA LastIsElected ==
  ASSUME IInv, ~ abort, ElectionsAreExact, NEW b \in Blocks, Worker(b), ArriveRouter(b),
         NEW e, e = Current(b).local_event,
         \A p \in Producers[e] : p # <<Here(b), 0>> => <<p, Epoch(b)>> \in arrived[e]
  PROVE  pc'[b] = "topk"
<1> USE DEF IInv
<1> DEFINE t  == Current(b)
           k  == Epoch(b)
           p0 == <<Here(b), 0>>
           PO == Producers[e]
           a0 == <<p0, k>>
           B  == arrived[e] \cup {a0}
<1>1. /\ Here(b) \in TaskIds /\ t = Desc[Here(b)] /\ b[1] \in Xcds /\ t.xcd = b[1]
      /\ k \in Nat \ {0} /\ pc[b] = "arrive" /\ pc[b] # "exit" /\ CountsTopk(t)
      /\ Owner(Here(b)) = b
  BY Standing, BlockXcd, EpochType DEF ArriveRouter, Places, PlaceOK
<1>2. Adds(b, e, {0}) /\ e \in Events /\ p0 \in PO
  BY RouterAdds DEF Adds
<1>3. a0 \notin arrived[e]
  <2>1. NewArrivals(b, {0}) = {a0}
    BY DEF NewArrivals
  <2> QED
    BY <1>2, <2>1, Arrivals
<1>4. OfXcd(e, b[1]) /\ Cardinality(PO) = Cardinality(Workers)
  BY <1>1 DEF ElectionsAreExact
<1>5. ASSUME NEW p \in PO, NEW l \in 1 .. k PROVE <<p, l>> \in B
  <2>1. CASE l = k
    BY <2>1
  <2>2. CASE l # k
    <3> DEFINE c == Owner(p[1])
    <3>1. l < k /\ p[1] \in TaskIds
      BY <1>1, <1>2, <2>2, ProducerFacts
    <3>2. c \in Blocks /\ Epoch(c) \in Nat
      BY <3>1, TaskFacts, EpochType
    <3>3. k <= Epoch(c)
      <4>1. CASE p = p0
        BY <1>1, <4>1
      <4>2. CASE p # p0
        <5> DEFINE a == <<p, k>>
        <5>1. a \in arrived[e] /\ a[1] = p /\ a[2] = k
          BY <4>2
        <5> HIDE DEF a
        <5>2. Behind(p[1], k) \/ k = Epoch(c)
          BY <1>2, <5>1 DEF Fresh
        <5> QED
          BY <1>1, <3>2, <5>2 DEF Behind
      <4> QED
        BY <4>1, <4>2
    <3>4. Behind(p[1], l) /\ l \in 1 .. Epoch(c)
      BY <1>1, <3>1, <3>2, <3>3 DEF Behind
    <3> QED
      BY <1>2, <3>4 DEF NothingSkipped
  <2> QED
    BY <2>1, <2>2
<1>6. PO \X (1 .. k) \subseteq B
  BY <1>5
<1>7. ASSUME NEW a \in arrived[e] PROVE a \in PO \X (1 .. k)
  <2>1. a = <<a[1], a[2]>> /\ a[1] \in PO /\ a[2] \in Nat \ {0}
    BY <1>2, ArrivalType
  <2>2. a[2] <= k
    <3> SUFFICES ASSUME ~ (a[2] <= k) PROVE FALSE
      OBVIOUS
    <3>1. Settled(a[2] - 1)
      BY <1>2 DEF Gates
    <3>2. Settled(k)
      BY <1>1, <2>1, <3>1, SettledLess
    <3> QED
      BY <1>1, <3>2, NobodyBehind
  <2> QED
    BY <1>1, <2>1, <2>2
<1>8. B = PO \X (1 .. k)
  <2>1. a0 \in PO \X (1 .. k)
    BY <1>1, <1>2
  <2> QED
    BY <1>6, <1>7, <2>1
<1>9. Cardinality(B) = Cardinality(arrived[e]) + 1
  <2>1. IsFiniteSet(arrived[e])
    BY <1>2 DEF Fresh
  <2> QED
    BY <1>3, <2>1, FS_AddElement
<1>10. Cardinality(B) = k * Cardinality(PO)
  <2>1. IsFiniteSet(PO) /\ k \in Nat
    BY <1>1, <1>2, ProducerFacts
  <2> QED
    BY <1>8, <2>1, Rounds
<1>11. xcd_counters[b[1]][e] = Cardinality(arrived[e])
  <2>1. ArrivedOn(b[1], e) = arrived[e]
    BY <1>2, <1>4, ArrivalType DEF ArrivedOn, OfXcd
  <2> QED
    BY <1>1, <1>2, <2>1 DEF Counts
<1>12. LastArrival(b, e, Cardinality(Workers))
  BY <1>4, <1>9, <1>10, <1>11 DEF LastArrival
<1> QED
  BY <1>12 DEF ArriveRouter, Goto, TypeOK

\* What a site stores in epoch k it stores in the first one, under the first
\* epoch's name.
LEMMA StoresAnyEpoch ==
  ASSUME NEW i \in TaskIds, NEW at \in SitesOf(i), NEW k \in Nat, NEW o \in StoresFrom(i, at, k)
  PROVE  /\ OfEpoch(o[1], k)
         /\ \E o1 \in StoresFrom(i, at, 1) : o1[1] = AtFirst(o[1])
<1>1. CASE at[1] = "chunk"
  <2> DEFINE c == <<"h", Desc[i].xcd, Desc[i].worker, at[2], at[3]>>
             o1 == <<c, <<1, Desc[i].layer, "mid">>>>
  <2>1. o[1] = c /\ o1 \in StoresFrom(i, at, 1) /\ o1[1] = c
    BY <1>1 DEF StoresFrom
  <2>2. c[1] = "h"
    OBVIOUS
  <2> HIDE DEF o1
  <2> QED
    BY <2>1, <2>2 DEF OfEpoch, AtFirst
<1>2. CASE at[1] # "chunk"
  <2>1. at \in PlacesOf(i)
    BY <1>2, SiteFacts
  <2>2. StoresFrom(i, at, k) = OutputsAt(i, at[1], at[2], k)
        /\ StoresFrom(i, at, 1) = OutputsAt(i, at[1], at[2], 1)
    BY <1>2 DEF StoresFrom
  <2> QED
    BY <2>1, <2>2, OutputAnyEpoch
<1> QED
  BY <1>1, <1>2

\* Two sites of a task store to different cells.
LEMMA SitesApart ==
  ASSUME StoresLandOnce, NEW i \in TaskIds, NEW at \in SitesOf(i), NEW bt \in SitesOf(i), at # bt,
         NEW k \in Nat, NEW o \in StoresFrom(i, at, k), NEW u \in StoresFrom(i, bt, k)
  PROVE  o[1] # u[1]
<1>1. PICK o1 \in StoresFrom(i, at, 1) : o1[1] = AtFirst(o[1])
  BY StoresAnyEpoch
<1>2. PICK u1 \in StoresFrom(i, bt, 1) : u1[1] = AtFirst(u[1])
  BY StoresAnyEpoch
<1>3. { q[1] : q \in StoresFrom(i, at, 1) } \cap { q[1] : q \in StoresFrom(i, bt, 1) } = {}
  BY DEF StoresLandOnce
<1> QED
  BY <1>1, <1>2, <1>3

\* The chunks a body still owes are those of its chunk sites not yet passed.
LEMMA OwedSites ==
  ASSUME NEW i \in TaskIds, NEW f, NEW k, NEW o
  PROVE  o \in ChunksOwed(i, f, k) <=>
           \E v \in Waves, c \in 0 .. Chunks(Desc[i]) - 1 :
             c >= f[v] /\ o \in StoresFrom(i, <<"chunk", v, c>>, k)
<1> DEFINE Cell(v, c) == <<<<"h", Desc[i].xcd, Desc[i].worker, v, c>>, <<k, Desc[i].layer, "mid">>>>
<1>1. \A v, c : StoresFrom(i, <<"chunk", v, c>>, k) = { Cell(v, c) }
  BY DEF StoresFrom
<1>2. ASSUME o \in ChunksOwed(i, f, k)
      PROVE  \E v \in Waves, c \in 0 .. Chunks(Desc[i]) - 1 : c >= f[v] /\ o = Cell(v, c)
  <2>1. PICK q \in Waves \X (0 .. Chunks(Desc[i]) - 1) :
          q[2] >= f[q[1]] /\ o = Cell(q[1], q[2])
    BY <1>2, Zenon DEF ChunksOwed
  <2> QED
    BY <2>1
<1>3. ASSUME NEW v \in Waves, NEW c \in 0 .. Chunks(Desc[i]) - 1, c >= f[v], o = Cell(v, c)
      PROVE  o \in ChunksOwed(i, f, k)
  <2> DEFINE q == <<v, c>>
  <2>1. /\ q \in Waves \X (0 .. Chunks(Desc[i]) - 1) /\ q[2] >= f[q[1]]
        /\ o = Cell(q[1], q[2])
    BY <1>3
  <2> HIDE DEF q
  <2> QED
    BY <2>1, Zenon DEF ChunksOwed
<1>4. ASSUME NEW v \in Waves, NEW c \in 0 .. Chunks(Desc[i]) - 1
      PROVE  o \in StoresFrom(i, <<"chunk", v, c>>, k) <=> o = Cell(v, c)
  <2>1. StoresFrom(i, <<"chunk", v, c>>, k) = { Cell(v, c) }
    BY <1>1
  <2> QED
    BY <2>1
<1> HIDE DEF Cell
<1> QED
  BY <1>2, <1>3, <1>4

\* The routers of a chiplet store the same selection.
LEMMA PeersStoreAlike ==
  ASSUME StoresLandOnce, ElectionsAreExact, NEW i \in TaskIds, NEW at \in SitesOf(i),
         NEW n \in Peers(i, at), NEW k
  PROVE  StoresFrom(n, at, k) = StoresFrom(i, at, k)
<1>1. CASE at[1] # "topk"
  BY <1>1, PeerFacts
<1>2. CASE at[1] = "topk"
  <2>1. at = <<"topk", 0>> /\ n \in TaskIds /\ CountsTopk(Desc[n]) /\ CountsTopk(Desc[i])
        /\ Desc[n].local_event = Desc[i].local_event
    <3>1. i \in Peers(i, at)
      BY SiteFacts
    <3> QED
      BY <1>2, <3>1, PeerFacts
  <2>2. /\ Desc[n].kind = "NORM_ROUTER" /\ Desc[n].layer = Desc[i].layer
        /\ i \in Peers(i, at) /\ Desc[i].kind = "NORM_ROUTER"
    BY <2>1, SiteFacts DEF StoresLandOnce
  <2>3. Desc[n].xcd = Desc[i].xcd
    <3> DEFINE e == Desc[i].local_event
               p == <<n, 0>>
    <3>1. e \in Events
      BY <2>1, DescriptorAssumption DEF CountsTopk, BodyEvents
    <3>2. p \in Producers[e] /\ p[1] = n
      BY <2>1, <3>1, IsProducer, WaveSets
    <3>3. OfXcd(e, Desc[i].xcd)
      BY <2>1 DEF ElectionsAreExact
    <3> HIDE DEF p
    <3> QED
      BY <3>2, <3>3 DEF OfXcd
  <2>4. ASSUME NEW j \in {i, n}
        PROVE  StoresFrom(j, at, k) = { <<c[1], <<k, c[2], c[3]>>>> :
                                          c \in Mid({<<"topk", Desc[i].xcd>>}, Desc[i]) }
    <3>1. j \in TaskIds /\ Desc[j].kind = "NORM_ROUTER" /\ Desc[j].layer = Desc[i].layer
          /\ Desc[j].xcd = Desc[i].xcd /\ at[1] = "topk" /\ at[2] = 0
      BY <2>1, <2>2, <2>3
    <3>2. Stores[j]["topk"] = RouterWrites(Desc[j], "topk")
      BY <3>1 DEF Stores, WrittenBy, Running
    <3>3. RouterWrites(Desc[j], "topk") = Mid({<<"topk", Desc[i].xcd>>}, Desc[i])
      BY <3>1 DEF RouterWrites, Mid
    <3> QED
      BY <3>1, <3>2, <3>3 DEF StoresFrom, OutputsAt
  <2> QED
    BY <2>4
<1> QED
  BY <1>1, <1>2

\* A body at place <<p, n>> whose waves have counted f chunks still owes a site.
Owes(p, n, f, at) == at = <<p, n>> \/ (at[1] = "chunk" /\ at[3] >= f[at[2]])

\* What a body still has to store is what the sites it still owes store.
LEMMA OwedStores ==
  ASSUME NEW i \in TaskIds, NEW p, NEW n, <<p, n>> \in PlacesOf(i), NEW f, NEW k, NEW o
  PROVE  o \in OutputsAt(i, p, n, k) \cup ChunksOwed(i, f, k) <=>
           \E at \in SitesOf(i) : Owes(p, n, f, at) /\ o \in StoresFrom(i, at, k)
<1> DEFINE at0 == <<p, n>>
<1>1. at0 \in SitesOf(i) /\ p \in Running /\ StoresFrom(i, at0, k) = OutputsAt(i, p, n, k)
  <2>1. at0 \in SitesOf(i) /\ at0[1] = p /\ at0[2] = n
    BY DEF SitesOf
  <2>2. p \in Running
    BY DEF PlacesOf, Running
  <2> HIDE DEF at0
  <2> QED
    BY <2>1, <2>2 DEF StoresFrom, Running
<1>2. ASSUME NEW at \in SitesOf(i), Owes(p, n, f, at), o \in StoresFrom(i, at, k)
      PROVE  o \in OutputsAt(i, p, n, k) \cup ChunksOwed(i, f, k)
  <2>1. CASE at = at0
    BY <1>1, <1>2, <2>1
  <2>2. CASE at[1] = "chunk" /\ at[3] >= f[at[2]]
    <3>1. /\ at[2] \in Waves /\ at[3] \in 0 .. Chunks(Desc[i]) - 1
          /\ at = <<"chunk", at[2], at[3]>>
      BY <2>2, SiteFacts DEF Running
    <3> QED
      BY <1>2, <2>2, <3>1, OwedSites
  <2> QED
    BY <1>2, <2>1, <2>2 DEF Owes
<1>3. ASSUME NEW v \in Waves, NEW c \in 0 .. Chunks(Desc[i]) - 1, c >= f[v],
             o \in StoresFrom(i, <<"chunk", v, c>>, k)
      PROVE  \E at \in SitesOf(i) : Owes(p, n, f, at) /\ o \in StoresFrom(i, at, k)
  <2> DEFINE at == <<"chunk", v, c>>
  <2>1. at \in SitesOf(i) /\ at[1] = "chunk" /\ at[3] >= f[at[2]] /\ o \in StoresFrom(i, at, k)
    BY <1>3 DEF SitesOf
  <2> HIDE DEF at
  <2> QED
    BY <2>1 DEF Owes
<1>4. o \in OutputsAt(i, p, n, k) =>
        \E at \in SitesOf(i) : Owes(p, n, f, at) /\ o \in StoresFrom(i, at, k)
  BY <1>1 DEF Owes
<1> QED
  BY <1>2, <1>3, <1>4, OwedSites

\* A router counts once on the event of its chiplet's top-k.
LEMMA TopkProducer ==
  ASSUME NEW j \in TaskIds, CountsTopk(Desc[j]), NEW p \in Producers[Desc[j].local_event], p[1] = j
  PROVE  Desc[j].local_event \in Events /\ p = <<j, 0>>
<1> DEFINE e == Desc[j].local_event
<1>1. e \in Events
  BY DescriptorAssumption DEF CountsTopk, BodyEvents
<1>2. Desc[j].signal_event # e /\ 0 .. Chunks(Desc[j]) - 1 = {}
  BY TaskFacts DEF CountsOnce
<1>3. p[2] \in Waves /\ p = <<j, p[2]>>
  BY <1>1, ProducerFacts
<1> QED
  BY <1>1, <1>2, <1>3, IsProducer DEF ChunkEvents

\* How a step of any workgroup changes what is past.
LEMMA WorkerPast ==
  ASSUME IInv, ~ Smoke, ~ abort', NEW b \in Blocks, Worker(b), NEW i \in TaskIds,
         NEW at \in SitesOf(i), NEW k \in Nat
  PROVE  Past(i, at, k)' <=>
           \/ Past(i, at, k)
           \/ i = Here(b) /\ k = Epoch(b) /\ pc[b] \in Running /\ Leaves(b, at)
<1>1. CASE Owner(i) = b
  BY <1>1, PastStep
<1>2. CASE Owner(i) # b
  <2>1. i # Here(b)
    BY <1>2, OthersStay, Standing DEF IInv
  <2> QED
    BY <1>2, <2>1, OthersPast
<1> QED
  BY <1>1, <1>2

\* How a site comes to be done: by the step of a workgroup at it.
LEMMA Completing ==
  ASSUME IInv, ~ Smoke, ~ abort', StoresLandOnce, ElectionsAreExact, NEW b \in Blocks, Worker(b),
         NEW i \in TaskIds, NEW at \in SitesOf(i), NEW k \in Nat \ {0},
         ~ Done(i, at, k), Done(i, at, k)'
  PROVE  /\ Here(b) \in Peers(i, at) /\ k = Epoch(b) /\ pc[b] \in Running
         /\ Leaves(b, at) /\ (at[1] = "topk" => pc[b] = "topk")
<1>1. PICK n \in Peers(i, at) : ~ Past(n, at, k)
  BY DEF Done
<1>2. /\ \A j \in Peers(i, at) : Past(j, at, k)'
      /\ \A j \in Peers(i, at) : j \in TaskIds /\ at \in SitesOf(j)
      /\ ~ abort
  BY PeerFacts, OthersStay DEF Done, IInv
<1>3. n = Here(b) /\ k = Epoch(b) /\ pc[b] \in Running /\ Leaves(b, at)
  BY <1>1, <1>2, WorkerPast
<1>4. ASSUME at = <<"topk", 0>>, pc[b] = "arrive", pc'[b] = "body" PROVE FALSE
  <2> DEFINE e == Current(b).local_event
  <2>1. ArriveRouter(b)
    <3>1. Moves(b)
      BY WorkerMoves
    <3> QED
      BY <1>4, <3>1 DEF Moves, Stays
  <2>2. /\ n \in TaskIds /\ CountsTopk(Desc[n]) /\ Peers(n, at) = Peers(i, at)
        /\ Current(b) = Desc[n]
    BY <1>2, <1>3, <1>4, PeerFacts DEF Current, Here
  <2>3. ASSUME NEW p \in Producers[e], p # <<n, 0>> PROVE <<p, k>> \in arrived[e]
    <3> DEFINE j == p[1]
    <3>1. j \in Peers(i, at)
      BY <1>4, <2>2, <2>3 DEF StoresLandOnce
    <3>2. j # n
      BY <2>2, <2>3, TopkProducer
    <3>3. j \in TaskIds /\ CountsTopk(Desc[j]) /\ Desc[j].local_event = e
      BY <1>4, <2>2, <3>1, PeerFacts
    <3>4. Past(j, at, k)
      BY <1>2, <1>3, <3>1, <3>2, WorkerPast
    <3> QED
      BY <1>2, <1>4, <2>3, <3>3, <3>4, PeerArrived
  <2> QED
    BY <1>2, <1>3, <1>4, <2>1, <2>3, LastIsElected
<1>5. at[1] = "topk" => pc[b] = "topk"
  <2>1. at[1] = "topk" => at = <<"topk", 0>>
    BY SiteFacts
  <2> QED
    BY <1>3, <1>4, <2>1 DEF Leaves
<1> QED
  BY <1>1, <1>3, <1>5

\* ... and by then all that its place is known to have waited for has arrived.
LEMMA CompletingKnows ==
  ASSUME IInv, ~ Smoke, ~ abort', StoresLandOnce, ElectionsAreExact, UpstreamIsJustified, TopkHeld,
         NEW b \in Blocks, Worker(b), NEW i \in TaskIds, NEW at \in SitesOf(i), NEW k \in Nat \ {0},
         ~ Done(i, at, k), Done(i, at, k)'
  PROVE  /\ Behind(i, k) \/ (AtTask(i) /\ k = Epoch(Owner(i)))
         /\ \A e \in Known[i][PlaceOf(i, at)] : AllArrived(e, k)
<1> USE DEF IInv
<1>1. /\ Here(b) \in Peers(i, at) /\ k = Epoch(b) /\ pc[b] \in Running
      /\ Leaves(b, at) /\ (at[1] = "topk" => pc[b] = "topk")
  BY Completing
<1>2. pc[b] # "exit" /\ Here(b) \in TaskIds /\ Owner(Here(b)) = b /\ AtTask(Here(b))
  BY <1>1, Standing DEF Running
<1>3. CASE at[1] # "topk"
  <2>1. i = Here(b)
    BY <1>1, <1>3, PeerFacts
  <2>2. PlaceOf(i, at) = <<pc[b], inner[b]>>
    <3>1. CASE at[1] = "chunk"
      <4>1. pc[b] = "body"
        BY <1>1, <1>3, <3>1 DEF Leaves, Running
      <4>2. inner[b] = BodyWaits(Desc[i])
        BY <2>1, <4>1 DEF Places, PlaceOK, Current, Here
      <4> QED
        BY <3>1, <4>1, <4>2 DEF PlaceOf
    <3>2. CASE at[1] # "chunk"
      <4>1. at = <<pc[b], inner[b]>>
        BY <1>1, <1>3, <3>2 DEF Leaves
      <4> QED
        BY <3>2, <4>1 DEF PlaceOf
    <3> QED
      BY <3>1, <3>2
  <2>3. \A e \in Known[i][PlaceOf(i, at)] : AllArrived(e, k)
    BY <1>1, <2>1, <2>2, KnownArrived
  <2> QED
    BY <1>1, <1>2, <2>1, <2>3
<1>4. CASE at[1] = "topk"
  <2> DEFINE e == Desc[i].local_event
             p == <<i, 0>>
             a == <<p, k>>
  <2>1. /\ at = <<"topk", 0>> /\ CountsTopk(Desc[i]) /\ e = Current(b).local_event
        /\ at \in PlacesOf(i) /\ PlaceOf(i, at) = at
    <3>1. i \in Peers(i, at)
      BY SiteFacts
    <3>2. at = <<"topk", 0>> /\ CountsTopk(Desc[i]) /\ at \in PlacesOf(i)
      BY <1>4, <3>1, PeerFacts
    <3>3. e = Current(b).local_event
      BY <1>1, <1>4, PeerFacts DEF Current, Here
    <3> QED
      BY <1>4, <3>2, <3>3 DEF PlaceOf
  <2>2. AllArrived(e, k)
    BY <1>1, <1>4, <2>1 DEF TopkHeld
  <2>3. e \in Events /\ p \in Producers[e]
    <3>1. e \in Events
      BY <2>1, DescriptorAssumption DEF CountsTopk, BodyEvents
    <3> QED
      BY <2>1, <3>1, IsProducer, WaveSets
  <2>4. a \in arrived[e] /\ a[1][1] = i /\ a[2] = k
    BY <2>2, <2>3 DEF AllArrived
  <2> HIDE DEF a, e
  <2>5. Behind(i, k) \/ (AtTask(i) /\ k = Epoch(Owner(i)))
    BY <2>3, <2>4 DEF Fresh
  <2>6. \A f \in WaitsOf(Desc[i]) : Delivered(f, k)
    BY <2>3, <2>4 DEF WaitsOver
  <2>7. \A f \in Passed(i, at) : f \in Events /\ AllArrived(f, k)
    <3>1. Passed(i, at) \subseteq WaitsOf(Desc[i]) \cup {e}
      <4>1. 1 .. at[2] = {}
        BY <2>1
      <4> QED
        BY <2>1, <4>1 DEF Passed, WaitsOf, e
    <3>2. WaitsOf(Desc[i]) \subseteq Events
      BY AwaitedFacts
    <3> QED
      BY <2>2, <2>3, <2>6, <3>1, <3>2 DEF Delivered
  <2>8. \A f \in Known[i][at] : AllArrived(f, k)
    BY <2>1, <2>7, KnownByPassed
  <2> QED
    BY <2>1, <2>5, <2>8
<1> QED
  BY <1>3, <1>4

\* Where a workgroup is in a body after a step that keeps it at its task.
LEMMA StaysAtPlace ==
  ASSUME IInv, ~ Smoke, NEW b \in Blocks, pc[b] \in Running, UNCHANGED <<tok, slot>>, Stays(b),
         pc'[b] \in Running
  PROVE  <<pc'[b], inner'[b]>> \in PlacesOf(Here(b))
<1> DEFINE t == Desc[Here(b)]
<1>1. /\ t = Current(b) /\ BodyWaits(t) \in Nat /\ inner[b] \in Nat /\ CountsOnce(t) /\ PlaceOK(b)
  BY Standing, BodyWaitsType, TaskFacts DEF Running, TypeOK, IInv, Places
<1>2. <<pc[b], inner[b]>> \in PlacesOf(Here(b))
  BY AtPlace DEF IInv
<1>3. <<"body", BodyWaits(t)>> \in PlacesOf(Here(b))
  BY DEF PlacesOf
<1>4. CASE UNCHANGED <<pc, inner>>
  BY <1>2, <1>4
<1>5. CASE /\ pc[b] = "bodywait" /\ inner'[b] = inner[b] + 1
           /\ pc'[b] = IF inner'[b] = BodyWaits(t) THEN "body" ELSE "bodywait"
  <2>1. CASE inner'[b] = BodyWaits(t)
    BY <1>3, <1>5, <2>1
  <2>2. CASE inner'[b] # BodyWaits(t)
    <3>1. inner[b] < BodyWaits(t)
      BY <1>1, <1>5 DEF PlaceOK
    <3>2. inner'[b] \in 0 .. BodyWaits(t) - 1 /\ pc'[b] = "bodywait"
      BY <1>1, <1>5, <2>2, <3>1
    <3> QED
      BY <3>2 DEF PlacesOf
  <2> QED
    BY <2>1, <2>2
<1>6. CASE pc[b] \in {"arrive", "topk"} /\ pc'[b] \in {"topk", "body"} /\ UNCHANGED inner
  <2>1. CountsTopk(t) /\ inner'[b] = 0 /\ BodyWaits(t) = 0
    BY <1>1, <1>6 DEF PlaceOK, CountsOnce
  <2> QED
    BY <1>3, <1>6, <2>1 DEF PlacesOf
<1>7. pc[b] \notin {"boundary", "wait"} /\ pc'[b] # "publish"
  BY DEF Running
<1> QED
  BY <1>1, <1>4, <1>5, <1>6, <1>7 DEF Stays

\* What a body has yet to store, by site.
LEMMA OutputsNow ==
  ASSUME IInv, NEW b \in Blocks, NEW o
  PROVE  o \in Outputs(b) <=>
           /\ pc[b] \in Running
           /\ \E at \in SitesOf(Here(b)) :
                Owes(pc[b], inner[b], wave[b], at) /\ o \in StoresFrom(Here(b), at, Epoch(b))
<1>1. CASE pc[b] \notin Running
  BY <1>1 DEF Outputs
<1>2. CASE pc[b] \in Running
  <2>1. Here(b) \in TaskIds /\ <<pc[b], inner[b]>> \in PlacesOf(Here(b))
    BY <1>2, Standing, AtPlace DEF IInv, Running
  <2>2. Outputs(b) = OutputsAt(Here(b), pc[b], inner[b], Epoch(b))
                       \cup ChunksOwed(Here(b), wave[b], Epoch(b))
    BY <1>2 DEF Outputs, Here
  <2> QED
    BY <1>2, <2>1, <2>2, OwedStores
<1> QED
  BY <1>1, <1>2

\* What it still owes after a step.
LEMMA OutputsNext ==
  ASSUME IInv, ~ Smoke, ~ abort', NEW b \in Blocks, Worker(b), pc[b] \in Running, NEW o
  PROVE  o \in Outputs(b)' <=>
           /\ UNCHANGED <<tok, slot>> /\ pc'[b] \in Running
           /\ \E at \in SitesOf(Here(b)) :
                Owes(pc'[b], inner'[b], wave'[b], at) /\ o \in StoresFrom(Here(b), at, Epoch(b))
<1>1. Moves(b) /\ pc[b] # "exit" /\ epoch0' = epoch0
  BY WorkerMoves, OthersStay DEF IInv
<1>2. CASE Advance(b)
  <2>1. pc'[b] \notin Running
    BY <1>1, <1>2, AdvanceTo DEF IInv, Running
  <2> QED
    BY <2>1 DEF Outputs
<1>3. CASE UNCHANGED <<tok, slot>> /\ Stays(b)
  <2>1. CASE pc'[b] \notin Running
    BY <2>1 DEF Outputs
  <2>2. CASE pc'[b] \in Running
    <3>1. Here(b) \in TaskIds /\ <<pc'[b], inner'[b]>> \in PlacesOf(Here(b))
      BY <1>1, <1>3, <2>2, Standing, StaysAtPlace DEF IInv
    <3>2. Epoch(b)' = Epoch(b) /\ Here(b)' = Here(b)
      BY <1>1, <1>3 DEF Epoch, Here
    <3>3. Outputs(b)' = OutputsAt(Here(b), pc'[b], inner'[b], Epoch(b))
                         \cup ChunksOwed(Here(b), wave'[b], Epoch(b))
      BY <2>2, <3>2 DEF Outputs, Here
    <3> QED
      BY <1>3, <2>2, <3>1, <3>3, OwedStores
  <2> QED
    BY <2>1, <2>2
<1> QED
  BY <1>1, <1>2, <1>3 DEF Moves

\* What a site stores lands in the step that completes it ...
LEMMA StoresLand ==
  ASSUME IInv, ~ Smoke, ~ abort', StoresLandOnce, ElectionsAreExact, NEW b \in Blocks, Worker(b),
         NEW i \in TaskIds, NEW at \in SitesOf(i), NEW k \in Nat \ {0},
         ~ Done(i, at, k), Done(i, at, k)', NEW o \in StoresFrom(i, at, k)
  PROVE  o \in Landed(b)
<1> DEFINE n == Here(b)
<1>1. /\ n \in Peers(i, at) /\ k = Epoch(b) /\ pc[b] \in Running
      /\ Leaves(b, at) /\ (at[1] = "topk" => pc[b] = "topk")
  BY Completing
<1>2. n \in TaskIds /\ at \in SitesOf(n) /\ o \in StoresFrom(n, at, Epoch(b))
  BY <1>1, PeerFacts, PeersStoreAlike
<1>3. \/ at = <<pc[b], inner[b]>> /\ at[1] # "chunk" /\ (pc'[b] # pc[b] \/ inner'[b] # inner[b])
      \/ /\ at[1] = "chunk" /\ wave[b][at[2]] = at[3] /\ wave'[b][at[2]] = at[3] + 1
         /\ at[3] \in Int /\ pc'[b] # "chunk"
  <2>1. CASE at = <<pc[b], inner[b]>> /\ (pc'[b] # pc[b] \/ inner'[b] # inner[b])
    BY <1>1, <2>1 DEF Running
  <2>2. CASE at = <<"topk", 0>> /\ pc[b] = "arrive"
    BY <1>1, <2>2
  <2>3. CASE /\ at[1] = "chunk" /\ wave[b][at[2]] = at[3]
             /\ wave' = [wave EXCEPT ![b][at[2]] = @ + 1] /\ UNCHANGED pc
    <3>1. at[2] \in Waves /\ at[3] \in 0 .. Chunks(Desc[n]) - 1 /\ Chunks(Desc[n]) \in Int
      BY <1>2, <2>3, SiteFacts, TaskFacts, ChunkTypes DEF Running
    <3>2. wave \in [Blocks -> [Waves -> Nat]]
      BY DEF IInv, TypeOK
    <3> QED
      BY <1>1, <2>3, <3>1, <3>2 DEF Running
  <2> QED
    BY <1>1, <2>1, <2>2, <2>3 DEF Leaves
<1>4. Owes(pc[b], inner[b], wave[b], at)
  BY <1>3 DEF Owes
<1>5. o \in Outputs(b)
  BY <1>1, <1>2, <1>4, OutputsNow
<1>6. ~ Owes(pc'[b], inner'[b], wave'[b], at)
  <2>1. CASE at = <<pc[b], inner[b]>> /\ at[1] # "chunk" /\ (pc'[b] # pc[b] \/ inner'[b] # inner[b])
    BY <2>1 DEF Owes
  <2>2. CASE /\ at[1] = "chunk" /\ wave[b][at[2]] = at[3] /\ wave'[b][at[2]] = at[3] + 1
             /\ at[3] \in Int /\ pc'[b] # "chunk"
    <3>1. at # <<pc'[b], inner'[b]>>
      BY <2>2
    <3>2. ~ (at[3] >= wave'[b][at[2]])
      BY <2>2
    <3> QED
      BY <3>1, <3>2 DEF Owes
  <2> QED
    BY <1>3, <2>1, <2>2
<1>7. ASSUME NEW bt \in SitesOf(n), Owes(pc'[b], inner'[b], wave'[b], bt),
             o \in StoresFrom(n, bt, Epoch(b))
      PROVE  FALSE
  BY <1>1, <1>2, <1>6, <1>7, SitesApart
<1>8. o \notin Outputs(b)'
  BY <1>1, <1>7, OutputsNext
<1> QED
  BY <1>5, <1>8 DEF Landed

\* ... and nothing else does.
LEMMA LandedIsStored ==
  ASSUME IInv, ~ Smoke, ~ abort', TopkHeld, NEW b \in Blocks, Worker(b), NEW o \in Landed(b)
  PROVE  /\ pc[b] \in Running
         /\ \E n \in TaskIds, k \in Nat \ {0} :
              /\ n = Here(b) /\ k = Epoch(b)
              /\ \E at \in SitesOf(n) :
                   o \in StoresFrom(n, at, k) /\ ~ Done(n, at, k) /\ Done(n, at, k)'
<1> USE DEF IInv
<1>0. pc[b] # "exit" /\ Here(b) \in TaskIds /\ Epoch(b) \in Nat \ {0}
  BY Standing, EpochType, OthersStay
<1> PICK n \in TaskIds : n = Here(b)
  BY <1>0
<1> PICK k \in Nat \ {0} : k = Epoch(b)
  BY <1>0
<1> DEFINE t == Current(b)
<1>1. o \in Outputs(b) /\ o \notin Outputs(b)'
  BY DEF Landed
<1>2. PICK at \in SitesOf(n) : Owes(pc[b], inner[b], wave[b], at) /\ o \in StoresFrom(n, at, k)
  BY <1>1, OutputsNow
<1>3. /\ pc[b] \in Running /\ pc[b] # "exit"
      /\ n \in TaskIds /\ Owner(n) = b /\ AtTask(n) /\ ~ Behind(n, k) /\ t = Desc[n]
      /\ k \in Nat \ {0} /\ wave \in [Blocks -> [Waves -> Nat]] /\ inner[b] \in Nat
      /\ Chunks(t) \in Int /\ ~ abort /\ epoch0' = epoch0
  <2>1. pc[b] \in Running /\ pc[b] # "exit"
    BY <1>1, OutputsNow DEF Running
  <2>2. n \in TaskIds /\ Owner(n) = b /\ AtTask(n) /\ ~ Behind(n, k) /\ t = Desc[n] /\ k \in Nat \ {0}
    BY <2>1, Standing, EpochType
  <2> QED
    BY <2>1, <2>2, TaskFacts, ChunkTypes, OthersStay DEF TypeOK
<1>4. at[1] = "chunk" => at[2] \in Waves /\ at[3] \in 0 .. Chunks(t) - 1
  BY <1>3, SiteFacts DEF Running
<1>5. ~ PastHere(b, at)
  <2>1. CASE at = <<pc[b], inner[b]>>
    BY <1>3, <2>1 DEF PastHere, Running
  <2>2. CASE at[1] = "chunk" /\ at[3] >= wave[b][at[2]]
    BY <1>3, <1>4, <2>2 DEF PastHere, Running
  <2> QED
    BY <1>2, <2>1, <2>2 DEF Owes
<1>6. Moves(b)
  BY WorkerMoves
<1>7. Leaves(b, at)
  <2>1. CASE AllChunks(b) /\ pc'[b] \notin Running
    <3>1. at[1] # "chunk"
      <4>1. at[1] = "chunk" => at[3] < wave[b][at[2]]
        BY <1>3, <1>4, <2>1 DEF AllChunks
      <4> QED
        BY <1>3, <1>4, <1>5, <4>1 DEF PastHere
    <3> QED
      BY <1>2, <1>3, <2>1, <3>1 DEF Leaves, Owes
  <2>2. CASE UNCHANGED <<tok, slot>> /\ Stays(b) /\ pc'[b] \in Running
    <3>1. ~ Owes(pc'[b], inner'[b], wave'[b], at)
      BY <1>1, <1>2, <1>3, <2>2, OutputsNext
    <3>2. CASE at = <<pc[b], inner[b]>>
      BY <3>1, <3>2 DEF Leaves, Owes
    <3>3. CASE at[1] = "chunk" /\ at[3] >= wave[b][at[2]]
      <4>1. ~ (at[3] >= wave'[b][at[2]])
        BY <3>1, <3>3 DEF Owes
      <4>2. wave' # wave
        BY <3>3, <4>1
      <4>3. PICK v \in Waves :
              /\ pc[b] = "body" /\ UNCHANGED <<pc, inner>>
              /\ wave[b][v] < Chunks(t) /\ wave' = [wave EXCEPT ![b][v] = @ + 1]
        BY <2>2, <4>2 DEF Stays
      <4>4. at[2] = v /\ wave'[b][v] = wave[b][v] + 1
        BY <1>3, <1>4, <3>3, <4>1, <4>3
      <4>5. wave[b][at[2]] = at[3]
        <5>1. wave[b][v] \in Nat /\ at[3] \in Int
          BY <1>3, <1>4, <3>3
        <5>2. at[3] >= wave[b][v] /\ ~ (at[3] >= wave[b][v] + 1)
          BY <3>3, <4>1, <4>4
        <5>3. at[3] = wave[b][v]
          BY <5>1, <5>2
        <5> QED
          BY <4>4, <5>3
      <4> QED
        BY <2>2, <3>3, <4>3, <4>4, <4>5 DEF Leaves
    <3> QED
      BY <1>2, <3>2, <3>3 DEF Owes
  <2>3. CASE Advance(b) /\ AllChunks(b)
    <3>1. pc'[b] \notin Running
      BY <1>3, <2>3, AdvanceTo DEF Running
    <3> QED
      BY <2>1, <2>3, <3>1
  <2>4. CASE UNCHANGED <<tok, slot>> /\ Stays(b) /\ pc'[b] \notin Running
    <3>1. AllChunks(b)
      BY <1>3, <2>4 DEF Stays, Running
    <3> QED
      BY <2>1, <2>4, <3>1
  <2> QED
    BY <1>6, <2>2, <2>3, <2>4 DEF Moves
<1>8. Past(n, at, k)'
  BY <1>3, <1>7, WorkerPast
<1>9. ~ Past(n, at, k)
  BY <1>3, <1>5 DEF Past
<1>10. n \in Peers(n, at)
  BY <1>3, SiteFacts
<1>11. ASSUME NEW j \in Peers(n, at), j # n PROVE Past(j, at, k)
  <2> DEFINE e == t.local_event
             c == Owner(j)
             p == <<j, 0>>
             a == <<p, k>>
  <2>1. at[1] = "topk"
    BY <1>11 DEF Peers
  <2>2. at = <<"topk", 0>> /\ j \in TaskIds /\ CountsTopk(Desc[j]) /\ Desc[j].local_event = e
    BY <1>3, <1>11, <2>1, PeerFacts
  <2>3. pc[b] = "topk"
    BY <1>2, <2>1 DEF Owes
  <2>4. AllArrived(e, k)
    BY <2>3 DEF TopkHeld
  <2>5. e \in Events /\ p \in Producers[e]
    <3>1. e \in Events
      BY <2>2, DescriptorAssumption DEF CountsTopk, BodyEvents
    <3> QED
      BY <2>2, <3>1, IsProducer, WaveSets
  <2>6. a \in arrived[e] /\ a[1][1] = j /\ a[2] = k /\ a[1] = p
    BY <2>4, <2>5 DEF AllArrived
  <2> HIDE DEF a
  <2>7. CASE AtTask(j) /\ k = Epoch(c) /\ HasCounted(p, e)
    <3>1. c \in Blocks /\ CountsOnce(Desc[j])
      BY <2>2, TaskFacts
    <3>2. pc[c] \in {"topk", "body", "publish"}
      <4>1. 0 .. Chunks(Desc[j]) - 1 = {}
        BY <2>2, <3>1 DEF CountsOnce
      <4> QED
        BY <2>7, <4>1 DEF HasCounted
    <3>3. pc[c] # "topk"
      <4>1. Current(c) = Desc[j]
        BY <2>7 DEF AtTask, Current, Here
      <4>2. pc[c] = "topk" => b = c
        BY <2>2, <2>3, <3>1, <4>1 DEF TopkHeld
      <4>3. b # c
        BY <1>11, <2>7 DEF AtTask
      <4> QED
        BY <4>2, <4>3
    <3> QED
      BY <2>1, <2>7, <3>2, <3>3 DEF Past, PastHere
  <2>8. CASE Behind(j, k)
    BY <2>8 DEF Past
  <2> QED
    BY <2>5, <2>6, <2>7, <2>8 DEF Fresh
<1>12. ASSUME NEW j \in Peers(n, at) PROVE Past(j, at, k)'
  <2>1. j \in TaskIds /\ at \in SitesOf(j)
    BY <1>3, PeerFacts
  <2> QED
    BY <1>3, <1>8, <1>11, <2>1, WorkerPast
<1>13. ~ Done(n, at, k) /\ Done(n, at, k)'
  BY <1>9, <1>10, <1>12 DEF Done
<1> QED
  BY <1>2, <1>3, <1>13

\* A cell holds what lands in it, or what it held.
LEMMA LandHolds ==
  ASSUME NEW b, Land(b), NEW c
  PROVE  /\ (\E q \in Landed(b) : q[1] = c) =>
              \E q \in Landed(b) : q[1] = c /\ Holds(c, q[2])'
         /\ ~ (\E q \in Landed(b) : q[1] = c) => \A v : Holds(c, v) => Holds(c, v)'
<1> DEFINE cells == { o[1] : o \in Landed(b) }
           new == [d \in cells |-> (CHOOSE o \in Landed(b) : o[1] = d)[2]]
<1>1. mem' = [d \in cells \cup DOMAIN mem |-> IF d \in cells THEN new[d] ELSE mem[d]]
  BY DEF Land, Overlay
<1>2. ASSUME NEW q \in Landed(b), q[1] = c
      PROVE  \E r \in Landed(b) : r[1] = c /\ Holds(c, r[2])'
  <2> DEFINE r == CHOOSE o \in Landed(b) : o[1] = c
  <2>1. r \in Landed(b) /\ r[1] = c
    BY <1>2
  <2>2. c \in cells
    BY <1>2
  <2>3. new[c] = r[2]
    BY <2>2
  <2> HIDE DEF new, cells, r
  <2>4. c \in DOMAIN mem' /\ mem'[c] = r[2]
    BY <1>1, <2>2, <2>3
  <2> QED
    BY <2>1, <2>4 DEF Holds
<1>3. ASSUME ~ (\E q \in Landed(b) : q[1] = c), NEW v, Holds(c, v) PROVE Holds(c, v)'
  <2>1. c \notin cells
    BY <1>3
  <2> HIDE DEF new, cells
  <2>2. c \in DOMAIN mem' /\ mem'[c] = v
    BY <1>1, <1>3, <2>1 DEF Holds
  <2> QED
    BY <2>2 DEF Holds
<1> QED
  BY <1>2, <1>3

\* Nothing done is undone.
LEMMA DoneStays ==
  ASSUME IInv, ~ Smoke, ~ abort', NEW b \in Blocks, Worker(b), NEW i \in TaskIds,
         NEW at \in SitesOf(i), NEW k \in Nat, Done(i, at, k)
  PROVE  Done(i, at, k)'
<1>1. ASSUME NEW n \in Peers(i, at) PROVE Past(n, at, k)'
  <2>1. n \in TaskIds /\ at \in SitesOf(n) /\ Past(n, at, k)
    BY PeerFacts DEF Done
  <2> QED
    BY <2>1, WorkerPast
<1> QED
  BY <1>1 DEF Done

\* A step keeps what is done first first: what lands now follows all that the
\* sites done before know to be done.
LEMMA StoreHeldStep ==
  ASSUME IInv, ~ Smoke, ~ abort', StoresLandOnce, ElectionsAreExact, UpstreamIsJustified, TopkHeld,
         TokensLeft, NEW b \in Blocks, Worker(b), Land(b),
         NEW i \in TaskIds, NEW k \in 1 .. Tokens, NEW at \in SitesOf(i), NEW o \in StoresFrom(i, at, k),
         StoreHeld(i, at, k, o)
  PROVE  StoreHeld(i, at, k, o)'
<1>1. SUFFICES ASSUME
        Done(i, at, k)',
        \A j \in TaskIds, l \in 1 .. Tokens : \A bt \in SitesOf(j) : \A u \in StoresFrom(j, bt, l) :
          u[1] = o[1] /\ u[2] # o[2] /\ Done(j, bt, l)' => Precedes(j, bt, l, i, at, k)
      PROVE Holds(o[1], o[2])'
  BY DEF StoreHeld
<1>2. Tokens \in Nat /\ k \in Nat \ {0} /\ StoresFrom(i, at, 1) # {} /\ ~ abort
  BY ConstantsAssumption, StoresAnyEpoch, OthersStay DEF IInv
<1>3. CASE \E q \in Landed(b) : q[1] = o[1]
  <2>1. PICK q \in Landed(b) : q[1] = o[1] /\ Holds(o[1], q[2])'
    BY <1>3, LandHolds
  <2> SUFFICES ASSUME q[2] # o[2] PROVE FALSE
    BY <2>1
  <2>2. PICK n \in TaskIds, l \in Nat \ {0} :
          /\ n = Here(b) /\ l = Epoch(b) /\ pc[b] \in Running
          /\ \E bt \in SitesOf(n) :
               q \in StoresFrom(n, bt, l) /\ ~ Done(n, bt, l) /\ Done(n, bt, l)'
    BY LandedIsStored
  <2>3. PICK bt \in SitesOf(n) : q \in StoresFrom(n, bt, l) /\ ~ Done(n, bt, l) /\ Done(n, bt, l)'
    BY <2>2
  <2>4. l \in 1 .. Tokens /\ pc[b] # "exit"
    BY <2>2, RunningEpoch DEF Running
  <2>5. Precedes(n, bt, l, i, at, k)
    BY <1>1, <2>1, <2>3, <2>4
  <2>6. ~ (l < k)
    <3> SUFFICES ASSUME l < k PROVE FALSE
      OBVIOUS
    <3>1. Done(i, at, k)
      <4>1. ~ Done(i, at, k) => k = Epoch(b)
        BY <1>1, <1>2, Completing
      <4> QED
        BY <2>2, <4>1
    <3>2. Settled(k - 1)
      BY <1>2, <3>1, DoneKnown
    <3>3. k - 1 < l
      BY <1>2, <2>2, <2>4, <3>2, NobodyBehind
    <3> QED
      BY <1>2, <2>4, <3>3
  <2>7. l = k /\ DoneBefore(n, bt, i, at)
    BY <2>5, <2>6 DEF Precedes
  <2>8. /\ Behind(i, k) \/ (AtTask(i) /\ k = Epoch(Owner(i)))
        /\ \A e \in Known[i][PlaceOf(i, at)] : AllArrived(e, k)
    <3>1. CASE Done(i, at, k)
      BY <1>2, <3>1, DoneKnown
    <3>2. CASE ~ Done(i, at, k)
      BY <1>1, <1>2, <3>2, CompletingKnows
    <3> QED
      BY <3>1, <3>2
  <2>9. Done(n, bt, k)
    BY <1>2, <2>7, <2>8, DoneByEvents
  <2> QED
    BY <2>3, <2>7, <2>9
<1>4. CASE ~ \E q \in Landed(b) : q[1] = o[1]
  <2>1. Done(i, at, k)
    BY <1>1, <1>2, <1>4, StoresLand
  <2>2. \A j \in TaskIds, l \in 1 .. Tokens : \A bt \in SitesOf(j) : \A u \in StoresFrom(j, bt, l) :
          u[1] = o[1] /\ u[2] # o[2] /\ Done(j, bt, l) => Precedes(j, bt, l, i, at, k)
    <3> SUFFICES ASSUME NEW j \in TaskIds, NEW l \in 1 .. Tokens, NEW bt \in SitesOf(j),
                        NEW u \in StoresFrom(j, bt, l),
                        u[1] = o[1], u[2] # o[2], Done(j, bt, l)
                 PROVE  Precedes(j, bt, l, i, at, k)
      OBVIOUS
    <3>1. Done(j, bt, l)'
      BY DoneStays
    <3> QED
      BY <1>1, <3>1
  <2>3. Holds(o[1], o[2])
    BY <2>1, <2>2 DEF StoreHeld
  <2> QED
    BY <1>4, <2>3, LandHolds
<1> QED
  BY <1>3, <1>4

\* Nothing is stored where the host put the first token.
LEMMA FirstTokenStays ==
  ASSUME IInv, ~ Smoke, ~ abort', TopkHeld, NEW b \in Blocks, Worker(b), Land(b),
         Holds(<<"token_in", 1>>, <<1, -1, "in">>)
  PROVE  Holds(<<"token_in", 1>>, <<1, -1, "in">>)'
<1> DEFINE c == <<"token_in", 1>>
<1>1. ASSUME NEW q \in Landed(b), q[1] = c PROVE FALSE
  <2>1. PICK n \in TaskIds, l \in Nat \ {0} :
          \E at \in SitesOf(n) : q \in StoresFrom(n, at, l)
    BY LandedIsStored
  <2>2. OfEpoch(q[1], l)
    BY <2>1, StoresAnyEpoch
  <2>3. c = <<"token_in", l + 1>>
    BY <1>1, <2>2 DEF OfEpoch
  <2> QED
    BY <2>3
<1> QED
  BY <1>1, LandHolds

\* The steps that are not of a workgroup.
LEMMA HeldUnmoved ==
  ASSUME StoresHeld, UNCHANGED mem,
         \A i \in TaskIds : \A at \in SitesOf(i), k \in 1 .. Tokens : Done(i, at, k)' <=> Done(i, at, k)
  PROVE  StoresHeld'
<1>1. \A c, v : Holds(c, v)' <=> Holds(c, v)
  BY DEF Holds
<1>2. ASSUME NEW i \in TaskIds, NEW k \in 1 .. Tokens, NEW at \in SitesOf(i),
             NEW o \in StoresFrom(i, at, k)
      PROVE  StoreHeld(i, at, k, o)'
  BY <1>1 DEF StoresHeld, StoreHeld
<1> QED
  BY <1>1, <1>2 DEF StoresHeld

\* A launch begins where the last one ended, at the next epoch.
LEMMA RelaunchDone ==
  ASSUME IInv, Relaunch, NEW i \in TaskIds, NEW at \in SitesOf(i), NEW k
  PROVE  Done(i, at, k)' <=> Done(i, at, k)
<1>1. ASSUME NEW n \in Peers(i, at) PROVE Past(n, at, k)' <=> Past(n, at, k)
  <2> DEFINE b == Owner(n)
  <2>1. n \in TaskIds /\ at \in SitesOf(n) /\ b \in Blocks
    BY PeerFacts, TaskFacts
  <2>2. Behind(n, k)' <=> Behind(n, k)
    BY <2>1, RelaunchTasks
  <2>3. /\ pc[b] = "exit" /\ pc'[b] \in {"exit", "wait"}
        /\ wave[b] = [v \in Waves |-> 0] /\ wave'[b] = [v \in Waves |-> 0]
    BY <2>1, RelaunchPlaces
  <2>4. at[1] = "chunk" => at[2] \in Waves /\ at[3] \in Nat
    <3>1. Chunks(Desc[n]) \in Int
      BY <2>1, TaskFacts, ChunkTypes
    <3>2. at[1] = "chunk" => at[2] \in Waves /\ at[3] \in 0 .. Chunks(Desc[n]) - 1
      BY <2>1, SiteFacts DEF Running
    <3> QED
      BY <3>1, <3>2
  <2>5. at[1] = "chunk" => wave[b][at[2]] = 0 /\ wave'[b][at[2]] = 0 /\ at[3] \in Nat
    BY <2>3, <2>4
  <2>6. ~ PastHere(b, at) /\ ~ PastHere(b, at)'
    BY <2>3, <2>5 DEF PastHere
  <2> QED
    BY <2>2, <2>6 DEF Past
<1> QED
  BY <1>1 DEF Done

\* Who does not move a workgroup changes nothing of that.
LEMMA UnmovedDone ==
  ASSUME UNCHANGED <<epoch0, pc, tok, slot, inner, wave>>, NEW i, NEW at, NEW k
  PROVE  Done(i, at, k)' <=> Done(i, at, k)
<1>1. \A b : Epoch(b)' = Epoch(b) /\ (PastHere(b, at)' <=> PastHere(b, at))
  BY DEF Epoch, PastHere
<1>2. \A n : (AtTask(n)' <=> AtTask(n)) /\ (Behind(n, k)' <=> Behind(n, k))
  BY <1>1 DEF AtTask, Behind, Here
<1>3. ASSUME NEW n PROVE Past(n, at, k)' <=> Past(n, at, k)
  BY <1>1, <1>2 DEF Past
<1> QED
  BY <1>3 DEF Done

\* The invariant: what is stored is held until a store that follows it.
LEMMA StoresHeldStep ==
  ASSUME InputsAreFed, ~ Smoke, IInv, ~ abort', TopkHeld, TokensLeft, StoresHeld, [VNext]_vvars
  PROVE  StoresHeld'
<1>0. StoresLandOnce /\ ElectionsAreExact /\ UpstreamIsJustified
  BY DEF InputsAreFed
<1>1. ASSUME NEW b \in Blocks, Worker(b), Land(b) PROVE StoresHeld'
  <2>1. Holds(<<"token_in", 1>>, <<1, -1, "in">>)'
    BY <1>1, FirstTokenStays DEF StoresHeld
  <2>2. ASSUME NEW i \in TaskIds, NEW k \in 1 .. Tokens, NEW at \in SitesOf(i),
               NEW o \in StoresFrom(i, at, k)
        PROVE  StoreHeld(i, at, k, o)'
    BY <1>0, <1>1, StoreHeldStep DEF StoresHeld
  <2> QED
    BY <2>1, <2>2 DEF StoresHeld
<1>2. ASSUME UNCHANGED <<epoch0, pc, tok, slot, inner, wave>>, UNCHANGED mem PROVE StoresHeld'
  BY <1>2, UnmovedDone, HeldUnmoved
<1>3. ASSUME NEW x \in Xcds, Scheduler(x) PROVE UNCHANGED <<epoch0, pc, tok, slot, inner, wave>>
  BY <1>3 DEF Scheduler, Relay, PollGlobal, StoreFlag, StopScheduler, ExitScheduler, host, block
<1>4. Finished \/ UNCHANGED vvars => UNCHANGED <<epoch0, pc, tok, slot, inner, wave>>
  BY DEF Finished, vars, dvars, vvars
<1>5. UNCHANGED vvars => UNCHANGED mem
  BY DEF dvars, vvars
<1>6. CASE \E b \in Blocks : Worker(b) /\ Land(b)
  BY <1>1, <1>6
<1>7. CASE UNCHANGED mem /\ \E x \in Xcds : Scheduler(x)
  BY <1>2, <1>3, <1>7
<1>8. CASE Relaunch /\ UNCHANGED mem
  BY <1>8, RelaunchDone, HeldUnmoved
<1>9. CASE (Finished /\ UNCHANGED mem) \/ UNCHANGED vvars
  BY <1>2, <1>4, <1>5, <1>9
<1> QED
  BY <1>6, <1>7, <1>8, <1>9 DEF VNext

\* What a store of epoch k looks like; of fixed cells, in any epoch.
LEMMA StoreShape ==
  ASSUME NEW i \in TaskIds, NEW at \in SitesOf(i), NEW k \in Nat, NEW o \in StoresFrom(i, at, k)
  PROVE  \/ \E c, L, s : /\ c[1] \notin Timed /\ o = <<c, <<k, L, s>>>>
                         /\ \A l \in Nat : <<c, <<l, L, s>>>> \in StoresFrom(i, at, l)
         \/ \E L : o = <<<<"kv", L, k>>, <<k, L, "mid">>>>
         \/ o = <<<<"token_in", k + 1>>, <<k + 1, -1, "in">>>>
<1> DEFINE t == Desc[i]
           Fixes(c, L, s) == /\ c[1] \notin Timed /\ o = <<c, <<k, L, s>>>>
                             /\ \A l \in Nat : <<c, <<l, L, s>>>> \in StoresFrom(i, at, l)
<1>1. CASE at[1] = "chunk"
  <2> DEFINE c == <<"h", t.xcd, t.worker, at[2], at[3]>>
  <2>1. c[1] \notin Timed
    BY DEF Timed
  <2>2. \A l : StoresFrom(i, at, l) = { <<c, <<l, t.layer, "mid">>>> }
    BY <1>1 DEF StoresFrom
  <2> HIDE DEF c
  <2>3. Fixes(c, t.layer, "mid")
    BY <2>1, <2>2
  <2> QED
    BY <2>3
<1>2. CASE at[1] # "chunk"
  <2>1. at[1] \in Running /\ \A l : StoresFrom(i, at, l) = OutputsAt(i, at[1], at[2], l)
    BY <1>2, SiteFacts DEF StoresFrom
  <2>2. Untimed(Stores[i][at[1]])
    BY <2>1, FixedTasks DEF Stores
  <2>3. ASSUME NEW c \in Stores[i][at[1]], o = <<c[1], <<k, c[2], c[3]>>>>
        PROVE  Fixes(c[1], c[2], c[3])
    <3>1. c[1][1] \notin Timed
      BY <2>2 DEF Untimed
    <3>2. ASSUME NEW l \in Nat PROVE <<c[1], <<l, c[2], c[3]>>>> \in StoresFrom(i, at, l)
      BY <2>1 DEF OutputsAt
    <3> QED
      BY <2>3, <3>1, <3>2
  <2>4. \/ \E c \in Stores[i][at[1]] : o = <<c[1], <<k, c[2], c[3]>>>>
        \/ o = <<<<"kv", t.layer, k>>, <<k, t.layer, "mid">>>>
        \/ o = <<<<"token_in", k + 1>>, <<k + 1, -1, "in">>>>
    BY <2>1 DEF OutputsAt
  <2> HIDE DEF Fixes
  <2>5. CASE \E c \in Stores[i][at[1]] : o = <<c[1], <<k, c[2], c[3]>>>>
    <3>1. PICK c \in Stores[i][at[1]] : o = <<c[1], <<k, c[2], c[3]>>>>
      BY <2>5
    <3>2. Fixes(c[1], c[2], c[3])
      BY <2>3, <3>1
    <3> QED
      BY <3>2 DEF Fixes
  <2> QED
    BY <2>4, <2>5
<1> QED
  BY <1>1, <1>2

\* Of two stores to a cell of a cache row or of a token, the values are the same.
LEMMA TimedStores ==
  ASSUME NEW i \in TaskIds, NEW at \in SitesOf(i), NEW k \in Nat, NEW o \in StoresFrom(i, at, k)
  PROVE  /\ \A L, m : o[1] = <<"kv", L, m>> => o[2] = <<m, L, "mid">>
         /\ \A m : o[1] = <<"token_in", m>> => o[2] = <<m, -1, "in">>
<1>1. CASE \E c, L, s : c[1] \notin Timed /\ o = <<c, <<k, L, s>>>>
  <2>1. o[1][1] \notin Timed
    BY <1>1
  <2> QED
    BY <2>1 DEF Timed
<1>2. CASE \E L : o = <<<<"kv", L, k>>, <<k, L, "mid">>>>
  BY <1>2
<1>3. CASE o = <<<<"token_in", k + 1>>, <<k + 1, -1, "in">>>>
  BY <1>3
<1> QED
  BY <1>1, <1>2, <1>3, StoreShape

\* When an epoch has begun, every task of the epochs before is behind.
LEMMA EarlierDone ==
  ASSUME IInv, ~ abort, NEW b \in Blocks, pc[b] \in Running, NEW i \in TaskIds, NEW m \in Nat,
         m < Epoch(b)
  PROVE  Behind(i, m)
<1> USE DEF IInv
<1> DEFINE c == Owner(i)
<1>1. /\ c \in Blocks /\ Queue[c] # <<>> /\ Epoch(c) \in Nat /\ Epoch(b) \in Nat \ {0}
      /\ pc[b] \in Started /\ pc[b] # "exit"
  <2>1. \E s \in DOMAIN Queue[c] : Queue[c][s] = i
    BY TaskFacts
  <2> QED
    BY <2>1, TaskFacts, EpochType DEF Started, Running
<1>2. CASE pc[c] # "exit"
  <2>1. Settled(Epoch(b) - 1)
    BY <1>1 DEF Gates
  <2>2. Epoch(b) - 1 < Epoch(c)
    BY <1>1, <1>2, <2>1, NobodyBehind
  <2> QED
    BY <1>1, <2>2 DEF Behind
<1>3. CASE pc[c] = "exit"
  <2>1. tok[c] = n_tokens /\ tok[b] < n_tokens
    BY <1>1, <1>3 DEF Places, PlaceOK
  <2>2. epoch0 \in Nat /\ n_tokens \in Nat /\ tok[b] \in Nat
    BY DEF TypeOK
  <2>3. m < Epoch(c)
    BY <1>1, <2>1, <2>2 DEF Epoch
  <2> QED
    BY <2>3 DEF Behind
<1> QED
  BY <1>2, <1>3

\* A row of the cache or a token of an earlier epoch is there for its readers.
LEMMA EarlierStoreHeld ==
  ASSUME IInv, ~ abort, TokensLeft, StoresHeld, NEW b \in Blocks, pc[b] \in Running,
         NEW i \in TaskIds, NEW m \in Nat \ {0}, m < Epoch(b), NEW at \in SitesOf(i),
         NEW o \in StoresFrom(i, at, m),
         \/ \E L, n : o[1] = <<"kv", L, n>>
         \/ \E n : o[1] = <<"token_in", n>>
  PROVE  Holds(o[1], o[2])
<1>1. m \in 1 .. Tokens
  <2>1. Epoch(b) \in 1 .. Tokens /\ Tokens \in Nat
    BY RunningEpoch, ConstantsAssumption DEF Running
  <2> QED
    BY <2>1
<1>2. Done(i, at, m)
  <2>1. ASSUME NEW n \in Peers(i, at) PROVE Past(n, at, m)
    <3>1. Behind(n, m)
      BY PeerFacts, EarlierDone
    <3> QED
      BY <3>1 DEF Past
  <2> QED
    BY <2>1 DEF Done
<1>3. ASSUME NEW j \in TaskIds, NEW l \in 1 .. Tokens, NEW bt \in SitesOf(j),
             NEW u \in StoresFrom(j, bt, l), u[1] = o[1]
      PROVE  u[2] = o[2]
  <2>1. l \in Nat
    BY ConstantsAssumption
  <2>2. CASE \E L, n : o[1] = <<"kv", L, n>>
    <3>1. PICK L, n : o[1] = <<"kv", L, n>>
      BY <2>2
    <3>2. o[2] = <<n, L, "mid">>
      BY <3>1, TimedStores
    <3>3. u[2] = <<n, L, "mid">>
      BY <1>3, <2>1, <3>1, TimedStores
    <3> QED
      BY <3>2, <3>3
  <2>3. CASE \E n : o[1] = <<"token_in", n>>
    <3>1. PICK n : o[1] = <<"token_in", n>>
      BY <2>3
    <3>2. o[2] = <<n, -1, "in">>
      BY <3>1, TimedStores
    <3>3. u[2] = <<n, -1, "in">>
      BY <1>3, <2>1, <3>1, TimedStores
    <3> QED
      BY <3>2, <3>3
  <2> QED
    BY <2>2, <2>3
<1>4. StoreHeld(i, at, m, o)
  BY <1>1 DEF StoresHeld
<1> QED
  BY <1>2, <1>3, <1>4 DEF StoreHeld

\* Stores the reader finds not done are not.
LEMMA NotDone ==
  ASSUME IInv, ~ abort, UpstreamIsJustified, StoresLandOnce, NEW b \in Blocks, pc[b] \in Running,
         NEW i \in TaskIds, NEW at \in SitesOf(i), StoresFrom(i, at, 1) # {},
         NotDoneAt(i, at, Here(b), <<pc[b], inner[b]>>)
  PROVE  ~ Done(i, at, Epoch(b))
<1> SUFFICES ASSUME Done(i, at, Epoch(b)) PROVE FALSE
  OBVIOUS
<1> USE DEF IInv
<1>1. PICK j \in TaskIds : j = Here(b) /\ Owner(j) = b /\ AtTask(j) /\ ~ Behind(j, Epoch(b))
  BY Standing DEF Running
<1>2. PICK k \in Nat \ {0} : k = Epoch(b)
  BY EpochType
<1>3. /\ Behind(i, k) \/ (AtTask(i) /\ k = Epoch(Owner(i)))
      /\ \A e \in Known[i][PlaceOf(i, at)] : AllArrived(e, k)
  BY <1>2, DoneKnown
<1>4. Past(i, at, k)
  BY <1>2, SiteFacts DEF Done
<1>5. CASE i \in After[j]
  <2>1. Owner(i) = Owner(j) /\ TaskPosition[i] > TaskPosition[j]
    BY <1>5 DEF After
  <2>2. Behind(j, k)
    BY <1>1, <1>3, <2>1, BehindBefore
  <2> QED
    BY <1>1, <1>2, <2>2
<1>6. CASE i = j /\ at = <<pc[b], inner[b]>>
  <2>1. PastHere(b, at)
    BY <1>1, <1>2, <1>4, <1>6 DEF Past
  <2>2. inner[b] \in Nat
    BY DEF TypeOK
  <2>3. at[1] = pc[b] /\ at[2] = inner[b]
    BY <1>6
  <2> QED
    BY <2>1, <2>2, <2>3 DEF PastHere, Running
<1>7. CASE Over[j][<<pc[b], inner[b]>>] \cap Known[i][PlaceOf(i, at)] # {}
  <2>1. PICK e \in Over[j][<<pc[b], inner[b]>>] : e \in Known[i][PlaceOf(i, at)]
    BY <1>7
  <2>2. e \in Events /\ \E p \in Producers[e] : <<p, k>> \notin arrived[e]
    BY <1>1, <1>2, <2>1, OverNotYet
  <2> QED
    BY <1>3, <2>1, <2>2 DEF AllArrived
<1> QED
  BY <1>1, <1>5, <1>6, <1>7 DEF NotDoneAt

\* The stores to a cell, by task and site.
LEMMA StoresToCell ==
  ASSUME NEW c, NEW i \in TaskIds, NEW at \in SitesOf(i), NEW v,
         <<c, v>> \in StoresFrom(i, at, 1), c \in DOMAIN StoresTo
  PROVE  [task |-> i, at |-> at, cell |-> c, value |-> v] \in StoresTo[c]
<1> DEFINE s == [task |-> i, at |-> at, cell |-> c, value |-> v]
<1>1. s \in AllStores
  <2>1. s \in { [task |-> i, at |-> at, cell |-> o[1], value |-> o[2]] : o \in StoresFrom(i, at, 1) }
    OBVIOUS
  <2> HIDE DEF s
  <2> QED
    BY <2>1 DEF AllStores
<1> QED
  BY <1>1 DEF StoresTo

\* ... and back.
LEMMA StoreOfCell ==
  ASSUME NEW c \in DOMAIN StoresTo, NEW s \in StoresTo[c]
  PROVE  /\ s.task \in TaskIds /\ s.at \in SitesOf(s.task)
         /\ \E o \in StoresFrom(s.task, s.at, 1) : o[1] = c /\ o[2] = s.value
<1>1. s \in AllStores /\ s.cell = c
  BY DEF StoresTo
<1>2. PICK i \in TaskIds : \E at \in SitesOf(i) : \E o \in StoresFrom(i, at, 1) :
        s = [task |-> i, at |-> at, cell |-> o[1], value |-> o[2]]
  BY <1>1 DEF AllStores
<1>3. PICK at \in SitesOf(i) : \E o \in StoresFrom(i, at, 1) :
        s = [task |-> i, at |-> at, cell |-> o[1], value |-> o[2]]
  BY <1>2
<1>4. PICK o \in StoresFrom(i, at, 1) : s = [task |-> i, at |-> at, cell |-> o[1], value |-> o[2]]
  BY <1>3
<1> QED
  BY <1>1, <1>4

\* A store to a fixed cell is made in every epoch.
LEMMA FixedStore ==
  ASSUME NEW i \in TaskIds, NEW at \in SitesOf(i), NEW k \in Nat, NEW l \in Nat, NEW o \in StoresFrom(i, at, k),
         o[1][1] \notin Timed
  PROVE  \E L, s : o[2] = <<k, L, s>> /\ <<o[1], <<l, L, s>>>> \in StoresFrom(i, at, l)
<1>1. CASE \E c, L, s : /\ c[1] \notin Timed /\ o = <<c, <<k, L, s>>>>
                         /\ \A m \in Nat : <<c, <<m, L, s>>>> \in StoresFrom(i, at, m)
  <2>1. PICK c, L, s : o = <<c, <<k, L, s>>>> /\ \A m \in Nat : <<c, <<m, L, s>>>> \in StoresFrom(i, at, m)
    BY <1>1
  <2> QED
    BY <2>1
<1>2. CASE \E L : o = <<<<"kv", L, k>>, <<k, L, "mid">>>>
  BY <1>2 DEF Timed
<1>3. CASE o = <<<<"token_in", k + 1>>, <<k + 1, -1, "in">>>>
  BY <1>3 DEF Timed
<1>4. \/ \E c, L, s : /\ c[1] \notin Timed /\ o = <<c, <<k, L, s>>>>
                      /\ \A m \in Nat : <<c, <<m, L, s>>>> \in StoresFrom(i, at, m)
      \/ \E L : o = <<<<"kv", L, k>>, <<k, L, "mid">>>>
      \/ o = <<<<"token_in", k + 1>>, <<k + 1, -1, "in">>>>
  BY StoreShape, Zenon
<1> QED
  BY <1>1, <1>2, <1>3, <1>4, Zenon

\* Of the stores to a fixed cell that are done, those of a later epoch are none.
LEMMA NoLaterStore ==
  ASSUME IInv, ~ abort, UpstreamIsJustified, StoresLandOnce, NEW b \in Blocks, pc[b] \in Running,
         NEW i \in TaskIds, NEW at \in SitesOf(i), StoresFrom(i, at, 1) # {}, NEW l \in Nat \ {0},
         Done(i, at, l)
  PROVE  l <= Epoch(b)
<1>1. Settled(l - 1)
  BY DoneKnown
<1>2. l - 1 \in Nat /\ Epoch(b) \in Nat
  BY EpochType DEF IInv
<1>3. l - 1 < Epoch(b)
  BY <1>1, <1>2, NobodyBehind DEF IInv, Running
<1> QED
  BY <1>2, <1>3

\* An operand of the body a workgroup is in is what the model calls for.
LEMMA OperandHeld ==
  ASSUME IInv, ~ abort, ~ Smoke, InputsAreFed, TopkHeld, TokensLeft, StoresHeld,
         NEW b \in Blocks, pc[b] \in Running, NEW r \in Loads[Here(b)][pc[b]][inner[b]]
  PROVE  Holds(r[1], <<Epoch(b), r[2], r[3]>>)
<1> USE DEF IInv
<1>1. PICK j \in TaskIds : j = Here(b) /\ Owner(j) = b /\ AtTask(j)
  BY Standing DEF Running
<1>2. PICK k \in 1 .. Tokens : k = Epoch(b) /\ k \in Nat \ {0}
  <2>1. Epoch(b) \in 1 .. Tokens /\ Epoch(b) \in Nat \ {0}
    BY RunningEpoch, EpochType DEF Running
  <2> QED
    BY <2>1
<1>3. PICK bt \in SitesOf(j) :
        /\ bt \in PlacesOf(j) /\ bt = <<pc[b], inner[b]>> /\ PlaceOf(j, bt) = bt
        /\ bt[1] = pc[b] /\ bt[2] = inner[b] /\ inner[b] \in 0 .. BodyWaits(Desc[j])
  <2>1. <<pc[b], inner[b]>> \in PlacesOf(j)
    BY <1>1, AtPlace
  <2>2. <<pc[b], inner[b]>> \in SitesOf(j)
    BY <2>1 DEF SitesOf
  <2>3. pc[b] # "chunk"
    BY DEF Running
  <2>4. inner[b] \in 0 .. BodyWaits(Desc[j])
    BY <1>1, <2>2, <2>3, SiteFacts
  <2>5. PlaceOf(j, <<pc[b], inner[b]>>) = <<pc[b], inner[b]>>
    BY <2>3 DEF PlaceOf
  <2> QED
    BY <2>1, <2>2, <2>4, <2>5
<1>4. r[1][1] \notin Timed
  <2>1. Loads[j][pc[b]][inner[b]] = ReadBy(Desc[j], pc[b], inner[b])
    BY <1>3 DEF Loads
  <2>2. Untimed(Loads[j][pc[b]][inner[b]])
    BY <2>1, FixedReads
  <2> QED
    BY <1>1, <2>2 DEF Untimed
<1>5. /\ UpstreamIsJustified /\ ElectionsAreExact /\ StoresLandOnce /\ FedInTime[j]
  BY DEF InputsAreFed
<1>6. PICK s \in StoresTo[r[1]] :
        /\ r[1] \in DOMAIN StoresTo /\ s.value = <<1, r[2], r[3]>> /\ DoneBefore(s.task, s.at, j, bt)
        /\ \A u \in StoresTo[r[1]] : u.value # <<1, r[2], r[3]>> =>
             DoneBefore(u.task, u.at, s.task, s.at) \/ NotDoneAt(u.task, u.at, j, bt)
  <2> DEFINE q == <<r[1], <<1, r[2], r[3]>>>>
  <2>1. q \in InputsAt(j, bt[1], bt[2], 1)
    BY <1>1, <1>3 DEF InputsAt
  <2>2. q[1] # <<"token_in", 1>>
    BY <1>4 DEF Timed
  <2>3. q[1] = r[1] /\ q[2] = <<1, r[2], r[3]>>
    OBVIOUS
  <2> HIDE DEF q
  <2>4. /\ q[1] \in DOMAIN StoresTo
        /\ \E s \in StoresTo[q[1]] :
             /\ s.value = q[2]
             /\ DoneBefore(s.task, s.at, j, bt)
             /\ \A u \in StoresTo[q[1]] : u.value # q[2] =>
                  DoneBefore(u.task, u.at, s.task, s.at) \/ NotDoneAt(u.task, u.at, j, bt)
    BY <1>3, <1>5, <2>1, <2>2 DEF FedInTime
  <2> QED
    BY <2>3, <2>4
<1>7. PICK i \in TaskIds : i = s.task /\ s.at \in SitesOf(i)
  BY <1>6, StoreOfCell
<1>8. PICK at \in SitesOf(i) : at = s.at
  BY <1>7
<1>9. <<r[1], <<k, r[2], r[3]>>>> \in StoresFrom(i, at, k)
  <2>1. PICK o \in StoresFrom(i, at, 1) : o[1] = r[1] /\ o[2] = <<1, r[2], r[3]>>
    BY <1>6, <1>7, <1>8, StoreOfCell
  <2>2. PICK L, z : o[2] = <<1, L, z>> /\ <<o[1], <<k, L, z>>>> \in StoresFrom(i, at, k)
    <3>1. o[1][1] \notin Timed /\ 1 \in Nat /\ k \in Nat
      BY <1>2, <1>4, <2>1
    <3> QED
      BY <3>1, FixedStore, Zenon
  <2>3. L = r[2] /\ z = r[3]
    BY <2>1, <2>2
  <2> QED
    BY <2>1, <2>2, <2>3
<1>10. Done(i, at, k)
  <2>1. \A e \in Known[j][bt] : AllArrived(e, k)
    BY <1>1, <1>2, <1>3, <1>5, KnownArrived
  <2> QED
    BY <1>1, <1>2, <1>3, <1>6, <1>7, <1>8, <2>1, DoneByEvents
<1>11. ASSUME NEW n \in TaskIds, NEW l \in 1 .. Tokens, NEW nt \in SitesOf(n), NEW u \in StoresFrom(n, nt, l),
              u[1] = r[1], u[2] # <<k, r[2], r[3]>>, Done(n, nt, l)
       PROVE  Precedes(n, nt, l, i, at, k)
  <2>1. l \in Nat \ {0}
    BY ConstantsAssumption
  <2>2. PICK L, z : u[2] = <<l, L, z>> /\ <<r[1], <<1, L, z>>>> \in StoresFrom(n, nt, 1)
    <3>1. u[1][1] \notin Timed /\ 1 \in Nat /\ l \in Nat
      BY <1>4, <1>11, <2>1
    <3>2. \E L, z : u[2] = <<l, L, z>> /\ <<u[1], <<1, L, z>>>> \in StoresFrom(n, nt, 1)
      BY <3>1, FixedStore, Zenon
    <3> QED
      BY <1>11, <3>2
  <2>3. l <= k
    BY <1>2, <1>5, <1>11, <2>1, <2>2, NoLaterStore
  <2>4. CASE l < k
    BY <2>4 DEF Precedes
  <2>5. CASE l = k
    <3>1. <<1, L, z>> # <<1, r[2], r[3]>>
      BY <1>11, <2>2, <2>5
    <3>2. [task |-> n, at |-> nt, cell |-> r[1], value |-> <<1, L, z>>] \in StoresTo[r[1]]
      BY <1>6, <2>2, StoresToCell
    <3>3. DoneBefore(n, nt, i, at) \/ NotDoneAt(n, nt, j, bt)
      BY <1>6, <1>7, <1>8, <3>1, <3>2
    <3>4. ~ NotDoneAt(n, nt, j, bt)
      BY <1>1, <1>2, <1>3, <1>5, <1>11, <2>2, <2>5, NotDone
    <3> QED
      BY <2>5, <3>3, <3>4 DEF Precedes
  <2> QED
    BY <1>2, <2>1, <2>3, <2>4, <2>5
<1>12. StoreHeld(i, at, k, <<r[1], <<k, r[2], r[3]>>>>)
  BY <1>9 DEF StoresHeld
<1>13. Holds(r[1], <<k, r[2], r[3]>>)
  BY <1>10, <1>11, <1>12 DEF StoreHeld
<1> QED
  BY <1>2, <1>13

\* The input token is there for the embed: the host's, or an earlier argmax's.
LEMMA TokenHeld ==
  ASSUME IInv, ~ abort, StoresLandOnce, TokensLeft, StoresHeld, NEW b \in Blocks, pc[b] \in Running,
         NEW k, k = Epoch(b)
  PROVE  Holds(<<"token_in", k>>, <<k, -1, "in">>)
<1>1. k \in Nat \ {0}
  BY EpochType DEF IInv
<1>2. CASE k = 1
  BY <1>2 DEF StoresHeld
<1>3. CASE k # 1
  <2>1. k - 1 \in Nat \ {0} /\ k - 1 < k /\ (k - 1) + 1 = k
    BY <1>1, <1>3
  <2>2. PICK i \in TaskIds : Desc[i].kind = "ARGMAX"
    BY DEF StoresLandOnce
  <2>3. PICK at \in SitesOf(i) : at[1] # "chunk"
    <3>1. <<"body", BodyWaits(Desc[i])>> \in SitesOf(i)
      BY <2>2 DEF SitesOf, PlacesOf
    <3> QED
      BY <3>1
  <2>4. <<<<"token_in", (k - 1) + 1>>, <<(k - 1) + 1, -1, "in">>>> \in StoresFrom(i, at, k - 1)
    BY <2>2, <2>3 DEF StoresFrom, OutputsAt
  <2>5. <<<<"token_in", k>>, <<k, -1, "in">>>> \in StoresFrom(i, at, k - 1)
    BY <2>1, <2>4
  <2>6. PICK o \in StoresFrom(i, at, k - 1) : o[1] = <<"token_in", k>> /\ o[2] = <<k, -1, "in">>
    BY <2>5
  <2>7. Holds(o[1], o[2])
    BY <2>1, <2>6, EarlierStoreHeld
  <2> QED
    BY <2>6, <2>7
<1> QED
  BY <1>2, <1>3

\* The rows of the cache are there for the attention of a later token.
LEMMA RowHeld ==
  ASSUME IInv, ~ abort, StoresLandOnce, TokensLeft, StoresHeld, NEW b \in Blocks, pc[b] \in Running,
         NEW j \in AttentionTasks, NEW m \in Nat \ {0}, m < Epoch(b)
  PROVE  Holds(<<"kv", Desc[j].layer, m>>, <<m, Desc[j].layer, "mid">>)
<1>1. PICK i \in AttentionTasks : Desc[i].layer = Desc[j].layer /\ Desc[i].head = 0 /\ Desc[i].kv_chunk = 0
  BY DEF StoresLandOnce
<1>2. i \in TaskIds /\ Desc[i].kind = "ATTENTION" /\ BodyWaits(Desc[i]) \in Nat
  BY <1>1, TaskFacts, BodyWaitsType DEF AttentionTasks
<1>3. PICK at \in SitesOf(i) : at[1] # "chunk" /\ at[2] = 0
  <2>1. CASE BodyWaits(Desc[i]) = 0
    <3>1. <<"body", 0>> \in SitesOf(i)
      BY <2>1 DEF SitesOf, PlacesOf
    <3> QED
      BY <3>1
  <2>2. CASE BodyWaits(Desc[i]) # 0
    <3>1. <<"bodywait", 0>> \in SitesOf(i)
      BY <1>2, <2>2 DEF SitesOf, PlacesOf
    <3> QED
      BY <3>1
  <2> QED
    BY <2>1, <2>2
<1>4. <<<<"kv", Desc[j].layer, m>>, <<m, Desc[j].layer, "mid">>>> \in StoresFrom(i, at, m)
  BY <1>1, <1>2, <1>3 DEF StoresFrom, OutputsAt
<1>5. PICK o \in StoresFrom(i, at, m) :
        o[1] = <<"kv", Desc[j].layer, m>> /\ o[2] = <<m, Desc[j].layer, "mid">>
  BY <1>4
<1>6. Holds(o[1], o[2])
  BY <1>2, <1>5, EarlierStoreHeld
<1> QED
  BY <1>5, <1>6

\* What a body reads is there for it.
LEMMA HeldInputs ==
  ASSUME IInv, ~ abort, ~ Smoke, InputsAreFed, TopkHeld, TokensLeft, StoresHeld
  PROVE  InputsAreCurrent
<1> SUFFICES ASSUME NEW b \in Blocks, NEW q \in Inputs(b)
             PROVE  mem[q[1]] = q[2]
  BY DEF InputsAreCurrent
<1>1. pc[b] \in Running
  BY DEF Inputs
<1>2. PICK k \in Nat \ {0} : k = Epoch(b)
  BY EpochType DEF IInv
<1>3. PICK j \in TaskIds : j = Here(b)
  BY <1>1, Standing DEF IInv, Running
<1>4. q \in InputsAt(j, pc[b], inner[b], k)
  BY <1>1, <1>2, <1>3 DEF Inputs, Here
<1>5. StoresLandOnce
  BY DEF InputsAreFed
<1>6. CASE q \in { <<c[1], <<k, c[2], c[3]>>>> : c \in Loads[j][pc[b]][inner[b]] }
  <2>1. PICK c \in Loads[j][pc[b]][inner[b]] : q = <<c[1], <<k, c[2], c[3]>>>>
    BY <1>6
  <2>2. Holds(c[1], <<k, c[2], c[3]>>)
    BY <1>1, <1>2, <1>3, <2>1, OperandHeld
  <2> QED
    BY <2>1, <2>2 DEF Holds
<1>7. CASE q = <<<<"token_in", k>>, <<k, -1, "in">>>>
  <2>1. Holds(<<"token_in", k>>, <<k, -1, "in">>)
    BY <1>1, <1>2, <1>5, TokenHeld
  <2> QED
    BY <1>7, <2>1 DEF Holds
<1>8. CASE /\ Desc[j].kind = "ATTENTION"
           /\ q \in { <<<<"kv", Desc[j].layer, m>>, <<m, Desc[j].layer, "mid">>>> : m \in 1 .. k - 1 }
  <2>1. PICK m \in 1 .. k - 1 : q = <<<<"kv", Desc[j].layer, m>>, <<m, Desc[j].layer, "mid">>>>
    BY <1>8
  <2>2. m \in Nat \ {0} /\ m < Epoch(b) /\ j \in AttentionTasks
    BY <1>2, <1>8 DEF AttentionTasks
  <2>3. Holds(<<"kv", Desc[j].layer, m>>, <<m, Desc[j].layer, "mid">>)
    BY <1>1, <1>5, <2>2, RowHeld
  <2> QED
    BY <2>1, <2>3 DEF Holds
<1> QED
  BY <1>4, <1>6, <1>7, <1>8 DEF InputsAt

\* At the start no store is done, and the host's token is there.
LEMMA HeldFirst == VInit => StoresHeld
<1> SUFFICES ASSUME VInit PROVE StoresHeld
  OBVIOUS
<1>1. Init /\ TypeOK
  BY InitType DEF VInit, DInit
<1>2. Holds(<<"token_in", 1>>, <<1, -1, "in">>)
  <2>1. 1 \in 1 .. Tokens + 1
    BY ConstantsAssumption
  <2>2. ASSUME NEW k \in 1 .. Tokens + 1 PROVE <<"token_in", k>> \in Cells
    BY DEF Cells
  <2>3. <<"token_in", 1>> \in Cells
    BY <2>1, <2>2
  <2> QED
    BY <2>3 DEF VInit, DInit, Holds
<1>3. ASSUME NEW i \in TaskIds, NEW k \in Nat \ {0}, NEW at \in SitesOf(i) PROVE ~ Done(i, at, k)
  <2> DEFINE c == Owner(i)
  <2>1. /\ c \in Blocks /\ Epoch(c) = 1 /\ slot[c] = 1 /\ pc[c] \in {"exit", "wait"}
        /\ inner[c] = 0 /\ wave[c] = [v \in Waves |-> 0]
    BY <1>1, TaskFacts DEF Init, Epoch
  <2>2. \A s \in DOMAIN Queue[c] : ~ (s < 1)
    BY <2>1, QueueFacts
  <2>3. ~ Behind(i, k)
    BY <2>1, <2>2 DEF Behind
  <2>4. at[1] = "chunk" => ~ (wave[c][at[2]] > at[3])
    <3>1. at[1] = "chunk" => at[2] \in Waves /\ at[3] \in 0 .. Chunks(Desc[i]) - 1
      BY SiteFacts DEF Running
    <3>2. at[1] = "chunk" => wave[c][at[2]] = 0 /\ at[3] >= 0
      BY <2>1, <3>1
    <3> QED
      BY <3>1, <3>2
  <2>5. ~ PastHere(c, at)
    BY <2>1, <2>4 DEF PastHere
  <2> QED
    BY <2>3, <2>5, SiteFacts DEF Done, Past
<1>4. 1 .. Tokens \subseteq Nat \ {0}
  BY ConstantsAssumption
<1> QED
  BY <1>2, <1>3, <1>4 DEF StoresHeld, StoreHeld

\* Nothing is read before it is stored or after it is replaced, until a wait
\* is abandoned.
ReadsHeld == abort \/ StoresHeld

\* An abort is never taken back, and without timeouts there is none.
LEMMA AbortStays ==
  ASSUME TypeOK, [Next]_vars
  PROVE  (abort => abort') /\ (~ MayTimeOut /\ ~ abort => ~ abort')
<1>0. abort \in BOOLEAN
  BY DEF TypeOK
<1>1. ASSUME NEW b \in Blocks, Worker(b)
      PROVE  (abort => abort') /\ (~ MayTimeOut /\ ~ abort => ~ abort')
  <2>1. UNCHANGED abort \/ (abort' = TRUE /\ (abort \/ MayTimeOut))
    BY <1>1 DEF Worker, PassBoundary, StartTask, PassBodyWait, Checkpoint, GiveUp, SignalChunk,
           ArriveRouter, PublishTopk, Signal, Publish
  <2> QED
    BY <1>0, <2>1
<1>2. ASSUME NEW x \in Xcds, Scheduler(x) PROVE UNCHANGED abort
  BY <1>2 DEF Scheduler, Relay, PollGlobal, StoreFlag, StopScheduler, ExitScheduler
<1>3. Relaunch => UNCHANGED abort
  BY DEF Relaunch, NextLaunch
<1>4. UNCHANGED vars => UNCHANGED abort
  BY DEF vars
<1>5. CASE UNCHANGED abort
  BY <1>0, <1>5
<1> QED
  BY <1>1, <1>2, <1>3, <1>4, <1>5 DEF Next, Finished

\* If the descriptors feed every body, each body reads exactly the values its
\* place in the model calls for, at every moment of its run, in every epoch and
\* interleaving, until a wait is abandoned ("no reader and writer ever share
\* one", the x[0]/x[1] double buffer and the buffers every layer reuses) ...
THEOREM FedBodiesReadCurrentInputs ==
  ASSUME InputsAreFed, ~ Smoke
  PROVE  VSpec => [](abort \/ InputsAreCurrent)
<1>1. VSpec => Spec
  BY CachesImplementProtocol
<1>2. VInit => TokensLeft /\ TopkHeld /\ ReadsHeld
  BY HeldAtStart, HeldFirst DEF VInit, DInit, ReadsHeld
<1>3. IInv /\ TokensLeft /\ [Next]_vars => TokensLeft'
  BY TokensLeftStep
<1>4. UpstreamIsJustified /\ ElectionsAreExact
  BY DEF InputsAreFed
<1>5. IInv /\ TokensDoNotOverlap /\ TopkHeld /\ [Next]_vars => TopkHeld'
  BY <1>4, TopkHeldStep
<1>6. IInv /\ [Next]_vars => (abort => abort')
  BY AbortStays DEF IInv
<1>7. IInv /\ TokensLeft /\ TopkHeld /\ ReadsHeld /\ (abort => abort') /\ [VNext]_vvars => ReadsHeld'
  BY StoresHeldStep DEF ReadsHeld
<1>8. IInv /\ TokensLeft /\ TopkHeld /\ ReadsHeld => abort \/ InputsAreCurrent
  BY HeldInputs DEF ReadsHeld
<1> QED
  BY <1>1, <1>2, <1>3, <1>5, <1>6, <1>7, <1>8, CountersMeanArrivals, OneTokenAtATime, PTL
  DEF VSpec, Spec

\* ... and always when no wait runs into its timeout.
THEOREM FedBodiesAlwaysReadCurrentInputs ==
  ASSUME InputsAreFed, ~ Smoke, ~ MayTimeOut
  PROVE  VSpec => []InputsAreCurrent
<1>1. VSpec => Spec
  BY CachesImplementProtocol
<1>2. Init => ~ abort
  BY DEF Init
<1>3. IInv /\ ~ abort /\ [Next]_vars => ~ abort'
  BY AbortStays DEF IInv
<1>4. VSpec => [](abort \/ InputsAreCurrent)
  BY FedBodiesReadCurrentInputs
<1> QED
  BY <1>1, <1>2, <1>3, <1>4, CountersMeanArrivals, PTL DEF Spec

-----------------------------------------------------------------------------
(* What a body reads the caches of its chiplet show, if the graph says so. *)

\* A task that has counted on an event has started.
LEMMA CountedHasStarted ==
  ASSUME IInv, NEW g \in TaskIds, NEW v \in Waves, NEW e \in Events, NEW k,
         <<<<g, v>>, k>> \in arrived[e]
  PROVE  HasStarted(g, k)
<1> USE DEF IInv
<1> DEFINE b == Owner(g)
           t == Desc[g]
           a == <<<<g, v>>, k>>
<1>1. a \in arrived[e] /\ a[1] = <<g, v>> /\ a[1][1] = g /\ a[2] = k
  OBVIOUS
<1> HIDE DEF a
<1>2. Behind(g, k) \/ (AtTask(g) /\ k = Epoch(b) /\ HasCounted(<<g, v>>, e))
  BY <1>1 DEF Fresh
<1>3. ASSUME HasCounted(<<g, v>>, e) PROVE pc[b] \in Started
  <2>1. b \in Blocks /\ PlaceOK(b) /\ pc[b] \in PCs
    BY TaskFacts DEF Places, TypeOK
  <2>2. pc[b] \in {"topk", "body", "publish"} => pc[b] \in Started
    BY DEF Started, Running
  <2>3. ASSUME NEW c \in 0 .. Chunks(t) - 1, NEW w \in Signallers, c < wave[b][w]
        PROVE  pc[b] \in Started
    <3>1. w \in Waves /\ c >= 0
      BY ConstantsAssumption DEF Signallers, Waves
    <3>2. wave[b] # [u \in Waves |-> 0]
      BY <2>3, <3>1
    <3> QED
      BY <2>1, <3>2 DEF PlaceOK, PCs, Started, Waiting, Running
  <2> QED
    BY <1>3, <2>2, <2>3 DEF HasCounted
<1> QED
  BY <1>2, <1>3 DEF HasStarted

\* The acquirers of a body's place have started in its epoch.
LEMMA AcquirersStarted ==
  ASSUME IInv, TopkHeld, UpstreamIsJustified, NEW b \in Blocks, pc[b] \in Running,
         NEW g \in Acquirers(Here(b), <<pc[b], inner[b]>>)
  PROVE  g \in TaskIds /\ Acquires(g) /\ Desc[g].xcd = b[1] /\ HasStarted(g, Epoch(b))
<1> USE DEF IInv
<1> DEFINE j == Here(b)
           k == Epoch(b)
           at == <<pc[b], inner[b]>>
<1>1. /\ j \in TaskIds /\ Owner(j) = b /\ AtTask(j) /\ Desc[j].xcd = b[1] /\ pc[b] \in Started
      /\ k \in Nat
  BY Standing, EpochType DEF Running, Started
<1>2. /\ g \in TaskIds /\ Acquires(g) /\ Desc[g].xcd = b[1]
      /\ \/ g = j
         \/ j \in After[g]
         \/ \E e \in Known[j][at], v \in Waves : <<g, v>> \in Producers[e]
  BY <1>1 DEF Acquirers
<1>3. CASE g = j
  <2>1. AtTask(g) /\ k = Epoch(Owner(g)) /\ pc[Owner(g)] \in Started
    BY <1>1, <1>3, Zenon
  <2> QED
    BY <1>2, <2>1 DEF HasStarted
<1>4. CASE j \in After[g]
  <2>1. Owner(j) = Owner(g) /\ TaskPosition[j] > TaskPosition[g]
    BY <1>2, <1>4 DEF After
  <2>2. k = Epoch(Owner(g))
    BY <1>1, <2>1, Zenon
  <2> HIDE DEF j, k
  <2>3. Behind(g, k)
    BY <1>1, <1>2, <2>1, <2>2, BehindBefore
  <2> QED
    BY <1>2, <2>3 DEF HasStarted, k
<1>5. ASSUME NEW e \in Known[j][at], NEW v \in Waves, <<g, v>> \in Producers[e]
      PROVE  HasStarted(g, k)
  <2>1. e \in Events /\ AllArrived(e, k)
    BY KnownArrived
  <2>2. <<<<g, v>>, k>> \in arrived[e]
    BY <1>5, <2>1 DEF AllArrived
  <2> QED
    BY <1>2, <2>1, <2>2, CountedHasStarted
<1> QED
  BY <1>2, <1>3, <1>4, <1>5

\* What a task knows as it starts is complete and published, and the epochs
\* ahead of it are settled.
LEMMA StartedKnows ==
  ASSUME IInv, ~ abort, UpstreamIsJustified, NEW g \in TaskIds, NEW m \in Nat \ {0},
         Acquires(g), HasStarted(g, m)
  PROVE  /\ Settled(m - 1)
         /\ \A e \in Known[g][FirstPlace(g)] : e \in Events /\ Delivered(e, m)
<1> USE DEF IInv
<1> DEFINE t == Desc[g]
           b == Owner(g)
           at == FirstPlace(g)
<1>1. /\ b \in Blocks /\ t \in TaskDescriptor /\ BodyWaits(t) \in Nat /\ at \in PlacesOf(g)
      /\ t.wait_event # NoEvent /\ t.wait_event \in Events /\ Passed(g, at) \subseteq {t.wait_event} \cup
           { BodyWaitEvent(t, n) : n \in 1 .. at[2] }
  <2>1. b \in Blocks /\ t \in TaskDescriptor /\ BodyWaits(t) \in Nat
    BY TaskFacts, BodyWaitsType
  <2>2. at \in PlacesOf(g) /\ at[1] # "topk"
    BY <2>1 DEF FirstPlace, PlacesOf
  <2>3. t.wait_event # NoEvent /\ t.wait_event \in WaitsOf(t)
    BY DEF Acquires, WaitsOf
  <2>4. t.wait_event \in Events
    BY <2>3, AwaitedFacts
  <2> QED
    BY <2>1, <2>2, <2>3, <2>4 DEF Passed
<1>2. at[2] = 0
  BY <1>1 DEF FirstPlace
<1>3. Passed(g, at) \subseteq {t.wait_event}
  BY <1>1, <1>2
<1>4. Settled(m - 1) /\ Delivered(t.wait_event, m)
  <2>1. CASE Behind(g, m)
    <3>0. PICK e \in Events : \E a \in arrived[e] : a[1][1] = g /\ a[2] = m
      BY <2>1, StoringTaskArrives DEF Acquires
    <3>1. PICK a \in arrived[e] : a[1][1] = g /\ a[2] = m
      BY <3>0
    <3> QED
      BY <1>1, <3>1 DEF Gates, WaitsOver, WaitsOf
  <2>2. CASE AtTask(g) /\ m = Epoch(b) /\ pc[b] \in Started
    <3>1. Current(b) = t
      BY <2>2 DEF AtTask, Here, Current
    <3> QED
      BY <1>1, <2>2, <3>1 DEF Gates, WaitsOver
  <2> QED
    BY <2>1, <2>2 DEF HasStarted
<1>5. ASSUME NEW e \in Known[g][at] PROVE e \in Events /\ Delivered(e, m)
  <2>1. \/ e \in Passed(g, at)
        \/ \E j \in ProducersOf(Passed(g, at)) : e \in Upstream[j]
    BY <1>1 DEF Known
  <2>2. ASSUME NEW j \in ProducersOf(Passed(g, at)), e \in Upstream[j]
        PROVE  e \in Events /\ Delivered(e, m)
    <3>1. PICK f \in Passed(g, at), v \in Waves : <<j, v>> \in Producers[f]
      BY DEF ProducersOf
    <3>2. f \in Events /\ <<<<j, v>>, m>> \in arrived[f]
      BY <1>1, <1>3, <1>4, <3>1 DEF Delivered, AllArrived
    <3> DEFINE a == <<<<j, v>>, m>>
    <3>3. a \in arrived[f] /\ e \in Upstream[a[1][1]] /\ a[2] = m
      BY <2>2, <3>2
    <3> HIDE DEF a
    <3> QED
      BY <3>2, <3>3, UpstreamArrived
  <2> QED
    BY <1>1, <1>3, <1>4, <2>1, <2>2
<1> QED
  BY <1>4, <1>5

\* A step of a workgroup starts a task by ending the wait in front of it.
LEMMA StartedStep ==
  ASSUME IInv, ~ Smoke, ~ abort', NEW b \in Blocks, Worker(b), NEW g \in TaskIds, NEW m \in Nat,
         HasStarted(g, m)'
  PROVE  \/ HasStarted(g, m)
         \/ g = Here(b) /\ pc[b] = "wait" /\ pc'[b] \in Running /\ UNCHANGED <<inner, slot>>
<1> USE DEF IInv
<1> DEFINE c == Owner(g)
<1>1. c \in Blocks /\ pc[b] # "exit" /\ epoch0' = epoch0
  BY TaskFacts, OthersStay
<1>2. CASE c # b
  <2>1. pc'[c] = pc[c] /\ slot'[c] = slot[c] /\ Epoch(c)' = Epoch(c)
    BY <1>1, <1>2, OthersStay
  <2> QED
    BY <2>1 DEF HasStarted, Behind, AtTask, Here
<1>3. CASE c = b /\ Advance(b) /\ pc[b] \in {"body", "publish"}
  <2>1. pc'[b] \notin Started
    BY <1>1, <1>3, AdvanceTo DEF Started, Running
  <2>2. Behind(g, m)' <=> Behind(g, m) \/ (g = Here(b) /\ m = Epoch(b))
    BY <1>1, <1>3, AdvanceBehind
  <2>3. AtTask(Here(b)) /\ pc[b] \in Started
    BY <1>1, <1>3, Standing DEF Started, Running
  <2> QED
    BY <1>3, <2>1, <2>2, <2>3 DEF HasStarted
<1>4. CASE c = b /\ UNCHANGED <<tok, slot>> /\ Stays(b)
  <2>1. /\ Behind(g, m)' <=> Behind(g, m)
        /\ AtTask(g)' <=> AtTask(g)
        /\ Epoch(b)' = Epoch(b)
    BY <1>1, <1>4 DEF Behind, AtTask, Here, Epoch
  <2>2. pc'[b] \in Started => pc[b] \in Started \/
          (pc[b] = "wait" /\ pc'[b] \in Running /\ UNCHANGED <<inner, slot>>)
    <3>1. pc[b] = "boundary" => pc'[b] \in {"boundary", "wait"}
      BY DEF Worker, PassBoundary, StartTask, PassBodyWait, Checkpoint, GiveUp, SignalChunk,
             ArriveRouter, PublishTopk, Signal, Publish, Goto, TypeOK
    <3> QED
      BY <1>4, <3>1 DEF Stays, Started, Running, BodyStart
  <2>3. AtTask(g) => g = Here(b)
    BY <1>4 DEF AtTask
  <2> QED
    BY <1>4, <2>1, <2>2, <2>3 DEF HasStarted
<1> QED
  BY <1>2, <1>3, <1>4, WorkerMoves DEF Moves

\* A body stores no two values to a cell.
OneEach(S) == \A c, d \in S : c[1] = d[1] => c = d

LEMMA OneEachAt ==
  /\ OneEach({})
  /\ \A S, L, s : OneEach(At(S, L, s))
  /\ \A S, L, s : \A c \in At(S, L, s) : c[1] \in S
BY DEF OneEach, At

LEMMA OneWritten ==
  ASSUME NEW i \in TaskIds, NEW p \in Running
  PROVE  OneEach(WrittenBy(Desc[i], p))
<1> DEFINE t == Desc[i]
           own(buf) == <<buf, t.xcd, t.worker>>
<1>1. OneEach(RouterWrites(t, p))
  BY OneEachAt DEF RouterWrites, Mid
<1>2. \A c \in X0 : c[1] = "x0"
  BY DEF X0
<1>3. ASSUME NEW S, NEW T, NEW L, NEW M, NEW s, NEW u, \A c \in S, d \in T : c # d
      PROVE  OneEach(At(S, L, s) \cup At(T, M, u))
  BY <1>3 DEF OneEach, At
<1>4. OneEach(ReduceWrites(t))
  <2> DEFINE S == {<<"x_local", t.xcd>>}
             A == At(S, FoldedLayer(t), "folded")
             B == At(X0, t.layer, "in")
  <2>1. \A c \in S, d \in X0 : c # d
    BY <1>2
  <2>2. OneEach(A \cup B) /\ OneEach(A)
    <3> HIDE DEF S
    <3> QED
      BY <1>3, <2>1, OneEachAt
  <2>3. A \cup {} = A
    OBVIOUS
  <2>4. \A T : OneEach(Mid(T, t))
    BY OneEachAt DEF Mid
  <2>5. \/ \E T : ReduceWrites(t) = Mid(T, t)
        \/ ReduceWrites(t) = A \cup B
        \/ ReduceWrites(t) = A \cup {}
    <3> HIDE DEF A, B
    <3> QED
      BY DEF ReduceWrites, A, B
  <2> QED
    BY <2>2, <2>3, <2>4, <2>5, Zenon
<1>5. OneEach(Mid({own("q"), own("kv_a")}, t)
           \cup (IF Publisher(t) /\ t.layer # 0 /\ "LOCAL_FOLD" \notin t.flags
                 THEN At(X0, t.layer, "in") ELSE {}))
  <2> DEFINE S == {own("q"), own("kv_a")}
             A == At(S, t.layer, "mid")
             B == At(X0, t.layer, "in")
  <2>1. \A c \in S, d \in X0 : c # d
    BY <1>2
  <2>2. OneEach(A \cup B) /\ OneEach(A)
    <3> HIDE DEF S
    <3> QED
      BY <1>3, <2>1, OneEachAt
  <2>3. A \cup {} = A
    OBVIOUS
  <2> QED
    BY <2>2, <2>3, Zenon DEF Mid
<1>6. ASSUME NEW S PROVE OneEach(Mid(S, t))
  BY OneEachAt DEF Mid
<1> QED
  BY <1>1, <1>4, <1>5, <1>6, OneEachAt DEF WrittenBy

LEMMA OneStore ==
  ASSUME NEW i \in TaskIds, NEW at \in SitesOf(i), NEW k \in Nat,
         NEW o \in StoresFrom(i, at, k), NEW u \in StoresFrom(i, at, k), o[1] = u[1]
  PROVE  o = u
<1> DEFINE t == Desc[i]
<1>1. CASE at[1] = "chunk"
  BY <1>1 DEF StoresFrom
<1>2. CASE at[1] # "chunk"
  <2>1. at[1] \in Running
    BY <1>2, SiteFacts
  <2>2. OneEach(Stores[i][at[1]]) /\ Untimed(Stores[i][at[1]])
    BY <2>1, OneWritten, FixedTasks DEF Stores
  <2> DEFINE Fix(v) == \E c \in Stores[i][at[1]] : v = <<c[1], <<k, c[2], c[3]>>>>
             Row(v) == v = <<<<"kv", t.layer, k>>, <<k, t.layer, "mid">>>>
             Token(v) == v = <<<<"token_in", k + 1>>, <<k + 1, -1, "in">>>>
  <2>3. \A v \in StoresFrom(i, at, k) : Fix(v) \/ Row(v) \/ Token(v)
    BY <1>2 DEF StoresFrom, OutputsAt
  <2>4. \A v : /\ Fix(v) => v[1][1] \notin Timed
               /\ Row(v) => v[1][1] = "kv"
               /\ Token(v) => v[1][1] = "token_in"
    BY <2>2 DEF Untimed
  <2>5. Fix(o) /\ Fix(u) => o = u
    BY <2>2 DEF OneEach
  <2> QED
    BY <2>3, <2>4, <2>5 DEF Timed
<1> QED
  BY <1>1, <1>2

\* Of what lands together each cell gets one value.
LEMMA OneLands ==
  ASSUME IInv, ~ Smoke, ~ abort', TopkHeld, StoresLandOnce, NEW b \in Blocks, Worker(b),
         NEW o \in Landed(b), NEW u \in Landed(b), o[1] = u[1]
  PROVE  o = u
<1>1. /\ pc[b] \in Running
      /\ \E n \in TaskIds, k \in Nat \ {0} :
           n = Here(b) /\ k = Epoch(b) /\ \E at \in SitesOf(n) : o \in StoresFrom(n, at, k)
  BY LandedIsStored
<1>2. \E n \in TaskIds, k \in Nat \ {0} :
           n = Here(b) /\ k = Epoch(b) /\ \E at \in SitesOf(n) : u \in StoresFrom(n, at, k)
  BY LandedIsStored
<1>3. PICK n \in TaskIds, k \in Nat \ {0} : n = Here(b) /\ k = Epoch(b)
  BY <1>1
<1>4. PICK at \in SitesOf(n) : o \in StoresFrom(n, at, k)
  BY <1>1, <1>3
<1>5. PICK bt \in SitesOf(n) : u \in StoresFrom(n, bt, k)
  BY <1>2, <1>3
<1>6. at = bt
  BY <1>4, <1>5, SitesApart
<1> QED
  BY <1>4, <1>5, <1>6, OneStore

\* The changes of a chiplet's L2 come from stores that are done, as long as
\* they are not written back.
LEMMA DoneOriginStays ==
  ASSUME IInv, ~ Smoke, ~ abort', NEW b \in Blocks, Worker(b),
         NEW x \in Xcds, NEW c, DoneOrigin(x, c), ~ (x = b[1] /\ Publish(b))
  PROVE  DoneOrigin(x, c)'
<1> USE DEF IInv
<1>0. PICK n \in TaskIds, l \in 1 .. Tokens : \E at \in SitesOf(n) :
        /\ Desc[n].xcd = x /\ \E o \in StoresFrom(n, at, l) : o[1] = c
        /\ Done(n, at, l)
        /\ \A e \in Flushed[n] : ~ ShareOut(x, e, l)
  BY DEF DoneOrigin
<1>1. PICK at \in SitesOf(n) :
        /\ Desc[n].xcd = x /\ \E o \in StoresFrom(n, at, l) : o[1] = c
        /\ Done(n, at, l)
        /\ \A e \in Flushed[n] : ~ ShareOut(x, e, l)
  BY <1>0
<1>2. l \in Nat
  BY ConstantsAssumption
<1>3. Done(n, at, l)'
  BY <1>1, <1>2, DoneStays
<1>4. ASSUME NEW e \in Flushed[n] PROVE ~ ShareOut(x, e, l)'
  <2>1. e \in GlobalEvents /\ ~ ShareOut(x, e, l) /\ Protocol /\ OnePublisher
    BY <1>1, <1>4 DEF Flushed, Protocol
  <2>2. CASE Publish(b)
    BY <1>2, <2>1, <2>2, PublishShares
  <2>3. CASE ~ Publish(b)
    BY <1>2, <2>1, <2>3, SharesStay
  <2> QED
    BY <2>2, <2>3
<1> QED
  BY <1>1, <1>3, <1>4 DEF DoneOrigin

LEMMA NewDoneOrigin ==
  ASSUME IInv, ~ Smoke, ~ abort', TokensLeft, TopkHeld, NEW b \in Blocks, Worker(b), NEW o \in Landed(b)
  PROVE  DoneOrigin(b[1], o[1])'
<1> USE DEF IInv
<1>1. /\ pc[b] \in Running
      /\ \E n \in TaskIds, k \in Nat \ {0} :
           /\ n = Here(b) /\ k = Epoch(b)
           /\ \E at \in SitesOf(n) :
                o \in StoresFrom(n, at, k) /\ ~ Done(n, at, k) /\ Done(n, at, k)'
  BY LandedIsStored
<1>2. PICK n \in TaskIds, k \in Nat \ {0} :
           /\ n = Here(b) /\ k = Epoch(b)
           /\ \E at \in SitesOf(n) :
                o \in StoresFrom(n, at, k) /\ ~ Done(n, at, k) /\ Done(n, at, k)'
  BY <1>1
<1>3. PICK at \in SitesOf(n) : o \in StoresFrom(n, at, k) /\ Done(n, at, k)'
  BY <1>2
<1>4. pc[b] # "exit" /\ ~ Publish(b) /\ b[1] \in Xcds
  BY <1>1, BlockXcd DEF Running, Publish
<1>5. k \in 1 .. Tokens /\ Desc[n].xcd = b[1]
  BY <1>2, <1>4, RunningEpoch, Standing
<1>6. ASSUME NEW e \in Flushed[n] PROVE ~ ShareOut(b[1], e, k)'
  <2>1. e \in GlobalEvents /\ Protocol
    BY <1>6 DEF Flushed, Protocol
  <2>2. ~ ShareOut(b[1], e, k)
    BY <1>1, <1>2, <1>6, FlushedLater
  <2> QED
    BY <1>4, <2>1, <2>2, SharesStay
<1> QED
  BY <1>3, <1>5, <1>6 DEF DoneOrigin

\* The effects of a workgroup's step on its chiplet's L2 and its own L1.
CachesShaped == DOMAIN l2 = Xcds /\ DOMAIN l1 = Blocks /\ Cells \subseteq DOMAIN ram

\* A step lands o in the caches.
LandsIn(b, o, c) == o \in Landed(b) /\ ~ InLds(o[1]) /\ o[1] = c

\* What becomes of a line.
LEMMA LineAfter ==
  ASSUME NEW b \in Blocks, WorkerCaches(b), CachesShaped,
         NEW x, x = b[1], NEW c
  PROVE  /\ c \in DOMAIN l2'[x] =>
              \/ \E o : LandsIn(b, o, c) /\ l2'[x][c].value = o[2]
              \/ /\ ~ \E o : LandsIn(b, o, c)
                 /\ c \in DOMAIN l2[x] /\ l2'[x][c].value = l2[x][c].value
                 /\ c \in DirtyIn(l2'[x]) => c \in DirtyIn(l2[x])
                 /\ Acquire(b) = "GLOBAL" => c \in DirtyIn(l2[x])
              \/ c \notin DirtyIn(l2'[x]) /\ l2'[x][c].value = ram'[c]
         /\ ~ Releases(b) /\ (c \in DirtyIn(l2[x]) \/ \E o : LandsIn(b, o, c)) =>
              c \in DirtyIn(l2'[x])
<1> DEFINE landed  == { o \in Landed(b) : ~InLds(o[1]) }
           new     == { o[1] : o \in landed }
           fresh   == [d \in new |-> Line((CHOOSE o \in landed : o[1] = d)[2], TRUE)]
           stored  == Stored(l2[b[1]], landed)
           lines   == IF Releases(b) THEN Cleaned(stored) ELSE stored
           acquire == Acquire(b)
           kept    == IF acquire = "GLOBAL" THEN Restrict(lines, DirtyIn(lines)) ELSE lines
           copies  == IF acquire # "NONE" THEN {} ELSE DOMAIN l1[b] \ { o[1] : o \in landed }
           reads   == PlainReads(b)'
           fetched == (reads \ copies) \ DOMAIN kept
           filled  == Overlay([d \in fetched |-> Line(ram'[d], FALSE)], kept)
<1>1. x \in Xcds /\ DOMAIN l2 = Xcds
  BY BlockXcd DEF CachesShaped
<1>2. l2' = [l2 EXCEPT ![b[1]] = filled]
  BY Zenon DEF WorkerCaches
<1>3. l2'[x] = filled
  <2> HIDE DEF filled
  <2> QED
    BY <1>1, <1>2
<1>4. (\E o : LandsIn(b, o, c)) <=> c \in new
  BY DEF LandsIn
<1>5. /\ c \in new => /\ c \in DOMAIN stored /\ stored[c].dirty
                      /\ \E o : LandsIn(b, o, c) /\ stored[c].value = o[2]
      /\ c \notin new => /\ c \in DOMAIN stored <=> c \in DOMAIN l2[x]
                         /\ c \in DOMAIN stored => stored[c] = l2[x][c]
  <2> HIDE DEF landed
  <2>1. stored = Overlay(fresh, l2[x])
    BY DEF Stored
  <2>2. DOMAIN fresh = new /\ \A d \in new : fresh[d] = Line((CHOOSE o \in landed : o[1] = d)[2], TRUE)
    OBVIOUS
  <2>3. c \in new => \E o \in landed : o[1] = c /\ fresh[c] = Line(o[2], TRUE)
    <3> SUFFICES ASSUME c \in new PROVE \E o \in landed : o[1] = c /\ fresh[c] = Line(o[2], TRUE)
      OBVIOUS
    <3> DEFINE o == CHOOSE q \in landed : q[1] = c
    <3>1. o \in landed /\ o[1] = c
      OBVIOUS
    <3>2. fresh[c] = Line(o[2], TRUE)
      BY <2>2
    <3> QED
      BY <3>1, <3>2
  <2> HIDE DEF fresh, new
  <2>4. /\ DOMAIN stored = DOMAIN fresh \cup DOMAIN l2[x]
        /\ c \in DOMAIN stored => stored[c] = IF c \in new THEN fresh[c] ELSE l2[x][c]
    <3> HIDE DEF stored
    <3> QED
      BY <2>1, <2>2 DEF Overlay
  <2> HIDE DEF stored
  <2>5. \A o \in landed : o[1] = c => LandsIn(b, o, c)
    BY DEF landed, LandsIn
  <2> QED
    BY <2>2, <2>3, <2>4, <2>5 DEF Line
<1> HIDE DEF stored, landed
<1>6. /\ c \in DOMAIN lines <=> c \in DOMAIN stored
      /\ c \in DOMAIN lines => lines[c].value = stored[c].value
      /\ c \in DirtyIn(lines) <=> ~ Releases(b) /\ c \in DirtyIn(stored)
  BY DEF Cleaned, DirtyIn, Line
<1> HIDE DEF lines
<1>7. /\ c \in DOMAIN kept => c \in DOMAIN lines /\ kept[c] = lines[c]
      /\ acquire = "GLOBAL" /\ c \in DOMAIN kept => c \in DirtyIn(lines)
      /\ c \in DirtyIn(lines) => c \in DOMAIN kept
  BY DEF Restrict, DirtyIn
<1> HIDE DEF kept, acquire
<1>8. /\ c \in DOMAIN kept => c \in DOMAIN filled /\ filled[c] = kept[c]
      /\ c \in DOMAIN filled /\ c \notin DOMAIN kept => filled[c] = Line(ram'[c], FALSE)
  <2> HIDE DEF reads, copies
  <2> QED
    BY DEF Overlay
<1> HIDE DEF filled, new, reads, copies, fetched
<1>9. /\ DirtyIn(lines) = { d \in DOMAIN lines : lines[d].dirty }
      /\ DirtyIn(stored) = { d \in DOMAIN stored : stored[d].dirty }
      /\ DirtyIn(l2[x]) = { d \in DOMAIN l2[x] : l2[x][d].dirty }
      /\ DirtyIn(l2'[x]) = { d \in DOMAIN filled : filled[d].dirty }
  BY <1>3 DEF DirtyIn
<1>10. ASSUME c \in DOMAIN filled
       PROVE  \/ \E o : LandsIn(b, o, c) /\ l2'[x][c].value = o[2]
              \/ /\ ~ \E o : LandsIn(b, o, c)
                 /\ c \in DOMAIN l2[x] /\ l2'[x][c].value = l2[x][c].value
                 /\ c \in DirtyIn(l2'[x]) => c \in DirtyIn(l2[x])
                 /\ Acquire(b) = "GLOBAL" => c \in DirtyIn(l2[x])
              \/ c \notin DirtyIn(l2'[x]) /\ l2'[x][c].value = ram'[c]
  <2>1. CASE c \notin DOMAIN kept
    <3>1. filled[c] = Line(ram'[c], FALSE)
      BY <1>8, <1>10, <2>1
    <3>2. filled[c].value = ram'[c] /\ ~ filled[c].dirty
      BY <3>1 DEF Line
    <3> QED
      BY <1>3, <1>9, <3>2
  <2>2. CASE c \in DOMAIN kept /\ c \in new
    <3>1. filled[c].value = stored[c].value
      BY <1>6, <1>7, <1>8, <2>2
    <3> QED
      BY <1>3, <1>5, <2>2, <3>1
  <2>3. CASE c \in DOMAIN kept /\ c \notin new
    <3>1. filled[c] = lines[c] /\ c \in DOMAIN lines /\ lines[c].value = stored[c].value
      BY <1>6, <1>7, <1>8, <2>3
    <3>2. c \in DOMAIN l2[x] /\ stored[c] = l2[x][c] /\ c \in DOMAIN stored
      BY <1>5, <1>6, <2>3, <3>1
    <3>3. c \in DirtyIn(lines) => c \in DirtyIn(l2[x])
      BY <1>6, <1>9, <3>2
    <3>4. c \in DirtyIn(l2'[x]) => c \in DirtyIn(lines)
      BY <1>9, <3>1
    <3>5. Acquire(b) = "GLOBAL" => c \in DirtyIn(lines)
      BY <1>7, <2>3 DEF acquire
    <3> QED
      BY <1>3, <1>4, <2>3, <3>1, <3>2, <3>3, <3>4, <3>5
  <2> QED
    BY <2>1, <2>2, <2>3
<1>11. ASSUME ~ Releases(b), c \in DirtyIn(l2[x]) \/ c \in new PROVE c \in DirtyIn(l2'[x])
  <2>1. c \in DirtyIn(stored)
    BY <1>5, <1>9, <1>11
  <2>2. c \in DirtyIn(lines)
    BY <1>6, <1>11, <2>1
  <2>3. c \in DOMAIN filled /\ filled[c] = lines[c]
    BY <1>7, <1>8, <2>2
  <2> QED
    BY <1>9, <2>2, <2>3
<1> QED
  BY <1>3, <1>4, <1>10, <1>11

\* What becomes of the memory below.
LEMMA RamAfter ==
  ASSUME ~ CoherentActs, NEW b \in Blocks, WorkerCaches(b), NEW x, x = b[1], NEW c
  PROVE  /\ ~ Releases(b) => ram' = ram
         /\ Releases(b) =>
              /\ Landed(b) = {}
              /\ c \in DirtyIn(l2[x]) => ram'[c] = l2[x][c].value
              /\ c \in DOMAIN ram /\ c \notin DirtyIn(l2[x]) => ram'[c] = ram[c]
         /\ DOMAIN ram \subseteq DOMAIN ram'
<1> DEFINE landed  == { o \in Landed(b) : ~InLds(o[1]) }
           stored  == Stored(l2[b[1]], landed)
<1>1. ram' = IF Releases(b) THEN WrittenBack(stored) ELSE ram
  BY Zenon DEF WorkerCaches
<1>2. CASE ~ Releases(b)
  BY <1>1, <1>2
<1>3. CASE Releases(b)
  <2>1. pc[b] = "publish"
    BY <1>3 DEF Releases
  <2>2. Outputs(b) = {}
    BY <2>1 DEF Outputs, Running
  <2>3. Landed(b) = {} /\ landed = {}
    BY <2>2 DEF Landed
  <2>4. DirtyIn(stored) = DirtyIn(l2[x]) /\ \A d \in DirtyIn(stored) : stored[d] = l2[x][d]
    <3> HIDE DEF landed
    <3> QED
      BY <2>3 DEF Stored, Overlay, DirtyIn
  <2> HIDE DEF stored
  <2>5. ram' = Overlay([d \in DirtyIn(stored) |-> stored[d].value], ram)
    BY <1>1, <1>3 DEF WrittenBack
  <2>6. /\ DOMAIN ram \subseteq DOMAIN ram'
        /\ c \in DirtyIn(stored) => ram'[c] = stored[c].value
        /\ c \in DOMAIN ram /\ c \notin DirtyIn(stored) => ram'[c] = ram[c]
    BY <2>5 DEF Overlay
  <2> QED
    BY <1>3, <2>3, <2>4, <2>6
<1> QED
  BY <1>2, <1>3

\* What becomes of the L1s.
LEMMA CopyAfter ==
  ASSUME NEW b \in Blocks, WorkerCaches(b), CachesShaped, NEW c
  PROVE  /\ DOMAIN l1' = Blocks
         /\ \A a \in Blocks : a # b => l1'[a] = l1[a]
         /\ c \in PlainReads(b)' =>
              /\ c \in DOMAIN l1'[b]
              /\ \/ Acquire(b) = "NONE" /\ c \in DOMAIN l1[b] /\ l1'[b][c] = l1[b][c]
                    /\ ~ \E o : LandsIn(b, o, c)
                 \/ c \in DOMAIN l2'[b[1]] /\ l1'[b][c] = l2'[b[1]][c].value
         /\ c \in DOMAIN l1'[b] /\ c \notin PlainReads(b)' =>
              c \in DOMAIN l1[b] /\ l1'[b][c] = l1[b][c]
<1> DEFINE landed  == { o \in Landed(b) : ~InLds(o[1]) }
           stored  == Stored(l2[b[1]], landed)
           lines   == IF Releases(b) THEN Cleaned(stored) ELSE stored
           acquire == Acquire(b)
           kept    == IF acquire = "GLOBAL" THEN Restrict(lines, DirtyIn(lines)) ELSE lines
           copies  == IF acquire # "NONE" THEN {} ELSE DOMAIN l1[b] \ { o[1] : o \in landed }
           reads   == PlainReads(b)'
           fetched == (reads \ copies) \ DOMAIN kept
           filled  == Overlay([d \in fetched |-> Line(ram'[d], FALSE)], kept)
           copied  == [d \in copies \cup reads |-> IF d \in copies THEN l1[b][d] ELSE filled[d].value]
<1>1. b[1] \in Xcds /\ DOMAIN l2 = Xcds /\ DOMAIN l1 = Blocks
  BY BlockXcd DEF CachesShaped
<1>2. l2' = [l2 EXCEPT ![b[1]] = filled] /\ l1' = [l1 EXCEPT ![b] = copied]
  BY Zenon DEF WorkerCaches
<1>3. /\ l2'[b[1]] = filled /\ l1'[b] = copied /\ DOMAIN l1' = Blocks
      /\ \A a \in Blocks : a # b => l1'[a] = l1[a]
  <2> HIDE DEF filled, copied
  <2> QED
    BY <1>1, <1>2
<1>4. c \in copies => acquire = "NONE" /\ c \in DOMAIN l1[b] /\ ~ \E o : LandsIn(b, o, c)
  <2> HIDE DEF acquire
  <2> QED
    BY DEF LandsIn
<1> HIDE DEF copies, reads, kept
<1>5. c \in reads /\ c \notin copies => c \in DOMAIN filled
  BY DEF Overlay
<1> HIDE DEF filled, fetched
<1>6. /\ c \in DOMAIN copied <=> c \in copies \/ c \in reads
      /\ c \in copies => copied[c] = l1[b][c]
      /\ c \in reads /\ c \notin copies => copied[c] = filled[c].value
  OBVIOUS
<1> HIDE DEF copied
<1> QED
  BY <1>3, <1>4, <1>5, <1>6 DEF reads, acquire

LEMMA CachesShapedStep ==
  ASSUME ~ CoherentActs, CachesShaped, [VNext]_vvars
  PROVE  CachesShaped'
<1>1. ASSUME NEW b \in Blocks, WorkerCaches(b) PROVE CachesShaped'
  <2>1. DOMAIN l2' = Xcds
    BY <1>1, DirtyAfter DEF CachesShaped
  <2>2. DOMAIN l1' = Blocks
    BY <1>1, CopyAfter
  <2>3. DOMAIN ram \subseteq DOMAIN ram'
    BY <1>1, RamAfter
  <2> QED
    BY <2>1, <2>2, <2>3 DEF CachesShaped
<1>2. LaunchCaches => CachesShaped'
  BY DEF LaunchCaches, CachesShaped
<1>3. UNCHANGED caches \/ UNCHANGED vvars => CachesShaped'
  BY DEF caches, vvars, CachesShaped
<1> QED
  BY <1>1, <1>2, <1>3 DEF VNext

CachesHeld == CachesShaped /\ DirtyDone /\ DirtyIsCurrent /\ RamIsCurrent

\* A step's stores are what the cells hold after it; the others hold what they did.
LEMMA LandedHeld ==
  ASSUME IInv, ~ Smoke, ~ abort', TopkHeld, StoresLandOnce, NEW b \in Blocks, Worker(b), Land(b),
         NEW c, ~ InLds(c)
  PROVE  /\ \A o : LandsIn(b, o, c) => Holds(c, o[2])'
         /\ ~ (\E o : LandsIn(b, o, c)) => \A v : Holds(c, v) => Holds(c, v)'
<1>1. ASSUME NEW o, LandsIn(b, o, c) PROVE Holds(c, o[2])'
  <2>1. o \in Landed(b) /\ o[1] = c
    BY <1>1 DEF LandsIn
  <2>2. PICK q \in Landed(b) : q[1] = c /\ Holds(c, q[2])'
    BY <2>1, LandHolds
  <2>3. q = o
    BY <2>1, <2>2, OneLands
  <2> QED
    BY <2>2, <2>3
<1>2. ASSUME ~ (\E o : LandsIn(b, o, c)) PROVE \A v : Holds(c, v) => Holds(c, v)'
  <2>1. ~ (\E q \in Landed(b) : q[1] = c)
    BY <1>2 DEF LandsIn
  <2> QED
    BY <2>1, LandHolds
<1> QED
  BY <1>1, <1>2

LEMMA PublishReleases ==
  ASSUME IInv, NEW b \in Blocks, Worker(b), Publish(b)
  PROVE  Releases(b)
<1>1. pc[b] = "publish" /\ Advance(b) /\ epoch0' = epoch0
  BY DEF Publish, host
<1> QED
  BY <1>1, AdvanceTo DEF IInv, Releases

LEMMA DirtyDoneStep ==
  ASSUME IInv, ~ Smoke, ~ abort', TokensLeft, TopkHeld, CachesShaped, DirtyDone,
         NEW b \in Blocks, Worker(b), WorkerCaches(b)
  PROVE  DirtyDone'
<1>1. DOMAIN l2 = Xcds /\ b[1] \in Xcds
  BY BlockXcd DEF CachesShaped
<1>2. ASSUME NEW x \in Xcds, NEW c \in DirtyIn(l2'[x]) PROVE DoneOrigin(x, c)'
  <2>1. CASE x # b[1]
    <3>1. c \in DirtyIn(l2[x])
      BY <1>1, <1>2, <2>1, DirtyAfter
    <3>2. DoneOrigin(x, c)
      BY <3>1 DEF DirtyDone
    <3> QED
      BY <2>1, <3>2, DoneOriginStays
  <2>2. CASE x = b[1]
    <3>1. ~ Releases(b) /\ (c \in DirtyIn(l2[x]) \/ \E o \in Landed(b) : o[1] = c)
      BY <1>1, <1>2, <2>2, DirtyAfter
    <3>2. CASE c \in DirtyIn(l2[x])
      <4>1. DoneOrigin(x, c) /\ ~ Publish(b)
        BY <3>1, <3>2, PublishReleases DEF DirtyDone
      <4> QED
        BY <4>1, DoneOriginStays
    <3>3. ASSUME NEW o \in Landed(b), o[1] = c PROVE DoneOrigin(x, c)'
      BY <2>2, <3>3, NewDoneOrigin
    <3> QED
      BY <3>1, <3>2, <3>3
  <2> QED
    BY <2>1, <2>2
<1> QED
  BY <1>2 DEF DirtyDone, DirtyIn

LEMMA DirtyCurrentStep ==
  ASSUME IInv, ~ Smoke, ~ abort', TokensLeft, TopkHeld, StoresLandOnce, WritebacksAreOrdered,
         CachesShaped, DirtyHeld, DirtyIsCurrent,
         NEW b \in Blocks, Worker(b), Land(b), WorkerCaches(b)
  PROVE  DirtyIsCurrent'
<1>1. DOMAIN l2 = Xcds /\ b[1] \in Xcds /\ UpstreamIsJustified
  BY BlockXcd DEF CachesShaped, WritebacksAreOrdered
<1>2. ASSUME NEW x \in Xcds, NEW c \in DirtyIn(l2'[x])
      PROVE  ~ InLds(c) /\ Holds(c, l2[x][c].value)'
  <2>1. CASE x # b[1]
    <3>1. c \in DirtyIn(l2[x]) /\ l2'[x] = l2[x]
      BY <1>1, <1>2, <2>1, DirtyAfter
    <3>2. ~ InLds(c) /\ Holds(c, l2[x][c].value) /\ Origin(x, c)
      BY <3>1 DEF DirtyIsCurrent, DirtyHeld
    <3>3. ASSUME NEW o, LandsIn(b, o, c) PROVE FALSE
      <4>1. o \in Outputs(b) /\ o[1] = c
        BY <3>3 DEF LandsIn, Landed
      <4>2. Origin(b[1], c)
        BY <1>1, <4>1, NewOrigin
      <4> QED
        BY <1>1, <2>1, <3>2, <4>2, OriginsApart
    <3>4. \A v : Holds(c, v) => Holds(c, v)'
      BY <3>2, <3>3, LandedHeld
    <3> QED
      BY <3>1, <3>2, <3>4 DEF Holds
  <2>2. CASE x = b[1]
    <3>1. c \in DOMAIN l2'[x]
      BY <1>2 DEF DirtyIn
    <3>2. CASE \E o : LandsIn(b, o, c) /\ l2'[x][c].value = o[2]
      <4>1. PICK o : LandsIn(b, o, c) /\ l2'[x][c].value = o[2]
        BY <3>2
      <4>2. ~ InLds(c)
        BY <4>1 DEF LandsIn
      <4>3. Holds(c, o[2])'
        BY <4>1, <4>2, LandedHeld
      <4> QED
        BY <4>1, <4>2, <4>3 DEF Holds
    <3>3. CASE /\ ~ \E o : LandsIn(b, o, c)
               /\ c \in DOMAIN l2[x] /\ l2'[x][c].value = l2[x][c].value
               /\ c \in DirtyIn(l2[x])
      <4>1. ~ InLds(c) /\ Holds(c, l2[x][c].value)
        BY <3>3 DEF DirtyIsCurrent
      <4>2. \A v : Holds(c, v) => Holds(c, v)'
        BY <3>3, <4>1, LandedHeld
      <4> QED
        BY <3>3, <4>1, <4>2 DEF Holds
    <3> QED
      BY <1>2, <2>2, <3>1, <3>2, <3>3, LineAfter
  <2> QED
    BY <2>1, <2>2
<1>3. \A x \in Xcds : \A c \in DirtyIn(l2'[x]) : ~ InLds(c) /\ c \in DOMAIN mem' /\ mem'[c] = l2'[x][c].value
  BY <1>2 DEF Holds
<1> QED
  BY <1>3 DEF DirtyIsCurrent, DirtyIn, Holds

LEMMA RamCurrentStep ==
  ASSUME IInv, ~ Smoke, ~ CoherentActs, ~ abort', TopkHeld, StoresLandOnce,
         CachesShaped, DirtyIsCurrent, RamIsCurrent,
         NEW b \in Blocks, Worker(b), Land(b), WorkerCaches(b)
  PROVE  RamIsCurrent'
<1> DEFINE x == b[1]
<1>1. x \in Xcds /\ Cells \subseteq DOMAIN ram /\ DOMAIN l2 = Xcds
  BY BlockXcd DEF CachesShaped
<1>2. ASSUME NEW c \in Cells, ~ InLds(c)
      PROVE  (\E y \in Xcds : c \in DirtyIn(l2'[y])) \/ Holds(c, ram[c])'
  <2> SUFFICES ASSUME \A y \in Xcds : c \notin DirtyIn(l2'[y])
               PROVE  Holds(c, ram[c])'
    OBVIOUS
  <2>1. \A y \in Xcds : y # x => c \notin DirtyIn(l2[y])
    <3>1. \A y \in Xcds : y # x => l2'[y] = l2[y]
      BY <1>1, DirtyAfter
    <3> QED
      BY <3>1
  <2>2. c \in DOMAIN ram
    BY <1>1, <1>2
  <2>3. CASE ~ Releases(b)
    <3>1. c \notin DirtyIn(l2[x]) /\ ~ \E o : LandsIn(b, o, c)
      BY <1>1, <2>3, LineAfter
    <3>2. ram' = ram
      BY <2>3, RamAfter
    <3>3. Holds(c, ram[c])
      BY <1>2, <2>1, <3>1 DEF RamIsCurrent
    <3>4. Holds(c, ram[c]) => (c \in DOMAIN mem' /\ mem'[c] = ram[c])
      BY <1>2, <3>1, LandedHeld DEF Holds
    <3> QED
      BY <3>2, <3>3, <3>4 DEF Holds
  <2>4. CASE Releases(b)
    <3>1. /\ Landed(b) = {}
          /\ c \in DirtyIn(l2[x]) => ram'[c] = l2[x][c].value
          /\ c \notin DirtyIn(l2[x]) => ram'[c] = ram[c]
      BY <2>2, <2>4, RamAfter
    <3>2. Holds(c, ram'[c])
      <4>1. CASE c \in DirtyIn(l2[x])
        BY <1>1, <3>1, <4>1 DEF DirtyIsCurrent
      <4>2. CASE c \notin DirtyIn(l2[x])
        BY <1>2, <2>1, <3>1, <4>2 DEF RamIsCurrent
      <4> QED
        BY <4>1, <4>2
    <3>3. ~ \E o : LandsIn(b, o, c)
      BY <3>1 DEF LandsIn
    <3>4. \A v : Holds(c, v) => c \in DOMAIN mem' /\ mem'[c] = v
      BY <1>2, <3>3, LandedHeld DEF Holds
    <3> QED
      BY <3>2, <3>4 DEF Holds
  <2> QED
    BY <2>3, <2>4
<1> QED
  BY <1>2 DEF RamIsCurrent, DirtyIn, Holds

LEMMA DoneOriginUnmoved ==
  ASSUME UNCHANGED <<epoch0, pc, tok, slot, inner, wave, arrived>>, NEW x, NEW c, DoneOrigin(x, c)
  PROVE  DoneOrigin(x, c)'
<1>1. \A b : Epoch(b)' = Epoch(b) /\ Current(b)' = Current(b)
  BY DEF Epoch, Current
<1>2. \A b, e, k : Publishing(b, e, k)' <=> Publishing(b, e, k)
  BY <1>1 DEF Publishing
<1>3. \A e, k : ShareOut(x, e, k)' <=> ShareOut(x, e, k)
  BY <1>2 DEF ShareOut
<1>4. \A n, at, l : Done(n, at, l)' <=> Done(n, at, l)
  BY UnmovedDone
<1> QED
  BY <1>3, <1>4 DEF DoneOrigin

\* The end of a launch leaves no change unwritten.
LEMMA LaunchHeld ==
  ASSUME CachesHeld, LaunchCaches, UNCHANGED mem, CachesShaped'
  PROVE  CachesHeld'
<1>1. \A x \in Xcds : DirtyIn(l2'[x]) = {}
  BY DEF LaunchCaches, DirtyIn, NoLines
<1>2. ASSUME NEW c \in Cells, ~ InLds(c) PROVE Holds(c, ram[c])'
  <2> DEFINE dirty == { x \in Xcds : c \in DirtyIn(l2[x]) }
  <2>1. ram'[c] = IF dirty = {} THEN ram[c] ELSE l2[CHOOSE x \in dirty : TRUE][c].value
    BY <1>2 DEF LaunchCaches
  <2>2. Holds(c, ram'[c])
    <3>1. CASE dirty = {}
      <4>1. Holds(c, ram[c])
        BY <1>2, <3>1 DEF CachesHeld, RamIsCurrent
      <4> QED
        BY <2>1, <3>1, <4>1
    <3>2. CASE dirty # {}
      <4>1. PICK x \in dirty : x = CHOOSE y \in dirty : TRUE
        BY <3>2
      <4>2. Holds(c, l2[x][c].value)
        BY <4>1 DEF CachesHeld, DirtyIsCurrent
      <4> QED
        BY <2>1, <3>2, <4>1, <4>2
    <3> QED
      BY <3>1, <3>2
  <2> QED
    BY <2>2 DEF Holds
<1>3. DirtyDone'
  BY <1>1 DEF DirtyDone, DirtyIn
<1>4. DirtyIsCurrent'
  BY <1>1 DEF DirtyIsCurrent, DirtyIn
<1>5. RamIsCurrent'
  BY <1>2 DEF RamIsCurrent, DirtyIn, Holds
<1> QED
  BY <1>3, <1>4, <1>5 DEF CachesHeld

LEMMA CachesUnmoved ==
  ASSUME CachesHeld, UNCHANGED <<epoch0, pc, tok, slot, inner, wave, arrived>>,
         UNCHANGED <<mem, ram, l2, l1>>
  PROVE  CachesHeld'
<1>1. DirtyDone'
  <2>1. \A x \in Xcds : \A c \in DirtyIn(l2[x]) : DoneOrigin(x, c)'
    BY DoneOriginUnmoved DEF CachesHeld, DirtyDone
  <2> QED
    BY <2>1 DEF DirtyDone, DirtyIn
<1>2. CachesShaped' /\ DirtyIsCurrent' /\ RamIsCurrent'
  BY DEF CachesHeld, CachesShaped, DirtyIsCurrent, RamIsCurrent, Holds, DirtyIn
<1> QED
  BY <1>1, <1>2 DEF CachesHeld

LEMMA CachesHeldStep ==
  ASSUME WritebacksAreOrdered, StoresLandOnce, ~ Smoke, ~ CoherentActs,
         IInv, ~ abort', TokensLeft, TopkHeld, DirtyHeld, CachesHeld, [VNext]_vvars
  PROVE  CachesHeld'
<1>1. CachesShaped'
  BY CachesShapedStep DEF CachesHeld
<1>2. ASSUME NEW b \in Blocks, Worker(b), Land(b), WorkerCaches(b) PROVE CachesHeld'
  <2>1. DirtyDone'
    BY <1>2, DirtyDoneStep DEF CachesHeld
  <2>2. DirtyIsCurrent'
    BY <1>2, DirtyCurrentStep DEF CachesHeld
  <2>3. RamIsCurrent'
    BY <1>2, RamCurrentStep DEF CachesHeld
  <2> QED
    BY <1>1, <2>1, <2>2, <2>3 DEF CachesHeld
<1>3. ASSUME NEW x \in Xcds, Scheduler(x)
      PROVE  UNCHANGED <<epoch0, pc, tok, slot, inner, wave, arrived>>
  BY <1>3 DEF Scheduler, Relay, PollGlobal, StoreFlag, StopScheduler, ExitScheduler, host, block
<1>4. Finished \/ UNCHANGED vvars => UNCHANGED <<epoch0, pc, tok, slot, inner, wave, arrived>>
  BY DEF Finished, vars, dvars, vvars
<1>5. UNCHANGED <<mem, caches>> \/ UNCHANGED vvars => UNCHANGED <<mem, ram, l2, l1>>
  BY DEF caches, vvars, dvars
<1>6. CASE \E b \in Blocks : Worker(b) /\ Land(b) /\ WorkerCaches(b)
  BY <1>2, <1>6
<1>7. CASE \E x \in Xcds : Scheduler(x) /\ UNCHANGED <<mem, caches>>
  BY <1>3, <1>5, <1>7, CachesUnmoved
<1>8. CASE Relaunch /\ UNCHANGED mem /\ LaunchCaches
  BY <1>1, <1>8, LaunchHeld
<1>9. CASE (Finished /\ UNCHANGED <<mem, caches>>) \/ UNCHANGED vvars
  BY <1>4, <1>5, <1>9, CachesUnmoved
<1> QED
  BY <1>6, <1>7, <1>8, <1>9 DEF VNext

LEMMA StoringFlushes ==
  ASSUME WritebacksAreOrdered, NEW n \in TaskIds, NEW at \in SitesOf(n), NEW l \in Nat,
         NEW o \in StoresFrom(n, at, l)
  PROVE  \E e \in Flushed[n] : e \in Events /\ e \in Awaited
<1> DEFINE pl == PlaceOf(n, at)
           f  == [v \in Waves |-> 0]
<1>1. PICK u : u \in StoresFrom(n, at, 1)
  BY StoresAnyEpoch
<1>2. pl \in PlacesOf(n) /\ pl = <<pl[1], pl[2]>>
  BY SiteFacts DEF PlacesOf
<1>3. Owes(pl[1], pl[2], f, at)
  <2>1. CASE at[1] = "chunk"
    <3>1. at[2] \in Waves /\ at[3] \in 0 .. Chunks(Desc[n]) - 1
      BY <2>1, SiteFacts DEF Running
    <3>2. f[at[2]] = 0 /\ at[3] >= 0
      BY <3>1, ChunkTypes, TaskFacts
    <3> QED
      BY <2>1, <3>2 DEF Owes
  <2>2. CASE at[1] # "chunk"
    BY <1>2, <2>2, SiteFacts DEF Owes
  <2> QED
    BY <2>1, <2>2
<1> HIDE DEF pl, f
<1>4. u \in OutputsAt(n, pl[1], pl[2], 1) \cup ChunksOwed(n, f, 1)
  BY <1>1, <1>2, <1>3, OwedStores
<1>5. StoredAt(n, pl, 1) # {}
  BY <1>4 DEF StoredAt, f
<1>6. Flushed[n] # {} /\ Flushed[n] \subseteq GlobalEvents
  BY <1>2, <1>5 DEF WritebacksAreOrdered, WrittenBackInTime, Flushed
<1> QED
  BY <1>6, AwaitedFacts

\* What a chiplet has not written back no task of another one has seen.
LEMMA DirtyMakesStale ==
  ASSUME WritebacksAreOrdered, IInv, ~ abort, DirtyDone,
         NEW x \in Xcds, NEW y \in Xcds, x # y, NEW c \in DirtyIn(l2[y])
  PROVE  Stale(x, c)
<1>0. PICK n \in TaskIds, l \in 1 .. Tokens : \E at \in SitesOf(n) :
        /\ Desc[n].xcd = y /\ \E o \in StoresFrom(n, at, l) : o[1] = c
        /\ Done(n, at, l)
        /\ \A e \in Flushed[n] : ~ ShareOut(y, e, l)
  BY DEF DirtyDone, DoneOrigin
<1>1. PICK at \in SitesOf(n) :
        /\ Desc[n].xcd = y /\ \E o \in StoresFrom(n, at, l) : o[1] = c
        /\ Done(n, at, l)
        /\ \A e \in Flushed[n] : ~ ShareOut(y, e, l)
  BY <1>0
<1>2. l \in Nat /\ UpstreamIsJustified
  BY ConstantsAssumption DEF WritebacksAreOrdered
<1>3. PICK e \in Flushed[n] : e \in Events /\ e \in Awaited
  BY <1>1, <1>2, StoringFlushes
<1>4. ASSUME NEW g \in TaskIds, NEW m \in 1 .. Tokens, Acquires(g), Desc[g].xcd = x, HasStarted(g, m)
      PROVE  m < l \/ (m = l /\ Flushed[n] \cap Known[g][FirstPlace(g)] = {})
  <2>1. m \in Nat \ {0}
    BY ConstantsAssumption
  <2>2. Settled(m - 1) /\ \A f \in Known[g][FirstPlace(g)] : f \in Events /\ Delivered(f, m)
    BY <1>2, <1>4, <2>1, StartedKnows
  <2>3. ~ (l < m)
    <3> SUFFICES ASSUME l < m PROVE FALSE
      OBVIOUS
    <3>1. Delivered(e, l)
      BY <1>2, <1>3, <2>1, <2>2 DEF Settled
    <3>2. ShareOut(y, e, l)
      BY <1>3, <3>1, DeliveredIsOut
    <3> QED
      BY <1>1, <3>2
  <2>4. m = l => Flushed[n] \cap Known[g][FirstPlace(g)] = {}
    BY <1>1, <2>2, DeliveredIsOut
  <2> QED
    BY <1>2, <2>1, <2>3, <2>4
<1> QED
  BY <1>1, <1>4 DEF Stale

LEMMA DirtyElsewhere ==
  ASSUME WritebacksAreOrdered, IInv, ~ abort, CachesHeld
  PROVE  OthersAreStale
BY DirtyMakesStale DEF OthersAreStale, CachesHeld

\* A chiplet's copy stays stale until a fence of it drops its copies.
LEMMA StaleStays ==
  ASSUME IInv, ~ Smoke, ~ CoherentActs, ~ abort', NEW b \in Blocks, Worker(b),
         NEW x \in Xcds, NEW c, Stale(x, c), ~ (x = b[1] /\ Acquire(b) = "GLOBAL")
  PROVE  Stale(x, c)'
<1>0. PICK n \in TaskIds, l \in 1 .. Tokens : \E at \in SitesOf(n) :
        /\ Desc[n].xcd # x /\ \E o \in StoresFrom(n, at, l) : o[1] = c
        /\ Done(n, at, l)
        /\ \A g \in TaskIds, m \in 1 .. Tokens :
             Acquires(g) /\ Desc[g].xcd = x /\ HasStarted(g, m) =>
               m < l \/ (m = l /\ Flushed[n] \cap Known[g][FirstPlace(g)] = {})
  BY DEF Stale
<1>1. PICK at \in SitesOf(n) :
        /\ Desc[n].xcd # x /\ \E o \in StoresFrom(n, at, l) : o[1] = c
        /\ Done(n, at, l)
        /\ \A g \in TaskIds, m \in 1 .. Tokens :
             Acquires(g) /\ Desc[g].xcd = x /\ HasStarted(g, m) =>
               m < l \/ (m = l /\ Flushed[n] \cap Known[g][FirstPlace(g)] = {})
  BY <1>0
<1>2. Done(n, at, l)'
  <2>1. l \in Nat
    BY ConstantsAssumption
  <2> QED
    BY <1>1, <2>1, DoneStays
<1>3. ASSUME NEW g \in TaskIds, NEW m \in 1 .. Tokens, Acquires(g), Desc[g].xcd = x, HasStarted(g, m)'
      PROVE  HasStarted(g, m)
  <2>1. m \in Nat
    BY ConstantsAssumption
  <2>2. SUFFICES ASSUME g = Here(b), pc[b] = "wait", pc'[b] \in Running PROVE FALSE
    BY <1>3, <2>1, StartedStep
  <2>3. Desc[g].xcd = b[1] /\ Current(b) = Desc[g]
    BY <2>2, Standing DEF IInv, Current, Here
  <2>4. PassedWait(b)
    BY <2>2 DEF PassedWait
  <2>5. Acquire(b) = AcquireOf(CurrentWait(b))
    BY <2>4 DEF Acquire
  <2>6. CurrentWait(b).event = Desc[g].wait_event /\ CurrentWait(b).scope = Desc[g].wait_scope
    BY <2>2, <2>3 DEF CurrentWait, Wait
  <2>7. event_fenced(Desc[g].wait_event)
    BY DEF event_fenced
  <2>8. Acquire(b) = "GLOBAL"
    BY <1>3, <2>5, <2>6, <2>7 DEF AcquireOf, Acquires
  <2> QED
    BY <1>3, <2>3, <2>8
<1>4. \A g \in TaskIds, m \in 1 .. Tokens :
        Acquires(g) /\ Desc[g].xcd = x /\ HasStarted(g, m)' =>
          m < l \/ (m = l /\ Flushed[n] \cap Known[g][FirstPlace(g)] = {})
  BY <1>1, <1>3
<1> QED
  BY <1>1, <1>2, <1>4 DEF Stale

LEMMA StaleUnmoved ==
  ASSUME UNCHANGED <<epoch0, pc, tok, slot, inner, wave, arrived>>, NEW x, NEW c, Stale(x, c)
  PROVE  Stale(x, c)'
<1>1. \A b : Epoch(b)' = Epoch(b)
  BY DEF Epoch
<1>2. \A g, m : HasStarted(g, m)' <=> HasStarted(g, m)
  BY <1>1 DEF HasStarted, Behind, AtTask, Here
<1>3. \A n, at, l : Done(n, at, l)' <=> Done(n, at, l)
  BY UnmovedDone
<1> QED
  BY <1>2, <1>3 DEF Stale

\* What lands is dirty, or no line of the cell is.
LEMMA LandedIsDirty ==
  ASSUME ~ CoherentActs, CachesShaped, NEW b \in Blocks, WorkerCaches(b), NEW o, NEW c, LandsIn(b, o, c)
  PROVE  c \in DirtyIn(l2'[b[1]])
<1>1. CASE Releases(b)
  <2>1. Landed(b) = {}
    BY <1>1, RamAfter
  <2> QED
    BY <2>1 DEF LandsIn
<1>2. CASE ~ Releases(b)
  BY <1>2, LineAfter
<1> QED
  BY <1>1, <1>2

LEMMA OldIsStaleStep ==
  ASSUME ~ Smoke, ~ CoherentActs, IInv, ~ abort', TopkHeld, StoresLandOnce, CachesHeld, OldIsStale,
         NEW b \in Blocks, Worker(b), Land(b), WorkerCaches(b), CachesHeld', OthersAreStale'
  PROVE  OldIsStale'
<1>0. CachesShaped /\ DOMAIN l2 = Xcds /\ b[1] \in Xcds
  BY BlockXcd DEF CachesHeld, CachesShaped
<1>1. ASSUME NEW x \in Xcds, NEW c \in DOMAIN l2'[x], c \in Cells, ~ InLds(c)
      PROVE  Holds(c, l2[x][c].value)' \/ Stale(x, c)'
  <2>1. CASE c \in DirtyIn(l2'[x])
    BY <2>1 DEF CachesHeld, DirtyIsCurrent, DirtyIn
  <2>2. ASSUME NEW y \in Xcds, y # x, c \in DirtyIn(l2'[y]) PROVE Stale(x, c)'
    BY <2>2 DEF OthersAreStale, DirtyIn
  <2>3. CASE \A y \in Xcds : c \notin DirtyIn(l2'[y])
    <3>1. Holds(c, ram[c])'
      BY <1>1, <2>3 DEF CachesHeld, RamIsCurrent, DirtyIn
    <3>2. ~ \E o : LandsIn(b, o, c)
      BY <1>0, <2>3, LandedIsDirty
    <3>3. \A v : Holds(c, v) => c \in DOMAIN mem' /\ mem'[c] = v
      BY <1>1, <3>2, LandedHeld DEF Holds
    <3>4. CASE x # b[1]
      <4>1. l2'[x] = l2[x]
        BY <1>0, <3>4, DirtyAfter
      <4>2. Holds(c, l2[x][c].value) \/ Stale(x, c)
        BY <1>1, <4>1 DEF OldIsStale
      <4>3. Holds(c, l2[x][c].value) => Holds(c, l2[x][c].value)'
        BY <3>3, <4>1 DEF Holds
      <4> QED
        BY <3>4, <4>2, <4>3, StaleStays
    <3>5. CASE x = b[1]
      <4>1. CASE l2'[x][c].value = ram'[c]
        BY <3>1, <4>1 DEF Holds
      <4>2. CASE /\ c \in DOMAIN l2[x] /\ l2'[x][c].value = l2[x][c].value
                 /\ Acquire(b) = "GLOBAL" => c \in DirtyIn(l2[x])
        <5>1. Holds(c, l2[x][c].value) => Holds(c, l2[x][c].value)'
          BY <3>3, <4>2 DEF Holds
        <5>2. c \in DirtyIn(l2[x]) => Holds(c, l2[x][c].value)
          BY DEF CachesHeld, DirtyIsCurrent
        <5>3. Holds(c, l2[x][c].value) \/ Stale(x, c)
          BY <1>1, <4>2 DEF OldIsStale
        <5> QED
          BY <4>2, <5>1, <5>2, <5>3, StaleStays
      <4> QED
        BY <1>0, <1>1, <3>2, <3>5, <4>1, <4>2, LineAfter
    <3> QED
      BY <3>4, <3>5
  <2> QED
    BY <2>1, <2>2, <2>3
<1> QED
  BY <1>1 DEF OldIsStale

LEMMA OldIsStaleNext ==
  ASSUME ~ Smoke, ~ CoherentActs, IInv, ~ abort', TopkHeld, StoresLandOnce, CachesHeld, OldIsStale,
         [VNext]_vvars, CachesHeld', OthersAreStale'
  PROVE  OldIsStale'
<1>1. ASSUME UNCHANGED <<epoch0, pc, tok, slot, inner, wave, arrived>>,
             UNCHANGED <<mem, ram, l2, l1>>
      PROVE  OldIsStale'
  <2>1. \A x \in Xcds : \A c \in DOMAIN l2[x] \cap Cells :
          ~ InLds(c) => Holds(c, l2[x][c].value) \/ Stale(x, c)'
    BY <1>1, StaleUnmoved DEF OldIsStale
  <2> QED
    BY <1>1, <2>1 DEF OldIsStale, Holds
<1>2. LaunchCaches => OldIsStale'
  BY DEF LaunchCaches, OldIsStale, NoLines
<1>3. ASSUME NEW x \in Xcds, Scheduler(x)
      PROVE  UNCHANGED <<epoch0, pc, tok, slot, inner, wave, arrived>>
  BY <1>3 DEF Scheduler, Relay, PollGlobal, StoreFlag, StopScheduler, ExitScheduler, host, block
<1>4. Finished \/ UNCHANGED vvars => UNCHANGED <<epoch0, pc, tok, slot, inner, wave, arrived>>
  BY DEF Finished, vars, dvars, vvars
<1>5. UNCHANGED <<mem, caches>> \/ UNCHANGED vvars => UNCHANGED <<mem, ram, l2, l1>>
  BY DEF caches, vvars, dvars
<1>6. CASE \E b \in Blocks : Worker(b) /\ Land(b) /\ WorkerCaches(b)
  BY <1>6, OldIsStaleStep
<1>7. CASE \E x \in Xcds : Scheduler(x) /\ UNCHANGED <<mem, caches>>
  BY <1>1, <1>3, <1>5, <1>7
<1>8. CASE (Finished /\ UNCHANGED <<mem, caches>>) \/ UNCHANGED vvars
  BY <1>1, <1>4, <1>5, <1>8
<1> QED
  BY <1>2, <1>6, <1>7, <1>8 DEF VNext

LEMMA TokenStore ==
  ASSUME NEW n \in TaskIds, NEW at \in SitesOf(n), NEW l \in Nat, NEW o \in StoresFrom(n, at, l),
         o[1][1] = "token_in"
  PROVE  Desc[n].kind = "ARGMAX"
<1> DEFINE t == Desc[n]
<1>1. CASE at[1] = "chunk"
  <2>1. o[1][1] = "h"
    BY <1>1 DEF StoresFrom
  <2> QED
    BY <2>1
<1>2. CASE at[1] # "chunk"
  <2>1. at[1] \in Running
    BY <1>2, SiteFacts
  <2>2. Untimed(Stores[n][at[1]])
    BY <2>1, FixedTasks DEF Stores
  <2> DEFINE Fix(v) == \E c \in Stores[n][at[1]] : v = <<c[1], <<l, c[2], c[3]>>>>
             Row(v) == v = <<<<"kv", t.layer, l>>, <<l, t.layer, "mid">>>>
  <2>3. Fix(o) \/ Row(o) \/ Desc[n].kind = "ARGMAX"
    BY <1>2 DEF StoresFrom, OutputsAt
  <2>4. Fix(o) => o[1][1] \notin Timed
    BY <2>2 DEF Untimed
  <2>5. Row(o) => o[1][1] = "kv"
    OBVIOUS
  <2> HIDE DEF Fix, Row
  <2> QED
    BY <2>3, <2>4, <2>5 DEF Timed
<1> QED
  BY <1>1, <1>2

\* What a body reads: an operand of its epoch, its token, or a row of the cache.
OperandRead(i, p, n, k, q) ==
  /\ Desc[i].kind # "EMBED"
  /\ \E r \in Loads[i][p][n] :
       /\ q = <<r[1], <<k, r[2], r[3]>>>> /\ r[1][1] \notin Timed
       /\ <<r[1], <<1, r[2], r[3]>>>> \in InputsAt(i, p, n, 1)

TokenRead(i, k, q) == Desc[i].kind = "EMBED" /\ q = <<<<"token_in", k>>, <<k, -1, "in">>>>

RowRead(i, k, q) ==
  /\ Desc[i].kind = "ATTENTION"
  /\ \E m \in 1 .. k - 1 : q = <<<<"kv", Desc[i].layer, m>>, <<m, Desc[i].layer, "mid">>>>

LEMMA InputKinds ==
  ASSUME NEW i \in TaskIds, NEW p \in Running, NEW n \in 0 .. BodyWaits(Desc[i]), NEW k,
         NEW q \in InputsAt(i, p, n, k)
  PROVE  OperandRead(i, p, n, k, q) \/ TokenRead(i, k, q) \/ RowRead(i, k, q)
<1>1. Loads[i][p][n] = ReadBy(Desc[i], p, n)
  BY DEF Loads
<1>2. Untimed(Loads[i][p][n])
  BY <1>1, FixedReads
<1>3. Desc[i].kind = "EMBED" => Loads[i][p][n] = {}
  BY <1>1 DEF ReadBy
<1>4. \/ \E r \in Loads[i][p][n] : q = <<r[1], <<k, r[2], r[3]>>>>
      \/ Desc[i].kind = "EMBED" /\ q = <<<<"token_in", k>>, <<k, -1, "in">>>>
      \/ /\ Desc[i].kind = "ATTENTION"
         /\ \E m \in 1 .. k - 1 :
              q = <<<<"kv", Desc[i].layer, m>>, <<m, Desc[i].layer, "mid">>>>
  BY DEF InputsAt
<1>5. \A r \in Loads[i][p][n] :
        /\ r[1][1] \notin Timed /\ Desc[i].kind # "EMBED"
        /\ <<r[1], <<1, r[2], r[3]>>>> \in InputsAt(i, p, n, 1)
  BY <1>2, <1>3 DEF Untimed, InputsAt
<1> QED
  BY <1>4, <1>5 DEF OperandRead, TokenRead, RowRead

LEMMA InnerInRange ==
  ASSUME IInv, NEW b \in Blocks, pc[b] \in Running
  PROVE  Here(b) \in TaskIds /\ inner[b] \in 0 .. BodyWaits(Desc[Here(b)])
<1> USE DEF IInv
<1>1. /\ Here(b) \in TaskIds /\ Current(b) = Desc[Here(b)] /\ PlaceOK(b) /\ inner[b] \in Nat
      /\ BodyWaits(Desc[Here(b)]) \in Nat
  BY Standing, TaskFacts, BodyWaitsType DEF Places, TypeOK, Current, Here, Running
<1>2. inner[b] <= BodyWaits(Desc[Here(b)])
  BY <1>1 DEF PlaceOK, Running
<1> QED
  BY <1>1, <1>2

\* The chiplet's copy of what a body reads is not stale: a fence before the
\* body has dropped the copies older than the store.
LEMMA NotStaleHere ==
  ASSUME PayloadsAreOrdered, ~ Smoke, IInv, ~ abort, TokensLeft, TopkHeld,
         NEW b \in Blocks, NEW q \in Inputs(b), ~ InLds(q[1])
  PROVE  q[1] \in Cells /\ ~ Stale(b[1], q[1])
<1> USE DEF IInv
<1>0. /\ UpstreamIsJustified /\ StoresLandOnce /\ TokensStay
      /\ \A i \in TaskIds : SeenInTime[i] /\ FedInTime[i]
  BY DEF PayloadsAreOrdered, InputsAreFed
<1>1. pc[b] \in Running
  BY DEF Inputs
<1>2. PICK j \in TaskIds : j = Here(b) /\ Desc[j].xcd = b[1]
  BY <1>1, Standing DEF Running
<1>3. PICK k \in 1 .. Tokens : k = Epoch(b)
  BY <1>1, RunningEpoch DEF Running
<1>4. k \in Nat \ {0} /\ Tokens \in Nat
  BY ConstantsAssumption
<1>5. PICK bt \in PlacesOf(j) : bt = <<pc[b], inner[b]>>
  BY <1>1, <1>2, AtPlace
<1>6. ASSUME Desc[j].kind # "EMBED", NEW n \in TaskIds, NEW l \in 1 .. Tokens,
             \A g \in TaskIds, m \in 1 .. Tokens :
               Acquires(g) /\ Desc[g].xcd = b[1] /\ HasStarted(g, m) =>
                 m < l \/ (m = l /\ Flushed[n] \cap Known[g][FirstPlace(g)] = {})
      PROVE  ~ (l < k)
  <2>1. Acquirers(j, bt) # {}
    BY <1>0, <1>6 DEF SeenInTime
  <2>2. PICK g \in Acquirers(j, bt) : TRUE
    BY <2>1
  <2>3. g \in TaskIds /\ Acquires(g) /\ Desc[g].xcd = b[1] /\ HasStarted(g, k)
    BY <1>0, <1>1, <1>2, <1>3, <1>5, AcquirersStarted
  <2>4. k < l \/ k = l
    BY <1>3, <1>6, <2>3
  <2> QED
    BY <1>4, <2>4
<1>7. CASE Desc[j].kind = "EMBED" /\ q = <<<<"token_in", k>>, <<k, -1, "in">>>>
  <2>1. q[1] \in Cells
    BY <1>4, <1>7 DEF Cells
  <2>2. ASSUME Stale(b[1], q[1]) PROVE FALSE
    <3>0. PICK n \in TaskIds, l \in 1 .. Tokens : \E at \in SitesOf(n) :
            Desc[n].xcd # b[1] /\ \E o \in StoresFrom(n, at, l) : o[1] = q[1]
      BY <2>2 DEF Stale
    <3>1. PICK at \in SitesOf(n) :
            Desc[n].xcd # b[1] /\ \E o \in StoresFrom(n, at, l) : o[1] = q[1]
      BY <3>0
    <3>2. PICK o \in StoresFrom(n, at, l) : o[1] = q[1]
      BY <3>1
    <3>3. Desc[n].kind = "ARGMAX"
      BY <1>4, <1>7, <3>2, TokenStore
    <3> QED
      BY <1>0, <1>2, <1>7, <3>1, <3>3 DEF TokensStay
  <2> QED
    BY <2>1, <2>2
<1>8. ASSUME NEW m \in 1 .. k - 1, Desc[j].kind = "ATTENTION",
             q = <<<<"kv", Desc[j].layer, m>>, <<m, Desc[j].layer, "mid">>>>
      PROVE  q[1] \in Cells /\ ~ Stale(b[1], q[1])
  <2>1. q[1] \in Cells
    <3>1. m \in 1 .. Tokens /\ j \in AttentionTasks
      BY <1>4, <1>8 DEF AttentionTasks
    <3>2. q[1] \in { <<"kv", Desc[i].layer, h>> : i \in AttentionTasks, h \in 1 .. Tokens }
      BY <1>8, <3>1
    <3> QED
      BY <3>2 DEF Cells
  <2>2. ASSUME Stale(b[1], q[1]) PROVE FALSE
    <3>0. PICK n \in TaskIds, l \in 1 .. Tokens : \E at \in SitesOf(n) :
        /\ Desc[n].xcd # b[1] /\ \E o \in StoresFrom(n, at, l) : o[1] = q[1]
        /\ \A g \in TaskIds, h \in 1 .. Tokens :
             Acquires(g) /\ Desc[g].xcd = b[1] /\ HasStarted(g, h) =>
               h < l \/ (h = l /\ Flushed[n] \cap Known[g][FirstPlace(g)] = {})
      BY <2>2 DEF Stale
    <3>1. PICK at \in SitesOf(n) : \E o \in StoresFrom(n, at, l) : o[1] = q[1]
      BY <3>0
    <3>2. PICK o \in StoresFrom(n, at, l) : o[1] = q[1]
      BY <3>1
    <3>3. OfEpoch(o[1], l)
      BY <1>4, <3>2, StoresAnyEpoch
    <3>4. q[1] = <<"kv", Desc[j].layer, m>>
      BY <1>8
    <3>5. l = m
      BY <3>2, <3>3, <3>4 DEF OfEpoch
    <3>6. ~ (l < k)
      BY <1>6, <1>8, <3>0
    <3> QED
      BY <1>4, <3>5, <3>6
  <2> QED
    BY <2>1, <2>2
<1>9. ASSUME NEW r \in Loads[j][pc[b]][inner[b]], r[1][1] \notin Timed, Desc[j].kind # "EMBED",
             q = <<r[1], <<k, r[2], r[3]>>>>,
             <<r[1], <<1, r[2], r[3]>>>> \in InputsAt(j, pc[b], inner[b], 1)
      PROVE  q[1] \in Cells /\ ~ Stale(b[1], q[1])
  <2> DEFINE c == r[1]
  <2>1. q[1] = c /\ bt[1] = pc[b] /\ bt[2] = inner[b]
    BY <1>5, <1>9
  <2>2. PICK a \in InputsAt(j, bt[1], bt[2], 1) : a[1] = c
    BY <1>9, <2>1
  <2>3. /\ c \in Cells
        /\ c \in DOMAIN StoresTo => \A s \in StoresTo[c] :
             \/ Desc[s.task].xcd = Desc[j].xcd
             \/ NotDoneAt(s.task, s.at, j, bt)
             \/ \E g \in Acquirers(j, bt) :
                  Flushed[s.task] \cap Known[g][FirstPlace(g)] # {}
    <3>1. ~ InLds(a[1])
      BY <2>1, <2>2
    <3>2. SeenInTime[j]
      BY <1>0
    <3> QED
      BY <1>9, <2>2, <3>1, <3>2 DEF SeenInTime
  <2>4. c # <<"token_in", 1>>
    BY <1>9 DEF Timed
  <2>5. c \in DOMAIN StoresTo
    <3>1. FedInTime[j]
      BY <1>0
    <3> QED
      BY <2>2, <2>4, <3>1 DEF FedInTime
  <2> HIDE DEF c
  <2>6. ASSUME Stale(b[1], c) PROVE FALSE
    <3>0. PICK n \in TaskIds, l \in 1 .. Tokens : \E at \in SitesOf(n) :
        /\ Desc[n].xcd # b[1] /\ \E o \in StoresFrom(n, at, l) : o[1] = c
        /\ Done(n, at, l)
        /\ \A g \in TaskIds, m \in 1 .. Tokens :
             Acquires(g) /\ Desc[g].xcd = b[1] /\ HasStarted(g, m) =>
               m < l \/ (m = l /\ Flushed[n] \cap Known[g][FirstPlace(g)] = {})
      BY <2>6 DEF Stale
    <3>1. PICK at \in SitesOf(n) : (\E o \in StoresFrom(n, at, l) : o[1] = c) /\ Done(n, at, l)
      BY <3>0
    <3>2. PICK o \in StoresFrom(n, at, l) : o[1] = c
      BY <3>1
    <3>3. l \in Nat \ {0} /\ c[1] \notin Timed
      BY <1>4, <1>9 DEF c
    <3>4. PICK v : <<c, v>> \in StoresFrom(n, at, 1)
      BY <3>2, <3>3, FixedStore
    <3>5. l <= k
      BY <1>0, <1>1, <1>3, <3>1, <3>3, <3>4, NoLaterStore
    <3>6. l = k
      <4>1. ~ (l < k)
        BY <1>6, <1>9, <3>0
      <4> QED
        BY <1>4, <3>3, <3>5, <4>1
    <3> DEFINE s == [task |-> n, at |-> at, cell |-> c, value |-> v]
    <3>7. s \in StoresTo[c] /\ s.task = n /\ s.at = at
      BY <2>5, <3>4, StoresToCell
    <3> HIDE DEF s
    <3>8. ~ NotDoneAt(n, at, j, bt)
      BY <1>0, <1>1, <1>2, <1>3, <1>5, <3>1, <3>4, <3>6, NotDone
    <3>9. PICK g \in Acquirers(j, bt) : Flushed[n] \cap Known[g][FirstPlace(g)] # {}
      BY <1>2, <2>3, <2>5, <3>0, <3>7, <3>8
    <3>10. g \in TaskIds /\ Acquires(g) /\ Desc[g].xcd = b[1] /\ HasStarted(g, k)
      BY <1>0, <1>1, <1>2, <1>3, <1>5, AcquirersStarted
    <3> QED
      BY <1>4, <3>0, <3>6, <3>9, <3>10
  <2> QED
    BY <2>1, <2>3, <2>6
<1>10. inner[b] \in 0 .. BodyWaits(Desc[j]) /\ q \in InputsAt(j, pc[b], inner[b], k)
  BY <1>1, <1>2, <1>3, InnerInRange DEF Inputs, Here
<1>11. OperandRead(j, pc[b], inner[b], k, q) \/ TokenRead(j, k, q) \/ RowRead(j, k, q)
  BY <1>1, <1>10, InputKinds
<1>12. CASE OperandRead(j, pc[b], inner[b], k, q)
  BY <1>9, <1>12 DEF OperandRead
<1> QED
  BY <1>7, <1>8, <1>11, <1>12 DEF TokenRead, RowRead

LEMMA ReadersSeeHeld ==
  ASSUME PayloadsAreOrdered, ~ Smoke, IInv, ~ abort, TokensLeft, TopkHeld, StoresHeld, OldIsStale
  PROVE  ReadersSee
<1>1. InputsAreCurrent
  BY HeldInputs DEF PayloadsAreOrdered
<1>2. ASSUME NEW b \in Blocks, NEW q \in Inputs(b), ~ InLds(q[1]), q[1] \in DOMAIN l2[b[1]]
      PROVE  l2[b[1]][q[1]].value = q[2]
  <2>1. q[1] \in Cells /\ ~ Stale(b[1], q[1])
    BY <1>2, NotStaleHere
  <2>2. Holds(q[1], l2[b[1]][q[1]].value)
    BY <1>2, <2>1, BlockXcd DEF OldIsStale
  <2> QED
    BY <1>1, <1>2, <2>2 DEF Holds, InputsAreCurrent
<1> QED
  BY <1>2 DEF ReadersSee

\* A step that ends in a body leaves the workgroup at its task.
LEMMA StillHere ==
  ASSUME IInv, ~ Smoke, ~ abort', NEW b \in Blocks, Worker(b), pc'[b] \in Running
  PROVE  /\ UNCHANGED <<tok, slot>> /\ Stays(b)
         /\ Here(b) \in TaskIds /\ Here(b)' = Here(b)
         /\ Epoch(b)' = Epoch(b)
         /\ inner'[b] \in 0 .. BodyWaits(Desc[Here(b)])
         /\ Inputs(b)' = InputsAt(Here(b), pc'[b], inner'[b], Epoch(b))
<1> USE DEF IInv
<1>1. pc[b] # "exit" /\ epoch0' = epoch0
  BY OthersStay
<1>2. UNCHANGED <<tok, slot>> /\ Stays(b)
  <2>1. ~ Advance(b)
    BY <1>1, AdvanceTo DEF Running
  <2> QED
    BY <2>1, WorkerMoves DEF Moves
<1>3. Here(b) \in TaskIds /\ Here(b)' = Here(b) /\ Epoch(b)' = Epoch(b)
  BY <1>1, <1>2, Standing DEF Here, Epoch
<1>4. inner'[b] \in 0 .. BodyWaits(Desc[Here(b)])
  <2>1. /\ BodyWaits(Desc[Here(b)]) \in Nat /\ inner[b] \in Nat /\ PlaceOK(b)
        /\ Current(b) = Desc[Here(b)] /\ CountsOnce(Desc[Here(b)])
    BY <1>1, Standing, BodyWaitsType, TaskFacts DEF Places, TypeOK
  <2> QED
    BY <1>2, <2>1 DEF Stays, PlaceOK, Running, CountsOnce
<1>5. Inputs(b)' = InputsAt(Here(b), pc'[b], inner'[b], Epoch(b))
  BY <1>1, <1>2 DEF Inputs, Here, Epoch
<1> QED
  BY <1>2, <1>3, <1>4, <1>5

\* A step that drops no copy enters nothing that reads, or stays where it is;
\* only the embed starts without a fence.
LEMMA KeptCopies ==
  ASSUME PayloadsAreOrdered, ~ Smoke, ~ CoherentActs, IInv, ~ abort',
         NEW b \in Blocks, Worker(b), pc'[b] \in Running, Acquire(b) = "NONE"
  PROVE  \/ Inputs(b)' = Inputs(b)
         \/ Inputs(b)' = {}
         \/ Desc[Here(b)].kind = "EMBED"
<1> USE DEF IInv
<1> DEFINE j == Here(b)
           t == Desc[j]
<1>1. pc[b] # "exit" /\ epoch0' = epoch0 /\ Epoch(b) \in Nat
  BY OthersStay, EpochType
<1>2. /\ j \in TaskIds /\ t \in TaskDescriptor /\ Current(b) = t /\ PlaceOK(b) /\ WaitsAreExact(t)
      /\ CountsOnce(t) /\ inner[b] \in Nat /\ BodyWaits(t) \in Nat
  BY <1>1, Standing, TaskFacts, BodyWaitsType DEF Places, TypeOK
<1>3. UNCHANGED <<tok, slot>> /\ Stays(b)
  BY StillHere
<1>4. Inputs(b)' = InputsAt(j, pc'[b], inner'[b], Epoch(b))
  BY StillHere
<1> HIDE DEF j
<1>5. CASE pc[b] \in {"boundary", "wait"}
  <2>1. pc[b] = "boundary" => pc'[b] \in {"boundary", "wait"}
    BY DEF Worker, PassBoundary, StartTask, PassBodyWait, Checkpoint, GiveUp, SignalChunk,
           ArriveRouter, PublishTopk, Signal, Publish, Goto, TypeOK
  <2>2. pc[b] = "wait"
    BY <1>5, <2>1 DEF Running
  <2>3. PassedWait(b) /\ Acquire(b) = AcquireOf(CurrentWait(b))
    BY <2>2 DEF PassedWait, Acquire
  <2>4. CurrentWait(b).event = t.wait_event /\ CurrentWait(b).scope = t.wait_scope
    BY <1>2, <2>2 DEF CurrentWait, Wait
  <2>5. event_fenced(t.wait_event)
    BY DEF event_fenced
  <2>6. t.wait_event = NoEvent \/ t.wait_scope = "NONE"
    BY <2>3, <2>4, <2>5 DEF AcquireOf
  <2>7. t.kind # "EMBED" => t.wait_scope # "NONE"
    BY <1>2 DEF PayloadsAreOrdered, SeenInTime
  <2> QED
    BY <1>2, <2>6, <2>7 DEF WaitsAreExact, j
<1>6. CASE pc[b] \in Running /\ UNCHANGED <<pc, inner>>
  BY <1>4, <1>6 DEF Inputs, Here, j
<1>7. CASE pc[b] = "bodywait" /\ inner'[b] = inner[b] + 1
  <2>1. PassedWait(b)
    BY <1>2, <1>7 DEF PassedWait
  <2>2. Acquire(b) = AcquireOf(CurrentWait(b))
    BY <2>1 DEF Acquire
  <2>3. /\ CurrentWait(b).event = BodyWaitEvent(t, inner[b] + 1)
        /\ CurrentWait(b).scope = "XCD_LOCAL"
    BY <1>2, <1>7 DEF CurrentWait, Wait
  <2>4. inner[b] + 1 \in 1 .. BodyWaits(t)
    BY <1>2, <1>7 DEF PlaceOK
  <2>5. BodyWaitEvent(t, inner[b] + 1) \in WaitsOf(t)
    BY <2>4 DEF WaitsOf
  <2>6. BodyWaitEvent(t, inner[b] + 1) # NoEvent
    <3>1. BodyWaitEvent(t, inner[b] + 1) \in Nat
      BY <1>2, <2>5, AwaitedFacts, ConstantsAssumption
    <3> QED
      BY <3>1 DEF NoEvent
  <2>7. Acquire(b) = "XCD_LOCAL"
    BY <2>2, <2>3, <2>6 DEF AcquireOf
  <2> QED
    BY <2>7
<1>8. CASE pc[b] = "arrive" /\ pc'[b] = "topk" /\ UNCHANGED inner
  <2>1. ~ PassedWait(b)
    BY <1>2, <1>8 DEF PassedWait
  <2> QED
    BY <1>8, <2>1 DEF Acquire
<1>9. CASE pc[b] \in {"arrive", "topk"} /\ pc'[b] = "body" /\ UNCHANGED inner
  <2>1. CountsTopk(t)
    BY <1>2, <1>9 DEF PlaceOK
  <2>2. t.kind = "NORM_ROUTER"
    <3>1. j \in Peers(j, <<"topk", 0>>)
      BY <1>2, <2>1 DEF Peers
    <3> QED
      BY <1>2, <2>1, <3>1 DEF PayloadsAreOrdered, InputsAreFed, StoresLandOnce
  <2>3. inner'[b] \in 0 .. BodyWaits(t) /\ "body" \in Running
    BY <1>2, <1>9, <2>1 DEF PlaceOK, CountsOnce, Running
  <2>4. ~ FirstPart(t, "body")
    BY <1>2, <2>1 DEF FirstPart, BodyStart, CountsTopk, CountsOnce
  <2>5. Loads[j]["body"][inner'[b]] = {}
    <3>1. Loads[j]["body"][inner'[b]] = ReadBy(t, "body", inner'[b])
      BY <1>2, <2>3 DEF Loads
    <3>2. ReadBy(t, "body", inner'[b]) = RouterReads(t, "body")
      BY <2>2 DEF ReadBy
    <3> QED
      BY <2>4, <3>1, <3>2 DEF RouterReads
  <2>6. InputsAt(j, "body", inner'[b], Epoch(b)) = {}
    BY <2>2, <2>5 DEF InputsAt
  <2> QED
    BY <1>4, <1>9, <2>6
<1>10. pc'[b] # "publish" /\ pc'[b] # "exit"
  BY DEF Running
<1> QED
  BY <1>3, <1>5, <1>6, <1>7, <1>8, <1>9, <1>10 DEF Stays

LEMMA CopiesHeldStep ==
  ASSUME PayloadsAreOrdered, ~ Smoke, ~ CoherentActs, IInv, ~ abort', TokensLeft, CachesShaped,
         CopiesHeld, NEW b \in Blocks, Worker(b), WorkerCaches(b), ReadersSee'
  PROVE  CopiesHeld'
<1> USE DEF IInv
<1>0. epoch0' = epoch0 /\ pc[b] # "exit"
  BY OthersStay
<1>1. ASSUME NEW q \in Inputs(b)', ~ InLds(q[1])
      PROVE  q[1] \in PlainReads(b)' /\ pc'[b] \in Running
  BY <1>1 DEF PlainReads, Coherent, Inputs
<1>2. ASSUME NEW q \in Inputs(b)', ~ InLds(q[1])
      PROVE  q[1] \in DOMAIN l1'[b] /\ l1'[b][q[1]] = q[2]
  <2> DEFINE c == q[1]
  <2>1. c \in PlainReads(b)' /\ pc'[b] \in Running
    BY <1>1, <1>2
  <2>2. /\ c \in DOMAIN l1'[b]
        /\ \/ Acquire(b) = "NONE" /\ c \in DOMAIN l1[b] /\ l1'[b][c] = l1[b][c]
           \/ c \in DOMAIN l2'[b[1]] /\ l1'[b][c] = l2'[b[1]][c].value
    BY <2>1, CopyAfter
  <2>3. c \in DOMAIN l2'[b[1]] => l2'[b[1]][c].value = q[2]
    BY <1>2 DEF ReadersSee
  <2>4. ASSUME Acquire(b) = "NONE", c \in DOMAIN l1[b] PROVE l1[b][c] = q[2]
    <3>1. CASE q \in Inputs(b)
      BY <1>2, <3>1 DEF CopiesHeld
    <3>2. CASE Desc[Here(b)].kind = "EMBED"
      <4>1. PICK i \in TaskIds : i = Here(b)
        BY <2>1, StillHere
      <4>2. inner'[b] \in 0 .. BodyWaits(Desc[i]) /\ q \in InputsAt(i, pc'[b], inner'[b], Epoch(b))
        BY <1>2, <2>1, <4>1, StillHere
      <4>3. PICK k \in 1 .. Tokens : k = Epoch(b)
        BY <1>0, RunningEpoch
      <4>4. Loads[i][pc'[b]][inner'[b]] = {}
        <5>1. Loads[i][pc'[b]][inner'[b]] = ReadBy(Desc[i], pc'[b], inner'[b])
          BY <2>1, <4>2 DEF Loads
        <5> QED
          BY <3>2, <4>1, <5>1 DEF ReadBy
      <4>5. q = <<<<"token_in", k>>, <<k, -1, "in">>>>
        BY <3>2, <4>1, <4>2, <4>3, <4>4 DEF InputsAt
      <4> QED
        BY <2>4, <4>5 DEF CopiesHeld
    <3> QED
      BY <1>2, <2>1, <2>4, <3>1, <3>2, KeptCopies
  <2> QED
    BY <2>2, <2>3, <2>4
<1>3. ASSUME NEW k \in 1 .. Tokens, <<"token_in", k>> \in DOMAIN l1'[b]
      PROVE  l1'[b][<<"token_in", k>>] = <<k, -1, "in">>
  <2> DEFINE c == <<"token_in", k>>
  <2>1. CASE c \notin PlainReads(b)'
    <3>1. c \in DOMAIN l1[b] /\ l1'[b][c] = l1[b][c]
      BY <1>3, <2>1, CopyAfter
    <3> QED
      BY <3>1 DEF CopiesHeld
  <2>2. CASE c \in PlainReads(b)'
    <3>1. PICK q \in Inputs(b)' : ~ InLds(q[1]) /\ q[1] = c
      BY <2>2 DEF PlainReads
    <3>2. l1'[b][c] = q[2]
      BY <1>2, <3>1
    <3>3. q[2] = <<k, -1, "in">>
      <4>1. Inputs(b)' # {} /\ pc'[b] \in Running
        BY <3>1 DEF Inputs
      <4>2. PICK i \in TaskIds, h \in Nat : i = Here(b) /\ h = Epoch(b)
        BY <4>1, StillHere, EpochType
      <4>3. inner'[b] \in 0 .. BodyWaits(Desc[i]) /\ q \in InputsAt(i, pc'[b], inner'[b], h)
        BY <3>1, <4>1, <4>2, StillHere
      <4>4. \/ OperandRead(i, pc'[b], inner'[b], h, q)
            \/ TokenRead(i, h, q) \/ RowRead(i, h, q)
        BY <4>1, <4>3, InputKinds
      <4>5. q[1][1] = "token_in" /\ q[1][2] = k
        BY <3>1
      <4>6. ~ OperandRead(i, pc'[b], inner'[b], h, q)
        <5>1. ASSUME NEW r, q = <<r[1], <<h, r[2], r[3]>>>> PROVE r[1] = q[1]
          BY <5>1
        <5> QED
          BY <4>5, <5>1 DEF OperandRead, Timed
      <4>7. ~ RowRead(i, h, q)
        BY <4>5 DEF RowRead
      <4> QED
        BY <4>4, <4>5, <4>6, <4>7 DEF TokenRead
    <3> QED
      BY <3>2, <3>3
  <2> QED
    BY <2>1, <2>2
<1>4. ASSUME NEW a \in Blocks, a # b
      PROVE  l1'[a] = l1[a] /\ Inputs(a)' = Inputs(a)
  <2>1. l1'[a] = l1[a]
    BY <1>4, CopyAfter
  <2>2. pc'[a] = pc[a] /\ slot'[a] = slot[a] /\ inner'[a] = inner[a] /\ Epoch(a)' = Epoch(a)
    BY <1>4, OthersStay
  <2> QED
    BY <2>1, <2>2 DEF Inputs
<1>5. ASSUME NEW a \in Blocks
      PROVE  /\ \A q \in Inputs(a)' : ~ InLds(q[1]) => q[1] \in DOMAIN l1'[a] /\ l1'[a][q[1]] = q[2]
             /\ \A k \in 1 .. Tokens : <<"token_in", k>> \in DOMAIN l1'[a] =>
                  l1'[a][<<"token_in", k>>] = <<k, -1, "in">>
  <2>1. CASE a = b
    BY <1>2, <1>3, <2>1
  <2>2. CASE a # b
    BY <1>4, <2>2 DEF CopiesHeld
  <2> QED
    BY <2>1, <2>2
<1> QED
  BY <1>5 DEF CopiesHeld

LEMMA CopiesHeldNext ==
  ASSUME PayloadsAreOrdered, ~ Smoke, ~ CoherentActs, IInv, ~ abort', TokensLeft, CachesShaped,
         CopiesHeld, [VNext]_vvars, ReadersSee'
  PROVE  CopiesHeld'
<1>1. ASSUME UNCHANGED <<epoch0, pc, tok, slot, inner, wave, arrived>>, UNCHANGED l1
      PROVE  CopiesHeld'
  <2>1. \A b : Inputs(b)' = Inputs(b)
    BY <1>1 DEF Inputs, Epoch
  <2> QED
    BY <1>1, <2>1 DEF CopiesHeld
<1>2. ASSUME Relaunch, LaunchCaches PROVE CopiesHeld'
  <2>1. \A b \in Blocks : l1'[b] = NoLines
    BY <1>2 DEF LaunchCaches
  <2>2. \A b \in Blocks : Inputs(b)' = {}
    BY <1>2, RelaunchPlaces DEF Inputs, Running
  <2> QED
    BY <2>1, <2>2 DEF CopiesHeld, NoLines
<1>3. ASSUME NEW x \in Xcds, Scheduler(x)
      PROVE  UNCHANGED <<epoch0, pc, tok, slot, inner, wave, arrived>>
  BY <1>3 DEF Scheduler, Relay, PollGlobal, StoreFlag, StopScheduler, ExitScheduler, host, block
<1>4. Finished \/ UNCHANGED vvars => UNCHANGED <<epoch0, pc, tok, slot, inner, wave, arrived>>
  BY DEF Finished, vars, dvars, vvars
<1>5. UNCHANGED <<mem, caches>> \/ UNCHANGED vvars => UNCHANGED l1
  BY DEF caches, vvars
<1>6. CASE \E b \in Blocks : Worker(b) /\ Land(b) /\ WorkerCaches(b)
  BY <1>6, CopiesHeldStep
<1>7. CASE \E x \in Xcds : Scheduler(x) /\ UNCHANGED <<mem, caches>>
  BY <1>1, <1>3, <1>5, <1>7
<1>8. CASE (Finished /\ UNCHANGED <<mem, caches>>) \/ UNCHANGED vvars
  BY <1>1, <1>4, <1>5, <1>8
<1> QED
  BY <1>2, <1>6, <1>7, <1>8 DEF VNext

LEMMA CachesAtStart ==
  ASSUME VInit
  PROVE  CachesHeld /\ OldIsStale /\ CopiesHeld
<1>1. /\ l2 = [x \in Xcds |-> NoLines] /\ l1 = [b \in Blocks |-> NoLines]
      /\ ram = mem /\ DOMAIN mem = Cells /\ pc = [b \in Blocks |-> IF Queue[b] = <<>> THEN "exit" ELSE "wait"]
  BY DEF VInit, DInit, Init
<1>2. \A x \in Xcds : DOMAIN l2[x] = {} /\ DirtyIn(l2[x]) = {}
  BY <1>1 DEF NoLines, DirtyIn
<1>3. CachesHeld
  BY <1>1, <1>2 DEF CachesHeld, CachesShaped, DirtyDone, DirtyIsCurrent, RamIsCurrent, Holds
<1>4. OldIsStale
  BY <1>2 DEF OldIsStale
<1>5. \A b \in Blocks : Inputs(b) = {} /\ DOMAIN l1[b] = {}
  BY <1>1 DEF Inputs, Running, NoLines
<1> QED
  BY <1>3, <1>4, <1>5 DEF CopiesHeld

OrderHeld == IInv /\ TokensLeft /\ TopkHeld /\ ReadsHeld /\ LinesHeld

\* What the counters, the memory and the unwritten changes of the L2s stand for
\* holds throughout: the ground the invariants of the caches rest on.
THEOREM OrderIsKept ==
  ASSUME PayloadsAreOrdered, ~ Smoke
  PROVE  VSpec => []OrderHeld
<1>1. VSpec => Spec
  BY CachesImplementProtocol
<1>2. VInit => TokensLeft /\ TopkHeld /\ ReadsHeld /\ LinesHeld
  <2> SUFFICES ASSUME VInit PROVE TokensLeft /\ TopkHeld /\ ReadsHeld /\ LinesHeld
    OBVIOUS
  <2>1. DInit /\ Init /\ l2 = [x \in Xcds |-> NoLines]
    BY DEF VInit, DInit
  <2>2. \A x \in Xcds : DirtyIn(l2[x]) = {}
    BY <2>1 DEF DirtyIn, NoLines
  <2> QED
    BY <2>1, <2>2, HeldAtStart, HeldFirst DEF LinesHeld, DirtyHeld, ReadsHeld
<1>3. IInv /\ TokensLeft /\ [Next]_vars => TokensLeft'
  BY TokensLeftStep
<1>4. InputsAreFed /\ UpstreamIsJustified /\ ElectionsAreExact
  BY DEF PayloadsAreOrdered, InputsAreFed
<1>5. IInv /\ TokensDoNotOverlap /\ TopkHeld /\ [Next]_vars => TopkHeld'
  BY <1>4, TopkHeldStep
<1>6. IInv /\ [Next]_vars => (abort => abort')
  BY AbortStays DEF IInv
<1>7. IInv /\ TokensLeft /\ TopkHeld /\ ReadsHeld /\ (abort => abort') /\ [VNext]_vvars => ReadsHeld'
  BY <1>4, StoresHeldStep DEF ReadsHeld
<1>8. IInv /\ TokensLeft /\ TopkHeld /\ LinesHeld /\ [VNext]_vvars => LinesHeld'
  BY <1>4, DirtyHeldStep DEF LinesHeld
<1>9. IInv /\ TokensLeft /\ TopkHeld /\ ReadsHeld /\ LinesHeld => OrderHeld
  BY DEF OrderHeld
<1> QED
  BY <1>1, <1>2, <1>3, <1>5, <1>6, <1>7, <1>8, <1>9, CountersMeanArrivals, OneTokenAtATime, PTL
  DEF VSpec, Spec

\* PayloadsAreVisible: until a launch aborts, every value a body loads through
\* its L1 and its chiplet's L2 is the one stored for it, on whatever chiplet,
\* if the graph orders stores, writebacks and fences (wait_event, signal_event).
THEOREM OrderedPayloadsAreVisible ==
  ASSUME PayloadsAreOrdered, ~ Smoke, ~ CoherentActs
  PROVE  VSpec => [](abort \/ PayloadsAreVisible)
<1>0. WritebacksAreOrdered /\ StoresLandOnce
  BY DEF PayloadsAreOrdered, InputsAreFed
<1>1. VSpec => Spec
  BY CachesImplementProtocol
<1>2. VInit => CachesHeld /\ OldIsStale /\ CopiesHeld
  BY CachesAtStart
<1>3. OrderHeld /\ [Next]_vars => (abort => abort')
  BY AbortStays DEF OrderHeld, IInv
<1>4. OrderHeld /\ (abort \/ CachesHeld) /\ (abort => abort') /\ [VNext]_vvars
        => (abort \/ CachesHeld)'
  BY <1>0, CachesHeldStep DEF OrderHeld, LinesHeld
<1>5. OrderHeld /\ (abort \/ CachesHeld) => (abort \/ OthersAreStale)
  BY <1>0, DirtyElsewhere DEF OrderHeld
<1>6. OrderHeld /\ (abort \/ CachesHeld) /\ (abort \/ OldIsStale)
        /\ (abort => abort') /\ [VNext]_vvars /\ (abort \/ CachesHeld)' /\ (abort \/ OthersAreStale)'
        => (abort \/ OldIsStale)'
  <2> SUFFICES ASSUME IInv, TopkHeld, CachesHeld, OldIsStale, [VNext]_vvars, CachesHeld',
                      OthersAreStale', ~ abort'
               PROVE  OldIsStale'
    BY DEF OrderHeld
  <2> QED
    BY <1>0, OldIsStaleNext
<1>7. OrderHeld /\ (abort \/ OldIsStale) => (abort \/ ReadersSee)
  BY ReadersSeeHeld DEF OrderHeld, ReadsHeld
<1>8. OrderHeld /\ (abort \/ CachesHeld) /\ (abort \/ CopiesHeld)
        /\ (abort => abort') /\ [VNext]_vvars /\ (abort \/ ReadersSee)'
        => (abort \/ CopiesHeld)'
  <2> SUFFICES ASSUME IInv, TokensLeft, CachesHeld, CopiesHeld, [VNext]_vvars, ReadersSee', ~ abort'
               PROVE  CopiesHeld'
    BY DEF OrderHeld
  <2> QED
    BY CopiesHeldNext DEF CachesHeld
<1>9. CopiesHeld => PayloadsAreVisible
  BY DEF CopiesHeld, PayloadsAreVisible, Seen, Coherent
<1> QED
  BY <1>1, <1>2, <1>3, <1>4, <1>5, <1>6, <1>7, <1>8, <1>9, OrderIsKept, PTL DEF VSpec, Spec

\* Without timeouts no launch aborts, and PayloadsAreVisible always holds.
THEOREM OrderedPayloadsAreAlwaysVisible ==
  ASSUME PayloadsAreOrdered, ~ Smoke, ~ CoherentActs, ~ MayTimeOut
  PROVE  VSpec => []PayloadsAreVisible
<1>1. VSpec => Spec
  BY CachesImplementProtocol
<1>2. Init => ~ abort
  BY DEF Init
<1>3. IInv /\ ~ abort /\ [Next]_vars => ~ abort'
  BY AbortStays DEF IInv
<1>4. VSpec => [](abort \/ PayloadsAreVisible)
  BY OrderedPayloadsAreVisible
<1> QED
  BY <1>1, <1>2, <1>3, <1>4, CountersMeanArrivals, PTL DEF Spec

=============================================================================
