------------------------ MODULE FleetRuntimeProofs -------------------------
(***************************************************************************)
(* For every graph, every number of workers and every deadline: what holds *)
(* of one launch's counters, events and workers, and the refinement of     *)
(* CountsInOrder; then the inductive invariant of the protocol, step by    *)
(* step, and the properties it gives, from every wait counting what it     *)
(* waited for to the drained run in which every task has run once.         *)
(***************************************************************************)
EXTENDS FleetInvariant, FiniteSetTheorems, Counting, TLAPS

USE DEF NoEvent

-----------------------------------------------------------------------------
(* Facts about the operators the actions are built from.                   *)

\* Any set of waves has a size, so Count adds a natural number.
LEMMA WaveSets ==
  /\ 0 \in Waves
  /\ \A V \in SUBSET Waves : Cardinality(V) \in Nat
<1>1. 0 \in Waves
  BY ConstantsAssumption DEF Waves
<1>2. IsFiniteSet(Waves)
  BY FS_Interval, ConstantsAssumption DEF Waves
<1>3. ASSUME NEW V \in SUBSET Waves PROVE Cardinality(V) \in Nat
  BY <1>2, <1>3, FS_Subset, FS_CardinalityType
<1> QED
  BY <1>1, <1>3

\* Adding to one counter, or to none, of an array of counters.
LEMMA AddAt ==
  ASSUME NEW S, NEW f \in [S -> Nat], NEW i, NEW n \in Nat
  PROVE  [f EXCEPT ![i] = @ + n] \in [S -> Nat]
<1>1. CASE i \in S
  BY <1>1
<1>2. CASE i \notin S
  <2>1. [f EXCEPT ![i] = @ + n] = f
    BY <1>2
  <2> QED
    BY <2>1
<1> QED
  BY <1>1, <1>2

\* A workgroup that has not left the kernel is at a descriptor of its queue.
LEMMA CurrentType ==
  ASSUME TypeOK, NEW b \in Blocks, pc[b] # "exit"
  PROVE  /\ Queue[b] \in Seq(TaskIds)
         /\ slot[b] \in 1 .. Len(Queue[b])
         /\ Queue[b][slot[b]] \in TaskIds
         /\ Current(b) \in TaskDescriptor
<1>1. Queue[b] \in Seq(TaskIds)
  BY DescriptorAssumption
<1>2. slot[b] \in 1 .. Len(Queue[b])
  BY <1>1 DEF TypeOK
<1>3. Queue[b][slot[b]] \in TaskIds
  BY <1>1, <1>2
<1>4. Desc[Queue[b][slot[b]]] \in TaskDescriptor
  BY <1>3, DescriptorAssumption DEF TaskIds
<1> QED
  BY <1>1, <1>2, <1>3, <1>4 DEF Current

\* A workgroup sits on a chiplet.
LEMMA BlockXcd == ASSUME NEW b \in Blocks PROVE b[1] \in Xcds
  BY DEF Blocks

\* A released descriptor goes into one of the places of its body.
LEMMA BodyStartType == ASSUME NEW t PROVE BodyStart(t) \in Running
  BY DEF BodyStart, Running

\* Where a workgroup stands after its task: at a descriptor, or out.
LEMMA EntryType ==
  ASSUME NEW b \in Blocks, NEW s \in Nat \ {0}, NEW k
  PROVE  /\ Entry(b, s, k) \in PCs
         /\ Entry(b, s, k) # "exit" => s \in DOMAIN Queue[b]
<1>1. Queue[b] \in Seq(TaskIds)
  BY DescriptorAssumption
<1> QED
  BY <1>1 DEF Entry, PCs, Waiting

\* Counting an arrival keeps the counters natural numbers.
LEMMA CountType ==
  ASSUME TypeOK, NEW b \in Blocks, pc[b] # "exit", NEW e, NEW V \in SUBSET Waves,
         Count(b, e, V)
  PROVE  /\ xcd_counters' \in [Xcds -> [Events -> Nat]]
         /\ arrived' \in [Events -> SUBSET ((TaskIds \X Waves) \X Nat)]
<1>1. Cardinality(V) \in Nat
  BY WaveSets
<1>2. b[1] \in Xcds
  BY BlockXcd
<1>3. Epoch(b) \in Nat
  BY DEF TypeOK, Epoch
<1>4. { <<<<Queue[b][slot[b]], v>>, Epoch(b)>> : v \in V } \subseteq (TaskIds \X Waves) \X Nat
  BY CurrentType, <1>3
<1>5. xcd_counters' \in [Xcds -> [Events -> Nat]]
  <2> DEFINE old == xcd_counters[b[1]]
             new == [old EXCEPT ![e] = @ + Cardinality(V)]
  <2>1. old \in [Events -> Nat]
    BY <1>2 DEF TypeOK
  <2>2. new \in [Events -> Nat]
    BY <2>1, <1>1, AddAt
  <2>3. xcd_counters' = [xcd_counters EXCEPT ![b[1]] = new]
    BY DEF Count
  <2> HIDE DEF new
  <2> QED
    BY <2>2, <2>3, <1>2 DEF TypeOK
<1>6. arrived' \in [Events -> SUBSET ((TaskIds \X Waves) \X Nat)]
  BY <1>4 DEF TypeOK, Count
<1> QED
  BY <1>5, <1>6

\* The variables of a workgroup keep their types when it moves on.
BlockTypes ==
  /\ pc \in [Blocks -> PCs]
  /\ \A b \in Blocks : pc[b] # "exit" => slot[b] \in DOMAIN Queue[b]
  /\ tok \in [Blocks -> Nat]
  /\ slot \in [Blocks -> Nat \ {0}]
  /\ spun \in [Blocks -> BOOLEAN]
  /\ inner \in [Blocks -> Nat]
  /\ wave \in [Blocks -> [Waves -> Nat]]

\* Moving to the next descriptor, or to the next token, stays inside the queue.
LEMMA AdvanceType ==
  ASSUME TypeOK, NEW b \in Blocks, Advance(b)
  PROVE  BlockTypes'
<1> DEFINE s == IF Drained(b) THEN 1 ELSE slot[b] + 1
           k == IF Drained(b) THEN tok[b] + 1 ELSE tok[b]
<1>1. s \in Nat \ {0} /\ k \in Nat
  BY DEF TypeOK
<1>2. /\ slot' = [slot EXCEPT ![b] = s]
      /\ tok'  = [tok EXCEPT ![b] = k]
      /\ pc'   = [pc EXCEPT ![b] = Entry(b, s, k)]
      /\ spun' = [spun EXCEPT ![b] = FALSE]
      /\ inner' = [inner EXCEPT ![b] = 0]
      /\ wave' = [wave EXCEPT ![b] = [v \in Waves |-> 0]]
  BY DEF Advance
<1> HIDE DEF s, k
<1>3. Entry(b, s, k) \in PCs /\ (Entry(b, s, k) # "exit" => s \in DOMAIN Queue[b])
  BY <1>1, EntryType
<1>4. /\ slot' \in [Blocks -> Nat \ {0}]
      /\ tok' \in [Blocks -> Nat]
      /\ pc' \in [Blocks -> PCs]
      /\ spun' \in [Blocks -> BOOLEAN]
      /\ inner' \in [Blocks -> Nat]
  BY <1>1, <1>2, <1>3 DEF TypeOK
<1>5. wave' \in [Blocks -> [Waves -> Nat]]
  BY <1>2 DEF TypeOK
<1>6. ASSUME NEW c \in Blocks, pc'[c] # "exit" PROVE slot'[c] \in DOMAIN Queue[c]
  <2>1. CASE c = b
    BY <2>1, <1>2, <1>3, <1>6 DEF TypeOK
  <2>2. CASE c # b
    BY <2>2, <1>2, <1>6 DEF TypeOK
  <2> QED
    BY <2>1, <2>2
<1> QED
  BY <1>4, <1>5, <1>6 DEF BlockTypes

\* Moving within a descriptor keeps the workgroup's state typed.
LEMMA GotoType ==
  ASSUME TypeOK, NEW b \in Blocks, pc[b] # "exit", NEW p \in PCs, Goto(b, p),
         slot' = slot
  PROVE  /\ pc' \in [Blocks -> PCs]
         /\ \A c \in Blocks : pc'[c] # "exit" => slot'[c] \in DOMAIN Queue[c]
         /\ spun' \in [Blocks -> BOOLEAN]
<1>1. pc' \in [Blocks -> PCs] /\ spun' \in [Blocks -> BOOLEAN]
  BY DEF TypeOK, Goto
<1>2. ASSUME NEW c \in Blocks, pc'[c] # "exit" PROVE slot'[c] \in DOMAIN Queue[c]
  BY <1>2 DEF TypeOK, Goto
<1> QED
  BY <1>1, <1>2

-----------------------------------------------------------------------------
(* Type correctness: every variable keeps its type, and a workgroup that   *)
(* has not left the kernel stands at a descriptor of its own queue.        *)

\* The state a first launch starts in is well typed.
LEMMA InitType == Init => TypeOK
<1> SUFFICES ASSUME Init PROVE TypeOK
  OBVIOUS
<1>1. n_tokens \in Nat \ {0}
  BY ConstantsAssumption DEF Init, AtMost
<1>2. ASSUME NEW b \in Blocks, pc[b] # "exit" PROVE slot[b] \in DOMAIN Queue[b]
  <2>1. Queue[b] \in Seq(TaskIds) /\ Queue[b] # <<>> /\ slot[b] = 1
    BY <1>2, DescriptorAssumption DEF Init
  <2> QED
    BY <2>1
<1>3. pc \in [Blocks -> PCs]
  <2>1. "exit" \in PCs /\ "wait" \in PCs
    BY DEF PCs, Waiting
  <2>2. pc = [b \in Blocks |-> IF Queue[b] = <<>> THEN "exit" ELSE "wait"]
    BY DEF Init
  <2> QED
    BY <2>1, <2>2
<1>4. /\ global_events \in [Events -> Nat]
      /\ xcd_flags \in [Xcds -> [Events -> Nat]]
      /\ xcd_counters \in [Xcds -> [Events -> Nat]]
      /\ held \in [Xcds -> [GlobalEvents -> Nat]]
  BY DEF Init
<1>5. arrived \in [Events -> SUBSET ((TaskIds \X Waves) \X Nat)]
  BY DEF Init
<1>6. epoch0 \in Nat \ {0}
  BY DEF Init
<1>8. abort \in BOOLEAN
  BY DEF Init
<1>9. sched \in [Xcds -> {"run", "stop", "exit"}]
  BY DEF Init
<1>7. /\ tok \in [Blocks -> Nat]
      /\ slot \in [Blocks -> Nat \ {0}]
      /\ spun \in [Blocks -> BOOLEAN]
      /\ inner \in [Blocks -> Nat]
      /\ wave \in [Blocks -> [Waves -> Nat]]
  BY DEF Init
<1> QED
  BY <1>1, <1>2, <1>3, <1>4, <1>5, <1>6, <1>7, <1>8, <1>9 DEF TypeOK

\* The steps of a workgroup that only move it, or bump a counter of its chiplet.
LEMMA WorkerType ==
  ASSUME TypeOK, NEW b \in Blocks, Worker(b)
  PROVE  TypeOK'
<1> USE DEF host
<1>1. CASE PassBoundary(b)
  <2>1. pc[b] # "exit" /\ Goto(b, "wait") /\ "wait" \in PCs /\ slot' = slot
    BY <1>1 DEF PassBoundary, PCs, Waiting
  <2> QED
    BY <1>1, <2>1, GotoType DEF PassBoundary, TypeOK
<1>2. CASE StartTask(b)
  <2>1. BodyStart(Current(b)) \in PCs
    BY BodyStartType DEF PCs
  <2>2. pc[b] # "exit" /\ Goto(b, BodyStart(Current(b))) /\ slot' = slot
    BY <1>2 DEF StartTask
  <2> QED
    BY <1>2, <2>1, <2>2, GotoType DEF StartTask, TypeOK
<1>3. CASE PassBodyWait(b)
  <2> DEFINE p == IF inner[b] + 1 = BodyWaits(Current(b)) THEN "body" ELSE "bodywait"
  <2>1. p \in PCs
    BY DEF PCs, Running
  <2>2. pc[b] # "exit" /\ Goto(b, p) /\ slot' = slot
    BY <1>3 DEF PassBodyWait
  <2>3. inner' \in [Blocks -> Nat]
    BY <1>3, AddAt DEF PassBodyWait, TypeOK
  <2> HIDE DEF p
  <2>4. /\ pc' \in [Blocks -> PCs]
        /\ \A c \in Blocks : pc'[c] # "exit" => slot'[c] \in DOMAIN Queue[c]
        /\ spun' \in [Blocks -> BOOLEAN]
    BY <2>1, <2>2, GotoType
  <2> QED
    BY <1>3, <2>3, <2>4 DEF PassBodyWait, TypeOK
<1>4. CASE Checkpoint(b)
  BY <1>4 DEF Checkpoint, TypeOK
<1>5. CASE GiveUp(b)
  <2>1. CASE pc[b] = "bodywait"
    BY <1>5, <2>1, AdvanceType DEF GiveUp, TypeOK, BlockTypes
  <2>2. CASE pc[b] # "bodywait"
    <3>1. pc[b] # "exit" /\ Goto(b, "exit") /\ "exit" \in PCs /\ slot' = slot
      BY <1>5, <2>2 DEF GiveUp, PCs, Waiting
    <3> QED
      BY <1>5, <2>2, <3>1, GotoType DEF GiveUp, TypeOK
  <2> QED
    BY <2>1, <2>2
<1>6. ASSUME NEW v \in Waves, SignalChunk(b, v) PROVE TypeOK'
  <2>1. SignalledBy(v) \in SUBSET Waves
    BY DEF SignalledBy
  <2>2. pc[b] # "exit"
    BY <1>6 DEF SignalChunk
  <2>3. /\ xcd_counters' \in [Xcds -> [Events -> Nat]]
        /\ arrived' \in [Events -> SUBSET ((TaskIds \X Waves) \X Nat)]
    BY <1>6, <2>1, <2>2, CountType DEF SignalChunk
  <2>4. wave' \in [Blocks -> [Waves -> Nat]]
    BY <1>6 DEF SignalChunk, TypeOK
  <2> QED
    BY <1>6, <2>3, <2>4 DEF SignalChunk, TypeOK
<1>7. CASE ArriveRouter(b)
  <2> DEFINE p == IF LastArrival(b, Current(b).local_event, Cardinality(Workers))
                  THEN "topk" ELSE "body"
  <2>1. p \in PCs
    BY DEF PCs, Running
  <2>2. pc[b] # "exit" /\ Goto(b, p) /\ slot' = slot
    BY <1>7 DEF ArriveRouter
  <2>3. {0} \in SUBSET Waves
    BY WaveSets
  <2>4. /\ xcd_counters' \in [Xcds -> [Events -> Nat]]
        /\ arrived' \in [Events -> SUBSET ((TaskIds \X Waves) \X Nat)]
    BY <1>7, <2>2, <2>3, CountType DEF ArriveRouter
  <2> HIDE DEF p
  <2> QED
    BY <1>7, <2>1, <2>2, <2>4, GotoType DEF ArriveRouter, TypeOK
<1>8. CASE PublishTopk(b)
  <2>1. pc[b] # "exit" /\ Goto(b, "body") /\ "body" \in PCs /\ slot' = slot
    BY <1>8 DEF PublishTopk, PCs, Running
  <2> QED
    BY <1>8, <2>1, GotoType DEF PublishTopk, TypeOK
<1>9. CASE Signal(b)
  <2>1. BlockTypes'
    <3>1. CASE Advance(b)
      BY <3>1, AdvanceType
    <3>2. CASE Goto(b, "publish") /\ UNCHANGED <<tok, slot, inner, wave>>
      <4>1. pc[b] # "exit" /\ "publish" \in PCs
        BY <1>9 DEF Signal, PCs
      <4> QED
        BY <3>2, <4>1, GotoType DEF TypeOK, BlockTypes
    <3> QED
      BY <1>9, <3>1, <3>2 DEF Signal
  <2>2. /\ xcd_counters' \in [Xcds -> [Events -> Nat]]
        /\ arrived' \in [Events -> SUBSET ((TaskIds \X Waves) \X Nat)]
    <3>1. CASE UNCHANGED <<xcd_counters, arrived>>
      BY <3>1 DEF TypeOK
    <3>2. CASE Count(b, Current(b).signal_event, {0})
      BY <1>9, <3>2, WaveSets, CountType DEF Signal
    <3> QED
      BY <1>9, <3>1, <3>2 DEF Signal
  <2> QED
    BY <1>9, <2>1, <2>2 DEF Signal, TypeOK, BlockTypes
<1>10. CASE Publish(b)
  <2>1. pc[b] # "exit" /\ Advance(b)
    BY <1>10 DEF Publish
  <2>2. BlockTypes'
    BY <2>1, AdvanceType
  <2>3. Current(b).signal_xcd_count \in Nat
    BY <2>1, CurrentType DEF TaskDescriptor
  <2>4. global_events' \in [Events -> Nat]
    BY <1>10, <2>3, AddAt DEF Publish, TypeOK
  <2> QED
    BY <1>10, <2>2, <2>4 DEF Publish, TypeOK, BlockTypes
<1> QED
  BY <1>1, <1>2, <1>3, <1>4, <1>5, <1>6, <1>7, <1>8, <1>9, <1>10 DEF Worker

\* A scheduler only copies counters and changes its own state.
LEMMA SchedulerType ==
  ASSUME TypeOK, NEW x \in Xcds,
         (\E e \in GlobalEvents : Relay(x, e)) \/ StopScheduler(x) \/ ExitScheduler(x)
  PROVE  TypeOK'
<1> USE DEF host, block
<1>1. ASSUME NEW e \in GlobalEvents, PollGlobal(x, e) PROVE TypeOK'
  <2>1. global_events[e] \in Nat
    BY ConstantsAssumption DEF TypeOK
  <2>2. held' \in [Xcds -> [GlobalEvents -> Nat]]
    BY <1>1, <2>1 DEF PollGlobal, TypeOK
  <2> QED
    BY <1>1, <2>2 DEF PollGlobal, TypeOK
<1>2. ASSUME NEW e \in GlobalEvents, StoreFlag(x, e) PROVE TypeOK'
  <2>1. held[x][e] \in Nat
    BY DEF TypeOK
  <2>2. xcd_flags' \in [Xcds -> [Events -> Nat]]
    BY <1>2, <2>1, ConstantsAssumption DEF StoreFlag, TypeOK
  <2> QED
    BY <1>2, <2>2 DEF StoreFlag, TypeOK
<1>3. CASE StopScheduler(x)
  BY <1>3 DEF StopScheduler, TypeOK
<1>4. CASE ExitScheduler(x)
  BY <1>4 DEF ExitScheduler, TypeOK
<1> QED
  BY <1>1, <1>2, <1>3, <1>4 DEF Relay

\* A relaunch starts every workgroup inside its queue.
LEMMA RelaunchType == ASSUME TypeOK, Relaunch PROVE TypeOK'
<1>1. epoch0' \in Nat \ {0}
  BY DEF Relaunch, NextLaunch, TypeOK
<1>2. n_tokens' \in Nat \ {0}
  BY ConstantsAssumption DEF Relaunch, NextLaunch, TypeOK, AtMost, Decoded
<1>3. BlockTypes'
  <2>1. pc' \in [Blocks -> PCs]
    BY DEF Relaunch, NextLaunch, Start, PCs, Waiting
  <2>2. ASSUME NEW b \in Blocks, pc'[b] # "exit" PROVE slot'[b] \in DOMAIN Queue[b]
    <3>1. Queue[b] \in Seq(TaskIds) /\ Queue[b] # <<>> /\ slot'[b] = 1
      BY <2>2, DescriptorAssumption DEF Relaunch, NextLaunch, Start
    <3> QED
      BY <3>1
  <2> QED
    BY <2>1, <2>2 DEF Relaunch, NextLaunch, Start, BlockTypes
<1> QED
  BY <1>1, <1>2, <1>3 DEF Relaunch, NextLaunch, TypeOK, BlockTypes

\* The kernel and the host loop keep the state of every launch well typed.
THEOREM TypeCorrect == Spec => []TypeOK
<1>1. Init => TypeOK
  BY InitType
<1>2. TypeOK /\ [Next]_vars => TypeOK'
  <2> SUFFICES ASSUME TypeOK, [Next]_vars PROVE TypeOK'
    OBVIOUS
  <2>1. ASSUME NEW b \in Blocks, Worker(b) PROVE TypeOK'
    BY <2>1, WorkerType
  <2>2. ASSUME NEW x \in Xcds,
               (\E e \in GlobalEvents : Relay(x, e)) \/ StopScheduler(x) \/ ExitScheduler(x)
        PROVE  TypeOK'
    BY <2>2, SchedulerType
  <2>3. CASE Relaunch
    BY <2>3, RelaunchType
  <2>4. CASE UNCHANGED vars
    BY <2>4 DEF vars, TypeOK
  <2> QED
    BY <2>1, <2>2, <2>3, <2>4 DEF Next, Scheduler, Finished
<1> QED
  BY <1>1, <1>2, PTL DEF Spec

-----------------------------------------------------------------------------
(* The relay.  Only the last arriver of a chiplet raises a global counter, *)
(* only the event's own lane writes its mirror, and it writes what it read *)
(* at an earlier, hence no larger, value of the counter.                   *)

\* Before the first count, mirror, lane and counter agree.
LEMMA InitLag == Init => MirrorsLag
  BY ConstantsAssumption DEF Init, MirrorsLag

\* What the relay's steps read is a natural number.
LEMMA RelayTypes ==
  ASSUME TypeOK, NEW x \in Xcds, NEW e \in GlobalEvents
  PROVE  /\ e \in Events
         /\ held[x][e] \in Nat /\ xcd_flags[x][e] \in Nat /\ global_events[e] \in Nat
<1>1. e \in Events
  BY ConstantsAssumption
<1>2. /\ held \in [Xcds -> [GlobalEvents -> Nat]]
      /\ xcd_flags \in [Xcds -> [Events -> Nat]]
      /\ global_events \in [Events -> Nat]
  BY DEF TypeOK
<1>3. held[x] \in [GlobalEvents -> Nat] /\ xcd_flags[x] \in [Events -> Nat]
  BY <1>2
<1> QED
  BY <1>1, <1>2, <1>3

\* No worker step lowers a global counter or touches a mirror.
LEMMA WorkerLag ==
  ASSUME TypeOK, MirrorsLag, NEW b \in Blocks, Worker(b)
  PROVE  MirrorsLag' /\ xcd_flags' = xcd_flags
<1>1. xcd_flags' = xcd_flags /\ held' = held
  BY DEF Worker, PassBoundary, StartTask, PassBodyWait, Checkpoint, GiveUp, SignalChunk,
         ArriveRouter, PublishTopk, Signal, Publish
<1>2. CASE Publish(b)
  <2> DEFINE e0 == Current(b).signal_event
             n  == Current(b).signal_xcd_count
  <2>1. pc[b] # "exit" /\ global_events' = [global_events EXCEPT ![e0] = @ + n]
    BY <1>2 DEF Publish
  <2>2. n \in Nat
    BY <2>1, CurrentType DEF TaskDescriptor
  <2> HIDE DEF e0, n
  <2>3. ASSUME NEW e \in GlobalEvents PROVE global_events[e] <= global_events'[e]
    <3>1. global_events \in [Events -> Nat] /\ e \in Events
      BY ConstantsAssumption DEF TypeOK
    <3>2. CASE e = e0
      BY <2>1, <2>2, <3>1, <3>2
    <3>3. CASE e # e0
      BY <2>1, <3>1, <3>3
    <3> QED
      BY <3>2, <3>3
  <2>4. ASSUME NEW x \in Xcds, NEW e \in GlobalEvents
        PROVE  xcd_flags[x][e] <= held[x][e] /\ held[x][e] <= global_events'[e]
    <3>1. /\ held[x][e] \in Nat /\ global_events[e] \in Nat
          /\ xcd_flags[x][e] <= held[x][e] /\ held[x][e] <= global_events[e]
      BY RelayTypes DEF MirrorsLag
    <3>2. global_events'[e] \in Nat
      BY WorkerType, ConstantsAssumption DEF TypeOK
    <3> QED
      BY <2>3, <3>1, <3>2
  <2> QED
    BY <1>1, <2>4 DEF MirrorsLag
<1>3. CASE ~Publish(b)
  <2>1. global_events' = global_events
    BY <1>3 DEF Worker, PassBoundary, StartTask, PassBodyWait, Checkpoint, GiveUp,
                SignalChunk, ArriveRouter, PublishTopk, Signal
  <2> QED
    BY <1>1, <2>1 DEF MirrorsLag
<1> QED
  BY <1>1, <1>2, <1>3

\* A scheduler step keeps its lane between the mirror and the counter, and
\* raises a mirror if it writes one.
LEMMA SchedulerLag ==
  ASSUME TypeOK, MirrorsLag, NEW x \in Xcds,
         (\E e \in GlobalEvents : Relay(x, e)) \/ StopScheduler(x) \/ ExitScheduler(x)
  PROVE  /\ MirrorsLag'
         /\ \A y \in Xcds, e \in Events : xcd_flags'[y][e] >= xcd_flags[y][e]
<1> DEFINE Grow == \A y \in Xcds, e \in Events : xcd_flags'[y][e] >= xcd_flags[y][e]
<1>0. ASSUME NEW y \in Xcds, NEW e \in Events PROVE xcd_flags[y][e] \in Nat
  BY <1>0 DEF TypeOK
<1>1. ASSUME NEW e \in GlobalEvents, PollGlobal(x, e) PROVE MirrorsLag' /\ Grow
  <2>1. /\ held' = [held EXCEPT ![x][e] = global_events[e]]
        /\ xcd_flags' = xcd_flags /\ global_events' = global_events
        /\ held[x][e] = xcd_flags[x][e]
    BY <1>1 DEF PollGlobal
  <2>0. held \in [Xcds -> [GlobalEvents -> Nat]]
    BY DEF TypeOK
  <2>2. ASSUME NEW y \in Xcds, NEW f \in GlobalEvents
        PROVE  xcd_flags[y][f] <= held'[y][f] /\ held'[y][f] <= global_events[f]
    <3>1. /\ held[y][f] \in Nat /\ global_events[f] \in Nat /\ xcd_flags[y][f] \in Nat
          /\ xcd_flags[y][f] <= held[y][f] /\ held[y][f] <= global_events[f]
      BY RelayTypes DEF MirrorsLag
    <3>2. held'[y][f] = IF y = x /\ f = e THEN global_events[e] ELSE held[y][f]
      BY <2>0, <2>1
    <3>3. CASE y = x /\ f = e
      BY <2>1, <3>1, <3>2, <3>3
    <3>4. CASE ~(y = x /\ f = e)
      BY <3>1, <3>2, <3>4
    <3> QED
      BY <3>3, <3>4
  <2> QED
    BY <1>0, <2>1, <2>2 DEF MirrorsLag
<1>2. ASSUME NEW e \in GlobalEvents, StoreFlag(x, e) PROVE MirrorsLag' /\ Grow
  <2>1. /\ xcd_flags' = [xcd_flags EXCEPT ![x][e] = held[x][e]]
        /\ held' = held /\ global_events' = global_events
    BY <1>2 DEF StoreFlag
  <2>2. ASSUME NEW y \in Xcds, NEW f \in Events
        PROVE  xcd_flags'[y][f] = IF y = x /\ f = e THEN held[x][e] ELSE xcd_flags[y][f]
    BY <2>1 DEF TypeOK
  <2>3. /\ held[x][e] \in Nat /\ xcd_flags[x][e] <= held[x][e]
    BY RelayTypes DEF MirrorsLag
  <2>4. Grow
    BY <1>0, <2>2, <2>3
  <2>5. ASSUME NEW y \in Xcds, NEW f \in GlobalEvents
        PROVE  xcd_flags'[y][f] <= held[y][f] /\ held[y][f] <= global_events[f]
    <3>1. /\ held[y][f] \in Nat
          /\ xcd_flags[y][f] <= held[y][f] /\ held[y][f] <= global_events[f]
      BY RelayTypes DEF MirrorsLag
    <3>2. xcd_flags'[y][f] = IF y = x /\ f = e THEN held[x][e] ELSE xcd_flags[y][f]
      BY <2>2, RelayTypes
    <3>3. CASE y = x /\ f = e
      BY <3>1, <3>2, <3>3
    <3>4. CASE ~(y = x /\ f = e)
      BY <3>1, <3>2, <3>4
    <3> QED
      BY <3>3, <3>4
  <2> QED
    BY <2>1, <2>4, <2>5 DEF MirrorsLag
<1>3. CASE StopScheduler(x)
  BY <1>0, <1>3 DEF StopScheduler, MirrorsLag
<1>4. CASE ExitScheduler(x)
  BY <1>0, <1>4 DEF ExitScheduler, MirrorsLag
<1> QED
  BY <1>1, <1>2, <1>3, <1>4 DEF Relay

\* Every step, a relaunch included, keeps the order and raises mirrors only.
LEMMA NextLag ==
  ASSUME TypeOK, MirrorsLag, [Next]_vars
  PROVE  /\ MirrorsLag'
         /\ \A y \in Xcds, e \in Events : xcd_flags'[y][e] >= xcd_flags[y][e]
<1>0. ASSUME NEW y \in Xcds, NEW e \in Events PROVE xcd_flags[y][e] \in Nat
  BY <1>0 DEF TypeOK
<1>1. ASSUME xcd_flags' = xcd_flags
      PROVE  \A y \in Xcds, e \in Events : xcd_flags'[y][e] >= xcd_flags[y][e]
  BY <1>0, <1>1
<1>2. CASE \E b \in Blocks : Worker(b)
  BY <1>1, <1>2, WorkerLag
<1>3. ASSUME NEW x \in Xcds,
             (\E e \in GlobalEvents : Relay(x, e)) \/ StopScheduler(x) \/ ExitScheduler(x)
      PROVE  /\ MirrorsLag'
             /\ \A y \in Xcds, e \in Events : xcd_flags'[y][e] >= xcd_flags[y][e]
  BY <1>3, SchedulerLag
<1>4. CASE Relaunch
  BY <1>1, <1>4 DEF Relaunch, NextLaunch, MirrorsLag
<1>5. CASE UNCHANGED vars
  BY <1>1, <1>5 DEF vars, MirrorsLag
<1>6. \/ \E b \in Blocks : Worker(b)
      \/ \E x \in Xcds : \/ \E e \in GlobalEvents : Relay(x, e)
                         \/ StopScheduler(x)
                         \/ ExitScheduler(x)
      \/ Relaunch
      \/ UNCHANGED vars
  BY DEF Next, Scheduler, Finished
<1> QED
  BY <1>2, <1>3, <1>4, <1>5, <1>6

\* However late a scheduler lane stores what it polled, a mirror never shows a
\* count the global counter has not reached (run_scheduler, signal_event).
THEOREM MirrorsLagBehind == Spec => []MirrorsLag
<1>1. Init => MirrorsLag
  BY InitLag
<1>2. TypeOK /\ MirrorsLag /\ [Next]_vars => MirrorsLag'
  BY NextLag
<1> QED
  BY <1>1, <1>2, TypeCorrect, PTL DEF Spec

\* ... and it never runs backwards, in a launch or from one launch to the next:
\* a wait once satisfied for an epoch stays satisfied (run_scheduler, and the
\* host loop that launches again on the same counters).
THEOREM MirrorsNeverRunBackwards == Spec => MirrorsOnlyGrow
<1>1. TypeOK /\ MirrorsLag /\ [Next]_vars =>
        [\A x \in Xcds, e \in Events : xcd_flags'[x][e] >= xcd_flags[x][e]]_vars
  BY NextLag
<1> QED
  BY <1>1, TypeCorrect, MirrorsLagBehind, PTL DEF Spec, MirrorsOnlyGrow

-----------------------------------------------------------------------------
USE DEF NoEvent

-----------------------------------------------------------------------------
(* The task graph.                                                         *)

LEMMA EventsNat == Events \subseteq Nat /\ NoEvent \notin Events
<1>1. Events \subseteq Nat
  BY ConstantsAssumption
<1> QED
  BY <1>1

LEMMA TaskFacts ==
  ASSUME NEW i \in TaskIds
  PROVE  /\ Desc[i] \in TaskDescriptor
         /\ Owner(i) \in Blocks /\ Owner(i)[1] = Desc[i].xcd
         /\ \E s \in DOMAIN Queue[Owner(i)] : Queue[Owner(i)][s] = i
         /\ CountsOnce(Desc[i]) /\ SignalIsExact(Desc[i]) /\ WaitsAreExact(Desc[i])
<1>1. Desc[i] \in TaskDescriptor
  BY DescriptorAssumption DEF TaskIds
<1>2. Owner(i) \in Blocks /\ Owner(i)[1] = Desc[i].xcd
  BY <1>1 DEF Owner, Blocks, TaskDescriptor
<1> QED
  BY <1>1, <1>2, GraphAssumption

LEMMA TasksFinite == IsFiniteSet(TaskIds) /\ TaskIds = 1 .. Len(Desc) /\ Len(Desc) \in Nat
<1>1. TaskIds = 1 .. Len(Desc) /\ Len(Desc) \in Nat
  BY DescriptorAssumption DEF TaskIds
<1> QED
  BY <1>1, FS_Interval

LEMMA QueueFacts ==
  ASSUME NEW b \in Blocks
  PROVE  /\ Queue[b] \in Seq(TaskIds)
         /\ Len(Queue[b]) \in Nat /\ DOMAIN Queue[b] = 1 .. Len(Queue[b])
         /\ Queue[b] # <<>> => Len(Queue[b]) >= 1
         /\ \A s \in DOMAIN Queue[b] :
              /\ Queue[b][s] \in TaskIds
              /\ Owner(Queue[b][s]) = b
              /\ \A r \in DOMAIN Queue[b] : Queue[b][r] = Queue[b][s] => r = s
<1>1. Queue[b] \in Seq(TaskIds)
  BY DescriptorAssumption
<1>2. /\ Len(Queue[b]) \in Nat /\ DOMAIN Queue[b] = 1 .. Len(Queue[b])
      /\ Queue[b] # <<>> => Len(Queue[b]) >= 1
      /\ \A s \in DOMAIN Queue[b] : Queue[b][s] \in TaskIds
  BY <1>1
<1>3. ASSUME NEW s \in DOMAIN Queue[b]
      PROVE  /\ Owner(Queue[b][s]) = b
             /\ \A r \in DOMAIN Queue[b] : Queue[b][r] = Queue[b][s] => r = s
  BY DescriptorAssumption DEF Owner
<1> QED
  BY <1>1, <1>2, <1>3

\* Who counts on an event, in the words of its definition.
LEMMA IsProducer ==
  ASSUME NEW e \in Events, NEW i \in TaskIds, NEW v \in Waves
  PROVE  <<i, v>> \in Producers[e] <=>
           \/ v = 0 /\ Desc[i].signal_event = e
           \/ e \in ChunkEvents(Desc[i])
           \/ v = 0 /\ CountsTopk(Desc[i]) /\ Desc[i].local_event = e
  BY DEF Producers

LEMMA ProducerFacts ==
  ASSUME NEW e \in Events
  PROVE  /\ Producers[e] \subseteq TaskIds \X Waves
         /\ IsFiniteSet(Producers[e])
         /\ \A p \in Producers[e] :
              p[1] \in TaskIds /\ p[2] \in Waves /\ p = <<p[1], p[2]>> /\ Desc[p[1]].xcd \in Xcds
<1>1. Producers[e] \subseteq TaskIds \X Waves
  BY DEF Producers
<1>2. IsFiniteSet(Waves)
  BY FS_Interval, ConstantsAssumption DEF Waves
<1>3. IsFiniteSet(TaskIds \X Waves)
  BY <1>2, TasksFinite, FS_Product
<1>4. IsFiniteSet(Producers[e])
  BY <1>1, <1>3, FS_Subset
<1>5. \A i \in TaskIds : Desc[i].xcd \in Xcds
  BY TaskFacts DEF TaskDescriptor
<1> QED
  BY <1>1, <1>4, <1>5

LEMMA ShareFacts ==
  ASSUME NEW e \in Events, NEW x \in Xcds
  PROVE  /\ ProducersOn[x][e] = { p \in Producers[e] : Desc[p[1]].xcd = x }
         /\ IsFiniteSet(ProducersOn[x][e])
         /\ ProducersOn[x][e] \subseteq Producers[e]
<1>1. ProducersOn[x][e] = { p \in Producers[e] : Desc[p[1]].xcd = x }
  BY DEF ProducersOn
<1> QED
  BY <1>1, ProducerFacts, FS_Subset

LEMMA AwaitedFacts ==
  /\ Awaited \subseteq Events
  /\ DoneEvent \in Awaited /\ DoneEvent \in Events
  /\ GlobalEvents \subseteq Awaited
  /\ \A i \in TaskIds : WaitsOf(Desc[i]) \subseteq Awaited
<1>1. ASSUME NEW i \in TaskIds PROVE WaitsOf(Desc[i]) \subseteq Events
  <2> DEFINE t == Desc[i]
  <2>1. t \in TaskDescriptor
    BY TaskFacts
  <2>2. {t.wait_event} \ {NoEvent} \subseteq Events
    BY <2>1 DEF TaskDescriptor
  <2>3. BodyEvents(t) \subseteq Events
    BY DescriptorAssumption
  <2>4. ASSUME NEW n \in 1 .. BodyWaits(t) PROVE BodyWaitEvent(t, n) \in BodyEvents(t)
    <3>1. CASE "PUB_WAIT" \in t.flags
      BY <3>1 DEF BodyWaitEvent, BodyEvents
    <3>2. CASE "PUB_WAIT" \notin t.flags
      <4>1. BodyWaitEvent(t, n) = t.local_event + n
        BY <3>2 DEF BodyWaitEvent
      <4>2. n \in 1 .. ChunksRead(t) - 1
        BY <3>2 DEF BodyWaits
      <4> QED
        BY <4>1, <4>2 DEF BodyEvents
    <3> QED
      BY <3>1, <3>2
  <2> QED
    BY <2>2, <2>3, <2>4 DEF WaitsOf
<1>2. DoneEvent \in Events
  BY ConstantsAssumption
<1> QED
  BY <1>1, <1>2, GraphAssumption DEF Awaited

-----------------------------------------------------------------------------
(* Where a workgroup is, and how its steps move it.                        *)

LEMMA EpochType ==
  ASSUME TypeOK, NEW b \in Blocks
  PROVE  Epoch(b) \in Nat \ {0} /\ epoch0 \in Nat \ {0} /\ tok[b] \in Nat
<1>1. epoch0 \in Nat \ {0} /\ tok[b] \in Nat
  BY DEF TypeOK
<1> QED
  BY <1>1 DEF Epoch

LEMMA StepTypes ==
  ASSUME TypeOK, NEW b \in Blocks, Worker(b)
  PROVE  /\ \A c \in Blocks : Epoch(c)' \in Nat
         /\ \A e \in Events : arrived'[e] \subseteq (TaskIds \X Waves) \X Nat
<1>1. TypeOK'
  BY WorkerType
<1> QED
  BY <1>1 DEF TypeOK, Epoch

LEMMA Standing ==
  ASSUME TypeOK, NEW b \in Blocks, pc[b] # "exit"
  PROVE  /\ slot[b] \in DOMAIN Queue[b] /\ slot[b] \in 1 .. Len(Queue[b])
         /\ Here(b) \in TaskIds /\ Owner(Here(b)) = b
         /\ Current(b) = Desc[Here(b)] /\ Current(b).xcd = b[1]
         /\ Current(b) \in TaskDescriptor
         /\ AtTask(Here(b))
         /\ ~ Behind(Here(b), Epoch(b))
<1>1. slot[b] \in DOMAIN Queue[b] /\ slot[b] \in 1 .. Len(Queue[b])
  BY QueueFacts DEF TypeOK
<1>2. Here(b) \in TaskIds /\ Owner(Here(b)) = b
  BY <1>1, QueueFacts DEF Here
<1>3. Current(b) = Desc[Here(b)]
  BY DEF Current, Here
<1>4. Current(b).xcd = b[1] /\ Current(b) \in TaskDescriptor
  BY <1>2, <1>3, TaskFacts
<1>5. ~ Behind(Here(b), Epoch(b))
  <2>1. Epoch(b) \in Nat
    BY EpochType
  <2>2. ASSUME NEW s \in DOMAIN Queue[b], Queue[b][s] = Here(b) PROVE s = slot[b]
    BY <1>1, <2>2, QueueFacts DEF Here
  <2> QED
    BY <1>1, <1>2, <2>1, <2>2, QueueFacts DEF Behind
<1> QED
  BY <1>1, <1>2, <1>3, <1>4, <1>5 DEF AtTask

\* A step of workgroup b is a step of b.
LEMMA OthersStay ==
  ASSUME TypeOK, NEW b \in Blocks, Worker(b)
  PROVE  /\ epoch0' = epoch0 /\ n_tokens' = n_tokens
         /\ xcd_flags' = xcd_flags /\ sched' = sched /\ held' = held
         /\ abort => abort'
         /\ pc[b] # "exit"
         /\ \A c \in Blocks : c # b =>
              /\ pc'[c] = pc[c] /\ tok'[c] = tok[c] /\ slot'[c] = slot[c]
              /\ inner'[c] = inner[c] /\ wave'[c] = wave[c]
              /\ Epoch(c)' = Epoch(c) /\ Current(c)' = Current(c) /\ Here(c)' = Here(c)
<1> USE DEF host
<1>1. /\ epoch0' = epoch0 /\ n_tokens' = n_tokens
      /\ xcd_flags' = xcd_flags /\ sched' = sched /\ held' = held
      /\ abort => abort'
      /\ pc[b] # "exit"
  BY DEF Worker, PassBoundary, StartTask, PassBodyWait, Checkpoint, GiveUp, SignalChunk,
         ArriveRouter, PublishTopk, Signal, Publish, Waiting
<1>2. ASSUME NEW c \in Blocks, c # b
      PROVE  /\ pc'[c] = pc[c] /\ tok'[c] = tok[c] /\ slot'[c] = slot[c]
             /\ inner'[c] = inner[c] /\ wave'[c] = wave[c]
  <2>1. /\ pc \in [Blocks -> PCs] /\ tok \in [Blocks -> Nat] /\ slot \in [Blocks -> Nat \ {0}]
        /\ inner \in [Blocks -> Nat] /\ wave \in [Blocks -> [Waves -> Nat]]
    BY DEF TypeOK
  <2>2. \/ Advance(b)
        \/ /\ \E p : Goto(b, p)
           /\ UNCHANGED <<tok, slot>>
           /\ \/ inner' = inner \/ inner' = [inner EXCEPT ![b] = @ + 1]
           /\ wave' = wave
        \/ /\ UNCHANGED <<pc, tok, slot, inner>>
           /\ wave' = wave \/ \E v \in Waves : wave' = [wave EXCEPT ![b][v] = @ + 1]
    BY DEF Worker, PassBoundary, StartTask, PassBodyWait, Checkpoint, GiveUp, SignalChunk,
         ArriveRouter, PublishTopk, Signal, Publish
  <2> QED
    BY <1>2, <2>1, <2>2 DEF Advance, Goto
<1> QED
  BY <1>1, <1>2 DEF Epoch, Current, Here

\* The next descriptor, or the next token's first.
LEMMA AdvanceTo ==
  ASSUME TypeOK, NEW b \in Blocks, pc[b] # "exit", Advance(b), epoch0' = epoch0
  PROVE  /\ pc'[b] \in {"exit", "boundary", "wait"}
         /\ inner'[b] = 0 /\ wave'[b] = [v \in Waves |-> 0]
         /\ slot[b] = Len(Queue[b]) =>
              /\ slot'[b] = 1 /\ tok'[b] = tok[b] + 1 /\ Epoch(b)' = Epoch(b) + 1
         /\ slot[b] # Len(Queue[b]) =>
              /\ slot'[b] = slot[b] + 1 /\ tok'[b] = tok[b] /\ Epoch(b)' = Epoch(b)
         /\ slot'[b] \in DOMAIN Queue[b]
         /\ pc'[b] = "exit" <=> tok'[b] = n_tokens
         /\ pc'[b] = "wait" /\ Current(b)'.kind = "EMBED" => tok'[b] = 0
<1>1. /\ pc \in [Blocks -> PCs] /\ tok \in [Blocks -> Nat] /\ slot \in [Blocks -> Nat \ {0}]
      /\ inner \in [Blocks -> Nat] /\ wave \in [Blocks -> [Waves -> Nat]]
  BY DEF TypeOK
<1> DEFINE s == IF Drained(b) THEN 1 ELSE slot[b] + 1
           k == IF Drained(b) THEN tok[b] + 1 ELSE tok[b]
<1>2. /\ slot'[b] = s /\ tok'[b] = k /\ pc'[b] = Entry(b, s, k)
      /\ inner'[b] = 0 /\ wave'[b] = [v \in Waves |-> 0]
  BY <1>1 DEF Advance
<1>3. slot[b] \in 1 .. Len(Queue[b]) /\ Len(Queue[b]) \in Nat
  BY Standing, QueueFacts
<1>4. s \in 1 .. Len(Queue[b])
  BY <1>3 DEF Drained
<1>5. epoch0 \in Nat /\ tok[b] \in Nat
  BY EpochType
<1>6. /\ slot[b] = Len(Queue[b]) => s = 1 /\ k = tok[b] + 1 /\ Epoch(b)' = Epoch(b) + 1
      /\ slot[b] # Len(Queue[b]) => s = slot[b] + 1 /\ k = tok[b] /\ Epoch(b)' = Epoch(b)
  BY <1>2, <1>5 DEF Drained, Epoch
<1>7. k \in Nat
  BY <1>5
<1> HIDE DEF s, k
<1>8. ~ (s > Len(Queue[b]))
  BY <1>3, <1>4
<1>9. /\ Entry(b, s, k) \in {"exit", "boundary", "wait"}
      /\ Entry(b, s, k) = "exit" <=> k = n_tokens
      /\ Entry(b, s, k) = "wait" /\ Desc[Queue[b][s]].kind = "EMBED" => ~ (k > 0)
  BY <1>8 DEF Entry
<1>10. pc'[b] = "wait" /\ Current(b)'.kind = "EMBED" => tok'[b] = 0
  BY <1>2, <1>7, <1>9 DEF Current
<1> QED
  BY <1>2, <1>3, <1>4, <1>6, <1>9, <1>10, QueueFacts

\* Advancing puts the task under way, and nothing else, behind the workgroup.
LEMMA AdvanceBehind ==
  ASSUME TypeOK, NEW b \in Blocks, pc[b] # "exit", Advance(b), epoch0' = epoch0,
         NEW i \in TaskIds, Owner(i) = b, NEW k \in Nat
  PROVE  Behind(i, k)' <=> Behind(i, k) \/ (i = Here(b) /\ k = Epoch(b))
<1> DEFINE q == Queue[b]
           n == Len(q)
<1>1. Epoch(b) \in Nat
  BY EpochType
<1>2. n \in Nat /\ DOMAIN q = 1 .. n /\ slot[b] \in 1 .. n
  BY Standing, QueueFacts
<1>3. PICK s \in DOMAIN q : q[s] = i
  BY TaskFacts
<1>4. \A r \in DOMAIN q : q[r] = i => r = s
  BY <1>3, QueueFacts
<1>5. i = Here(b) <=> s = slot[b]
  BY <1>2, <1>3, <1>4 DEF Here
<1>6. Behind(i, k) <=> k < Epoch(b) \/ (k = Epoch(b) /\ s < slot[b])
  BY <1>3, <1>4 DEF Behind
<1>7. Behind(i, k)' <=> k < Epoch(b)' \/ (k = Epoch(b)' /\ s < slot'[b])
  BY <1>3, <1>4 DEF Behind
<1>8. CASE slot[b] = n
  <2>1. slot'[b] = 1 /\ Epoch(b)' = Epoch(b) + 1
    BY <1>8, AdvanceTo
  <2> QED
    BY <1>1, <1>2, <1>5, <1>6, <1>7, <1>8, <2>1
<1>9. CASE slot[b] # n
  <2>1. slot'[b] = slot[b] + 1 /\ Epoch(b)' = Epoch(b)
    BY <1>9, AdvanceTo
  <2> QED
    BY <1>1, <1>2, <1>5, <1>6, <1>7, <2>1
<1> QED
  BY <1>8, <1>9

-----------------------------------------------------------------------------
(* Arrivals.                                                               *)

\* Workgroup b counts on e for waves V of its task, which have not counted
\* there in this epoch.
Adds(b, e, V) ==
  /\ e \in Events /\ V \in SUBSET Waves /\ pc[b] \in {"arrive", "body"}
  /\ \A v \in V : <<Here(b), v>> \in Producers[e] /\ ~ HasCounted(<<Here(b), v>>, e)
  /\ Count(b, e, V)

NewArrivals(b, V) == { <<<<Here(b), v>>, Epoch(b)>> : v \in V }

\* What HasCounted says of the task its workgroup is at.
LEMMA HasCountedHere ==
  ASSUME TypeOK, NEW b \in Blocks, pc[b] # "exit", NEW v, NEW e
  PROVE  HasCounted(<<Here(b), v>>, e) <=>
           \/ \E c \in 0 .. Chunks(Current(b)) - 1, w \in Signallers :
                e = Current(b).local_event + c /\ v \in SignalledBy(w) /\ c < wave[b][w]
           \/ /\ v = 0 /\ CountsTopk(Current(b)) /\ Current(b).local_event = e
              /\ pc[b] \in {"topk", "body", "publish"}
           \/ v = 0 /\ Current(b).signal_event = e /\ pc[b] = "publish"
<1>1. Owner(Here(b)) = b /\ Current(b) = Desc[Here(b)]
  BY Standing
<1> QED
  BY <1>1 DEF HasCounted

LEMMA SignallersFacts ==
  /\ Signallers \subseteq Waves
  /\ \A w \in Signallers : SignalledBy(w) \in SUBSET Waves
  /\ \A v \in Waves : \E w \in Signallers : v \in SignalledBy(w)
  /\ \A u, w \in Signallers, v \in Waves :
       v \in SignalledBy(u) /\ v \in SignalledBy(w) => u = w
BY WaveSets DEF Signallers, SignalledBy

LEMMA SignalChunkAdds ==
  ASSUME TypeOK, NEW b \in Blocks, NEW w \in Waves, SignalChunk(b, w)
  PROVE  /\ Current(b).local_event + wave[b][w] \in ChunkEvents(Current(b))
         /\ Adds(b, Current(b).local_event + wave[b][w], SignalledBy(w))
<1> DEFINE t == Current(b)
           c == wave[b][w]
           e == t.local_event + c
<1>1. /\ pc[b] = "body" /\ w \in Signallers /\ c < Chunks(t) /\ Count(b, e, SignalledBy(w))
  BY DEF SignalChunk
<1>2. /\ pc[b] # "exit" /\ Here(b) \in TaskIds /\ t = Desc[Here(b)] /\ t \in TaskDescriptor
  BY <1>1, Standing
<1>3. c \in Nat
  BY DEF TypeOK
<1>4. Chunks(t) \in Int /\ t.local_event \in Int
  <2>1. t.kv_chunk \in Int /\ t.local_event \in Events \cup {NoEvent}
    BY <1>2 DEF TaskDescriptor
  <2>2. Events \cup {NoEvent} \subseteq Int
    BY EventsNat
  <2>3. Chunks(t) \in Int
    BY <2>1 DEF Chunks
  <2> QED
    BY <2>1, <2>2, <2>3
<1>5. e \in ChunkEvents(t)
  BY <1>1, <1>3, <1>4 DEF ChunkEvents
<1>6. e \in Events
  BY <1>2, <1>5, DescriptorAssumption DEF BodyEvents
<1>7. SignalledBy(w) \in SUBSET Waves
  BY <1>1, SignallersFacts
<1>8. ASSUME NEW v \in SignalledBy(w) PROVE <<Here(b), v>> \in Producers[e]
  BY <1>2, <1>5, <1>6, <1>7, IsProducer
<1>9. ASSUME NEW v \in SignalledBy(w), HasCounted(<<Here(b), v>>, e) PROVE FALSE
  <2>1. CountsOnce(t)
    BY <1>2, TaskFacts
  <2>2. CASE \E d \in 0 .. Chunks(t) - 1, u \in Signallers :
               e = t.local_event + d /\ v \in SignalledBy(u) /\ d < wave[b][u]
    <3>1. PICK d \in 0 .. Chunks(t) - 1, u \in Signallers :
                 e = t.local_event + d /\ v \in SignalledBy(u) /\ d < wave[b][u]
      BY <2>2
    <3>2. d = c
      BY <3>1, <1>3, <1>4
    <3>3. u = w
      BY <3>1, <1>1, <1>7, SignallersFacts
    <3> QED
      BY <3>1, <3>2, <3>3, <1>3
  <2>3. CASE CountsTopk(t)
    <3>1. Chunks(t) = 0
      BY <2>1, <2>3 DEF CountsOnce
    <3> QED
      BY <3>1, <1>1, <1>3
  <2> QED
    BY <1>1, <1>2, <1>9, <2>2, <2>3, HasCountedHere
<1> QED
  BY <1>1, <1>5, <1>6, <1>7, <1>8, <1>9 DEF Adds

LEMMA RouterAdds ==
  ASSUME TypeOK, Places, NEW b \in Blocks, ArriveRouter(b)
  PROVE  Adds(b, Current(b).local_event, {0})
<1> DEFINE t == Current(b)
           e == t.local_event
<1>1. pc[b] = "arrive" /\ Count(b, e, {0})
  BY DEF ArriveRouter
<1>2. /\ pc[b] # "exit" /\ Here(b) \in TaskIds /\ t = Desc[Here(b)] /\ t \in TaskDescriptor
  BY <1>1, Standing
<1>3. CountsTopk(t) /\ CountsOnce(t)
  BY <1>1, <1>2, TaskFacts DEF Places, PlaceOK
<1>4. e \in BodyEvents(t)
  BY <1>3 DEF CountsTopk, BodyEvents
<1>5. e \in Events
  BY <1>2, <1>4, DescriptorAssumption
<1>6. 0 \in Waves
  BY WaveSets
<1>7. <<Here(b), 0>> \in Producers[e]
  BY <1>2, <1>3, <1>5, <1>6, IsProducer
<1>8. ASSUME HasCounted(<<Here(b), 0>>, e) PROVE FALSE
  <2>1. Chunks(t) = 0
    BY <1>3 DEF CountsOnce
  <2>2. 0 .. Chunks(t) - 1 = {}
    BY <2>1
  <2> QED
    BY <1>1, <1>2, <1>8, <2>2, HasCountedHere
<1> QED
  BY <1>1, <1>5, <1>6, <1>7, <1>8 DEF Adds

LEMMA SignalAdds ==
  ASSUME TypeOK, NEW b \in Blocks, Signal(b), Current(b).signal_event # NoEvent
  PROVE  Adds(b, Current(b).signal_event, {0})
<1> DEFINE t == Current(b)
           e == t.signal_event
<1>1. pc[b] = "body" /\ Count(b, e, {0})
  BY DEF Signal
<1>2. /\ pc[b] # "exit" /\ Here(b) \in TaskIds /\ t = Desc[Here(b)] /\ t \in TaskDescriptor
  BY <1>1, Standing
<1>3. CountsOnce(t)
  BY <1>2, TaskFacts
<1>5. e \in Events
  BY <1>2 DEF TaskDescriptor
<1>6. 0 \in Waves
  BY WaveSets
<1>7. <<Here(b), 0>> \in Producers[e]
  BY <1>2, <1>5, <1>6, IsProducer
<1>8. ASSUME HasCounted(<<Here(b), 0>>, e) PROVE FALSE
  <2>1. e \notin ChunkEvents(t)
    BY <1>3 DEF CountsOnce
  <2>2. ~ \E c \in 0 .. Chunks(t) - 1, w \in Signallers : e = t.local_event + c
    BY <2>1 DEF ChunkEvents
  <2>3. ~ (CountsTopk(t) /\ t.local_event = e)
    BY <1>3 DEF CountsOnce
  <2> QED
    BY <1>1, <1>2, <1>8, <2>2, <2>3, HasCountedHere
<1> QED
  BY <1>1, <1>5, <1>6, <1>7, <1>8 DEF Adds

\* What an arrival changes: it was not there before, it is one of its event's.
LEMMA Arrivals ==
  ASSUME TypeOK, Fresh, NEW b \in Blocks, NEW e, NEW V, Adds(b, e, V)
  PROVE  /\ NewArrivals(b, V) \cap arrived[e] = {}
         /\ NewArrivals(b, V) \subseteq Producers[e] \X {Epoch(b)}
         /\ \A a \in NewArrivals(b, V) : a[1][1] = Here(b)
         /\ IsFiniteSet(NewArrivals(b, V)) /\ Cardinality(NewArrivals(b, V)) = Cardinality(V)
         /\ e \in Events /\ arrived'[e] = arrived[e] \cup NewArrivals(b, V)
         /\ \A f \in Events : f # e => arrived'[f] = arrived[f]
         /\ \A x \in Xcds, f \in Events :
              xcd_counters'[x][f] = IF x = b[1] /\ f = e
                                    THEN xcd_counters[x][f] + Cardinality(V)
                                    ELSE xcd_counters[x][f]
<1> DEFINE N == NewArrivals(b, V)
<1> USE DEF NewArrivals
<1>1. /\ e \in Events /\ V \in SUBSET Waves /\ pc[b] # "exit"
      /\ \A v \in V : <<Here(b), v>> \in Producers[e] /\ ~ HasCounted(<<Here(b), v>>, e)
      /\ Count(b, e, V)
  BY DEF Adds
<1>2. Owner(Here(b)) = b /\ ~ Behind(Here(b), Epoch(b))
  BY <1>1, Standing
<1>3. N \cap arrived[e] = {}
  <2>1. ASSUME NEW v \in V, <<<<Here(b), v>>, Epoch(b)>> \in arrived[e] PROVE FALSE
    BY <1>1, <1>2, <2>1 DEF Fresh
  <2> QED
    BY <2>1
<1>4. N \subseteq Producers[e] \X {Epoch(b)}
  BY <1>1
<1>5. IsFiniteSet(N) /\ Cardinality(N) = Cardinality(V)
  <2> DEFINE f == [v \in V |-> <<<<Here(b), v>>, Epoch(b)>>]
  <2>1. IsFiniteSet(V)
    <3>1. IsFiniteSet(Waves)
      BY FS_Interval, ConstantsAssumption DEF Waves
    <3> QED
      BY <1>1, <3>1, FS_Subset
  <2>2. f \in Bijection(V, N)
    BY DEF Bijection, Injection, Surjection, IsInjective
  <2>3. ExistsBijection(V, N)
    BY <2>2 DEF ExistsBijection
  <2> QED
    BY <2>1, <2>3, FS_Bijection
<1>6. arrived'[e] = arrived[e] \cup N
  BY <1>1 DEF Count, TypeOK, Here
<1>7. \A f \in Events : f # e => arrived'[f] = arrived[f]
  BY <1>1 DEF Count, TypeOK
<1>8. ASSUME NEW x \in Xcds, NEW f \in Events
      PROVE  xcd_counters'[x][f] = IF x = b[1] /\ f = e
                                   THEN xcd_counters[x][f] + Cardinality(V)
                                   ELSE xcd_counters[x][f]
  <2>1. xcd_counters \in [Xcds -> [Events -> Nat]] /\ b[1] \in Xcds
    BY BlockXcd DEF TypeOK
  <2>2. xcd_counters' = [xcd_counters EXCEPT ![b[1]][e] = @ + Cardinality(V)]
    BY <1>1 DEF Count
  <2> QED
    BY <1>1, <2>1, <2>2
<1> QED
  BY <1>1, <1>3, <1>4, <1>5, <1>6, <1>7, <1>8

\* Every step of a workgroup leaves the arrivals alone, or adds some of its task's.
LEMMA AddsOrNot ==
  ASSUME TypeOK, Places, NEW b \in Blocks, Worker(b)
  PROVE  UNCHANGED <<xcd_counters, arrived>> \/ \E e, V : Adds(b, e, V)
<1>1. ASSUME NEW w \in Waves, SignalChunk(b, w) PROVE \E e, V : Adds(b, e, V)
  BY <1>1, SignalChunkAdds
<1>2. CASE ArriveRouter(b)
  BY <1>2, RouterAdds
<1>3. CASE Signal(b)
  <2>1. CASE Current(b).signal_event = NoEvent
    BY <1>3, <2>1 DEF Signal
  <2> QED
    BY <1>3, <2>1, SignalAdds
<1> QED
  BY <1>1, <1>2, <1>3 DEF Worker, PassBoundary, StartTask, PassBodyWait, Checkpoint, GiveUp,
         PublishTopk, Publish

LEMMA Grow ==
  ASSUME TypeOK, Places, Fresh, NEW b \in Blocks, Worker(b), NEW e \in Events
  PROVE  /\ arrived[e] \subseteq arrived'[e] /\ IsFiniteSet(arrived'[e])
         /\ \A a \in arrived'[e] : a \notin arrived[e] =>
              /\ a[1] \in Producers[e] /\ a[1][1] = Here(b) /\ a[2] = Epoch(b)
              /\ pc[b] \in {"arrive", "body"}
<1>1. IsFiniteSet(arrived[e])
  BY DEF Fresh
<1>2. CASE UNCHANGED <<xcd_counters, arrived>>
  BY <1>1, <1>2
<1>3. ASSUME NEW f, NEW V, Adds(b, f, V)
      PROVE  /\ arrived[e] \subseteq arrived'[e] /\ IsFiniteSet(arrived'[e])
             /\ \A a \in arrived'[e] : a \notin arrived[e] =>
                  /\ a[1] \in Producers[e] /\ a[1][1] = Here(b) /\ a[2] = Epoch(b)
                  /\ pc[b] \in {"arrive", "body"}
  <2> DEFINE N == NewArrivals(b, V)
  <2>1. /\ f \in Events /\ N \subseteq Producers[f] \X {Epoch(b)} /\ IsFiniteSet(N)
        /\ arrived'[f] = arrived[f] \cup N
        /\ \A g \in Events : g # f => arrived'[g] = arrived[g]
    BY <1>3, Arrivals
  <2>2. \A a \in N : a[1][1] = Here(b) /\ a[2] = Epoch(b)
    BY DEF NewArrivals
  <2>3. pc[b] \in {"arrive", "body"}
    BY <1>3 DEF Adds
  <2>4. IsFiniteSet(arrived[e] \cup N)
    BY <1>1, <2>1, FS_Union
  <2> HIDE DEF N
  <2>5. CASE e = f
    BY <2>1, <2>2, <2>3, <2>4, <2>5
  <2>6. CASE e # f
    BY <1>1, <2>1, <2>6
  <2> QED
    BY <2>5, <2>6
<1> QED
  BY <1>2, <1>3, AddsOrNot

\* Only the last arriver of its chiplet goes on to publish.
LEMMA ToPublish ==
  ASSUME TypeOK, NEW b \in Blocks, Worker(b), pc'[b] = "publish"
  PROVE  /\ Signal(b) /\ pc[b] = "body"
         /\ Current(b).signal_event # NoEvent /\ Current(b).signal_scope # "XCD_LOCAL"
         /\ LastArrival(b, Current(b).signal_event, Current(b).signal_xcd_count)
         /\ UNCHANGED <<tok, slot, inner, wave>>
         /\ Epoch(b)' = Epoch(b) /\ Current(b)' = Current(b) /\ Here(b)' = Here(b)
<1> USE DEF host
<1>0. pc \in [Blocks -> PCs] /\ pc[b] # "exit" /\ epoch0' = epoch0
  BY OthersStay DEF TypeOK
<1>1. ~ Advance(b)
  BY <1>0, AdvanceTo
<1>2. ASSUME NEW p, Goto(b, p) PROVE pc'[b] = p
  BY <1>0, <1>2 DEF Goto
<1>3. ~ PassBoundary(b) /\ ~ PassBodyWait(b) /\ ~ GiveUp(b) /\ ~ ArriveRouter(b) /\ ~ PublishTopk(b)
  BY <1>1, <1>2 DEF PassBoundary, PassBodyWait, GiveUp, ArriveRouter, PublishTopk
<1>4. ~ StartTask(b)
  BY <1>2, BodyStartType DEF StartTask, Running
<1>5. ~ Checkpoint(b) /\ ~ Publish(b) /\ \A v \in Waves : ~ SignalChunk(b, v)
  BY <1>1 DEF Checkpoint, Publish, SignalChunk, Waiting
<1>6. Signal(b)
  BY <1>3, <1>4, <1>5 DEF Worker
<1>7. /\ pc[b] = "body"
      /\ Current(b).signal_event # NoEvent /\ Current(b).signal_scope # "XCD_LOCAL"
      /\ LastArrival(b, Current(b).signal_event, Current(b).signal_xcd_count)
      /\ UNCHANGED <<tok, slot, inner, wave>>
  BY <1>1, <1>6 DEF Signal
<1> QED
  BY <1>0, <1>6, <1>7 DEF Epoch, Current, Here

-----------------------------------------------------------------------------
(* What has been delivered stays delivered.                                *)

LEMMA DeliveredStays ==
  ASSUME TypeOK, Places, Fresh, NEW b \in Blocks, Worker(b),
         NEW e \in Events, NEW k, Delivered(e, k)
  PROVE  Delivered(e, k)'
<1>1. AllArrived(e, k)'
  BY Grow DEF Delivered, AllArrived
<1>2. ASSUME NEW c \in Blocks, Publishing(c, e, k)' PROVE FALSE
  <2>1. CASE c # b
    <3>1. Publishing(c, e, k)
      BY <1>2, <2>1, OthersStay DEF Publishing
    <3> QED
      BY <3>1 DEF Delivered
  <2>2. CASE c = b
    <3>1. pc'[b] = "publish"
      BY <1>2, <2>2 DEF Publishing
    <3>2. /\ Signal(b) /\ Current(b).signal_event # NoEvent
          /\ Current(b).signal_event = e /\ Epoch(b) = k
      BY <1>2, <2>2, <3>1, ToPublish DEF Publishing
    <3>3. Adds(b, e, {0})
      BY <3>2, SignalAdds
    <3>4. <<<<Here(b), 0>>, k>> \notin arrived[e]
      <4>1. NewArrivals(b, {0}) \cap arrived[e] = {}
        BY <3>3, Arrivals
      <4> QED
        BY <3>2, <4>1 DEF NewArrivals
    <3>5. <<Here(b), 0>> \in Producers[e]
      BY <3>3 DEF Adds
    <3> QED
      BY <3>4, <3>5 DEF Delivered, AllArrived
  <2> QED
    BY <2>1, <2>2
<1> QED
  BY <1>1, <1>2 DEF Delivered

LEMMA SettledStays ==
  ASSUME TypeOK, Places, Fresh, NEW b \in Blocks, Worker(b), NEW m, Settled(m)
  PROVE  Settled(m)'
BY DeliveredStays, AwaitedFacts DEF Settled

LEMMA SettledLess ==
  ASSUME NEW m \in Int, NEW n \in Int, n <= m, Settled(m) PROVE Settled(n)
BY DEF Settled
-----------------------------------------------------------------------------
(* What a counter that has reached its target says.                        *)

LEMMA ArrivalType ==
  ASSUME TypeOK, Fresh, NEW e \in Events, NEW a \in arrived[e]
  PROVE  /\ a = <<a[1], a[2]>> /\ a[1] \in Producers[e] /\ a[2] \in Nat \ {0}
         /\ a[1][1] \in TaskIds /\ a[1] = <<a[1][1], a[1][2]>>
<1>1. arrived[e] \subseteq (TaskIds \X Waves) \X Nat
  BY DEF TypeOK
<1>2. a[1] \in Producers[e] /\ a[2] >= 1
  BY DEF Fresh
<1> QED
  BY <1>1, <1>2

\* Either the arrivals counted are all those of the first k epochs, or one of
\* them is of a later epoch, and did not happen before epoch k was complete.
LEMMA Reached ==
  ASSUME TypeOK, Fresh, Gates, NEW e \in Awaited, NEW k \in Nat \ {0},
         NEW A \in SUBSET arrived[e], Cardinality(A) >= k * Cardinality(Producers[e])
  PROVE  Delivered(e, k) \/ A = Producers[e] \X (1 .. k)
<1>1. e \in Events
  BY AwaitedFacts
<1>2. CASE \E a \in arrived[e] : a[2] > k
  <2>1. PICK a \in arrived[e] : a[2] > k
    BY <1>2
  <2>2. a[2] \in Nat
    BY <1>1, ArrivalType
  <2>3. Settled(a[2] - 1)
    BY <1>1 DEF Gates
  <2>4. k \in 1 .. a[2] - 1
    BY <2>1, <2>2
  <2> QED
    BY <2>3, <2>4 DEF Settled
<1>3. CASE ~ \E a \in arrived[e] : a[2] > k
  <2>1. ASSUME NEW a \in A PROVE a \in Producers[e] \X (1 .. k)
    <3>1. a = <<a[1], a[2]>> /\ a[1] \in Producers[e] /\ a[2] \in Nat \ {0}
      BY <1>1, ArrivalType
    <3>2. a[2] \in 1 .. k
      BY <1>3, <3>1
    <3> QED
      BY <3>1, <3>2
  <2>2. A \in SUBSET (Producers[e] \X (1 .. k))
    BY <2>1
  <2>3. IsFiniteSet(Producers[e])
    BY <1>1, ProducerFacts
  <2> QED
    BY <2>2, <2>3, Full
<1> QED
  BY <1>2, <1>3

\* A counter of a chiplet: its event has no other producers.
LEMMA LocalRelease ==
  ASSUME TypeOK, Fresh, Gates, Places, Counts, NEW x \in Xcds,
         NEW e \in Awaited, OfXcd(e, x), NEW k \in Nat \ {0},
         xcd_counters[x][e] >= k * Cardinality(Producers[e])
  PROVE  Delivered(e, k)
<1>1. e \in Events
  BY AwaitedFacts
<1>2. ArrivedOn(x, e) = arrived[e]
  BY <1>1, ArrivalType DEF ArrivedOn, OfXcd
<1>3. Cardinality(arrived[e]) >= k * Cardinality(Producers[e])
  BY <1>1, <1>2 DEF Counts
<1>4. Delivered(e, k) \/ arrived[e] = Producers[e] \X (1 .. k)
  BY <1>3, Reached
<1>5. arrived[e] = Producers[e] \X (1 .. k) => AllArrived(e, k)
  BY DEF AllArrived
<1>6. \A c \in Blocks : ~ Publishing(c, e, k)
  BY DEF Publishing, Places, PlaceOK, OfXcd
<1> QED
  BY <1>4, <1>5, <1>6 DEF Delivered

\* A global counter: it stands for whole, published shares.
LEMMA GlobalRelease ==
  ASSUME TypeOK, Fresh, Gates, Counts,
         NEW e \in GlobalEvents, NEW k \in Nat \ {0},
         global_events[e] >= k * Cardinality(Producers[e])
  PROVE  Delivered(e, k)
<1>1. e \in Events /\ e \in Awaited
  BY AwaitedFacts
<1>2. Published(e) \in SUBSET arrived[e] /\ Cardinality(Published(e)) = global_events[e]
  BY DEF Published, Counts
<1>3. Delivered(e, k) \/ Published(e) = Producers[e] \X (1 .. k)
  BY <1>1, <1>2, Reached
<1>4. ASSUME Published(e) = Producers[e] \X (1 .. k) PROVE Delivered(e, k)
  <2>1. AllArrived(e, k)
    BY <1>2, <1>4 DEF AllArrived
  <2>2. ASSUME NEW c \in Blocks, Publishing(c, e, k) PROVE FALSE
    <3>1. /\ pc[c] # "exit" /\ Current(c).signal_event = e /\ Epoch(c) = k
      BY <2>2 DEF Publishing
    <3>2. <<Here(c), 0>> \in Producers[e] /\ Desc[Here(c)].xcd = c[1]
      BY <1>1, <3>1, Standing, IsProducer, WaveSets
    <3>3. <<<<Here(c), 0>>, k>> \in Published(e)
      BY <1>4, <3>2
    <3>4. ShareOut(c[1], e, k)
      BY <3>2, <3>3 DEF Published
    <3> QED
      BY <2>2, <3>4 DEF ShareOut
  <2> QED
    BY <2>1, <2>2 DEF Delivered
<1> QED
  BY <1>3, <1>4

\* The mirror a worker polls may lag, never lead.
LEMMA PolledGlobal ==
  ASSUME TypeOK, MirrorsLag, NEW x \in Xcds, NEW e \in GlobalEvents, NEW s,
         s # "XCD_LOCAL", NEW n \in Nat, Polled(x, e, s) >= n
  PROVE  global_events[e] >= n
<1>1. /\ held[x][e] \in Nat /\ xcd_flags[x][e] \in Nat /\ global_events[e] \in Nat
  BY RelayTypes
<1>2. xcd_flags[x][e] <= held[x][e] /\ held[x][e] <= global_events[e]
  BY DEF MirrorsLag
<1> QED
  BY <1>1, <1>2 DEF Polled

\* The three waits of the main loop.
LEMMA WaitOver ==
  ASSUME TypeOK, MirrorsLag, Fresh, Gates, Places, Counts,
         NEW b \in Blocks, pc[b] = "wait", Ready(b), Current(b).wait_event # NoEvent
  PROVE  Delivered(Current(b).wait_event, Epoch(b))
<1> DEFINE t == Current(b)
           e == t.wait_event
           n == Epoch(b) * Cardinality(Producers[e])
<1>1. /\ Here(b) \in TaskIds /\ t = Desc[Here(b)] /\ t.xcd = b[1] /\ b[1] \in Xcds
  BY Standing, BlockXcd
<1>2. WaitsAreExact(t) /\ e \in WaitsOf(t)
  BY <1>1, TaskFacts DEF WaitsOf
<1>3. e \in Awaited /\ e \in Events
  BY <1>1, <1>2, AwaitedFacts
<1>4. Polled(b[1], e, t.wait_scope) >= n
  <2>1. CurrentWait(b) = Wait(e, t.wait_scope, Target(b, t.wait_count))
    BY DEF CurrentWait
  <2>2. Polled(b[1], e, t.wait_scope) >= Target(b, t.wait_count)
    BY <2>1 DEF Ready, Wait
  <2> QED
    BY <1>2, <2>2 DEF Target, WaitsAreExact
<1>5. Epoch(b) \in Nat \ {0}
  BY EpochType
<1>6. n \in Nat
  BY <1>3, <1>5, ProducerFacts, FS_CardinalityType
<1>7. CASE t.wait_scope # "XCD_LOCAL" /\ e \in GlobalEvents
  <2>1. global_events[e] >= n
    <3> HIDE DEF n, e
    <3> QED
      BY <1>1, <1>4, <1>6, <1>7, PolledGlobal
  <2> QED
    BY <1>5, <1>7, <2>1, GlobalRelease
<1>8. CASE t.wait_scope = "XCD_LOCAL" /\ OfXcd(e, t.xcd)
  <2>1. xcd_counters[b[1]][e] >= n
    BY <1>4, <1>8 DEF Polled
  <2> QED
    BY <1>1, <1>3, <1>5, <1>8, <2>1, LocalRelease
<1> QED
  BY <1>2, <1>7, <1>8 DEF WaitsAreExact

LEMMA BodyWaitOver ==
  ASSUME TypeOK, Fresh, Gates, Places, Counts,
         NEW b \in Blocks, pc[b] = "bodywait", Ready(b)
  PROVE  Delivered(BodyWaitEvent(Current(b), inner[b] + 1), Epoch(b))
<1> DEFINE t == Current(b)
           m == inner[b] + 1
           e == BodyWaitEvent(t, m)
<1>1. /\ Here(b) \in TaskIds /\ t = Desc[Here(b)] /\ t.xcd = b[1] /\ b[1] \in Xcds
      /\ t \in TaskDescriptor
  BY Standing, BlockXcd
<1>2. m \in 1 .. BodyWaits(t)
  <2>1. inner[b] \in Nat /\ inner[b] < BodyWaits(t)
    BY DEF TypeOK, Places, PlaceOK
  <2>2. BodyWaits(t) \in Int
    BY <1>1 DEF BodyWaits, ChunksRead, TaskDescriptor
  <2> QED
    BY <2>1, <2>2
<1>3. OfXcd(e, b[1]) /\ BodyWaitCount(t) = Cardinality(Producers[e])
  BY <1>1, <1>2, TaskFacts DEF WaitsAreExact
<1>4. e \in WaitsOf(t)
  BY <1>2 DEF WaitsOf
<1>5. e \in Awaited /\ e \in Events /\ e # NoEvent
  BY <1>1, <1>4, AwaitedFacts, EventsNat
<1>6. xcd_counters[b[1]][e] >= Target(b, BodyWaitCount(t))
  <2>1. CurrentWait(b) = Wait(e, "XCD_LOCAL", Target(b, BodyWaitCount(t)))
    BY DEF CurrentWait
  <2> QED
    BY <1>5, <2>1 DEF Ready, Wait, Polled
<1>7. Epoch(b) \in Nat \ {0}
  BY EpochType
<1> QED
  BY <1>1, <1>3, <1>5, <1>6, <1>7, LocalRelease DEF Target

-----------------------------------------------------------------------------
(* The final event: everything anyone waits for comes before it.           *)

LEMMA DoneSettles ==
  ASSUME TypeOK, Fresh, Gates, WaitsOver, NEW k \in Nat \ {0}, Delivered(DoneEvent, k)
  PROVE  Settled(k)
<1> DEFINE Missing(e) == e \in Awaited /\ ~ Delivered(e, k)
           T == { i \in TaskIds : \E e \in WaitsOf(Desc[i]), f \in Awaited :
                                    Missing(e) /\ \E p \in Producers[f] : p[1] = i }
<1>1. Settled(k - 1)
  <2>1. PICK p \in Producers[DoneEvent] : TRUE
    BY GraphAssumption, AwaitedFacts
  <2>2. <<p, k>> \in arrived[DoneEvent]
    BY <2>1 DEF Delivered, AllArrived
  <2> QED
    BY <2>2, AwaitedFacts DEF Gates
<1>2. ASSUME NEW e \in Awaited, Missing(e)
      PROVE  \E i \in T : e \in WaitsOf(Desc[i])
  <2>1. PICK i \in TaskIds, f \in Awaited :
               e \in WaitsOf(Desc[i]) /\ \E p \in Producers[f] : p[1] = i
    BY <1>2, GraphAssumption
  <2> QED
    BY <1>2, <2>1
<1>3. T = {}
  <2> SUFFICES ASSUME T # {} PROVE FALSE
    OBVIOUS
  <2>1. T \subseteq 0 .. Len(Desc) /\ Len(Desc) \in Nat
    BY TasksFinite
  <2>2. PICK m \in T : \A i \in T : i <= m
    <3> HIDE DEF T
    <3> QED
      BY <2>1, Greatest
  <2>9. PICK e \in WaitsOf(Desc[m]), f \in Awaited :
               Missing(e) /\ \E p \in Producers[f] : p[1] = m
    BY <2>2
  <2>3. PICK p \in Producers[f] : Missing(e) /\ p[1] = m
    BY <2>9
  <2>4. f \in Events /\ m \in TaskIds
    BY AwaitedFacts
  <2>5. Missing(f)
    <3> SUFFICES ASSUME Delivered(f, k) PROVE FALSE
      OBVIOUS
    <3>1. <<p, k>> \in arrived[f]
      BY DEF Delivered, AllArrived
    <3>2. Delivered(e, k)
      BY <2>3, <2>4, <3>1 DEF WaitsOver
    <3> QED
      BY <2>3, <3>2
  <2>6. PICK i \in T : f \in WaitsOf(Desc[i])
    BY <1>2, <2>5
  <2>7. m < i
    BY <2>3, <2>6, GraphAssumption
  <2>8. i \in Int /\ m \in Int /\ i <= m
    BY <2>2, TasksFinite
  <2> QED
    BY <2>7, <2>8
<1>4. \A e \in Awaited : Delivered(e, k)
  BY <1>2, <1>3
<1> QED
  BY <1>1, <1>4 DEF Settled

\* The wait at a token boundary.
LEMMA BoundaryOver ==
  ASSUME TypeOK, MirrorsLag, Fresh, Gates, WaitsOver, Places, Counts,
         NEW b \in Blocks, pc[b] = "boundary", Ready(b)
  PROVE  Settled(Epoch(b) - 1)
<1> DEFINE k == Epoch(b) - 1
<1>1. k \in Nat
  BY EpochType
<1>2. CASE k = 0
  BY <1>2 DEF Settled
<1>3. CASE k # 0
  <2>1. DoneEvent \in GlobalEvents /\ DoneEvent # NoEvent /\ b[1] \in Xcds
    BY ConstantsAssumption, EventsNat, BlockXcd
  <2>2. CurrentWait(b) = Wait(DoneEvent, "GLOBAL", k)
    BY DEF CurrentWait
  <2>3. Polled(b[1], DoneEvent, "GLOBAL") >= k
    BY <2>1, <2>2 DEF Ready, Wait
  <2>4. global_events[DoneEvent] >= k
    BY <1>1, <2>1, <2>3, PolledGlobal
  <2>5. k * Cardinality(Producers[DoneEvent]) = k
    BY <1>1, GraphAssumption
  <2>6. Delivered(DoneEvent, k)
    BY <1>1, <1>3, <2>1, <2>4, <2>5, GlobalRelease
  <2> QED
    BY <1>1, <1>3, <2>6, DoneSettles
<1> QED
  BY <1>2, <1>3
-----------------------------------------------------------------------------
(* Every step keeps every part of the invariant.  First where workgroups   *)
(* stand.                                                                  *)

LEMMA BodyWaitsType ==
  ASSUME NEW t \in TaskDescriptor PROVE BodyWaits(t) \in Nat
BY DEF BodyWaits, ChunksRead, TaskDescriptor

LEMMA AdvancePlace ==
  ASSUME TypeOK, Places, NEW b \in Blocks, pc[b] # "exit", Advance(b),
         epoch0' = epoch0, n_tokens' = n_tokens
  PROVE  PlaceOK(b)'
<1>1. tok[b] \in Nat /\ n_tokens \in Nat /\ tok[b] < n_tokens
  BY DEF TypeOK, Places, PlaceOK
<1>2. /\ pc'[b] \in {"exit", "boundary", "wait"}
      /\ inner'[b] = 0 /\ wave'[b] = [v \in Waves |-> 0]
      /\ slot[b] = Len(Queue[b]) => slot'[b] = 1 /\ tok'[b] = tok[b] + 1
      /\ slot[b] # Len(Queue[b]) => tok'[b] = tok[b]
      /\ pc'[b] = "exit" <=> tok'[b] = n_tokens
  BY AdvanceTo
<1>3. pc'[b] # "exit" => tok'[b] < n_tokens
  BY <1>1, <1>2
<1>4. pc'[b] = "exit" => tok'[b] = n_tokens /\ slot'[b] = 1
  BY <1>1, <1>2
<1> QED
  BY <1>2, <1>3, <1>4 DEF PlaceOK

LEMMA GotoPlace ==
  ASSUME TypeOK, NEW b \in Blocks, NEW p, Goto(b, p), UNCHANGED <<epoch0, tok, slot>>
  PROVE  /\ pc'[b] = p /\ Epoch(b)' = Epoch(b)
         /\ Current(b)' = Current(b) /\ Here(b)' = Here(b)
BY DEF TypeOK, Goto, Epoch, Current, Here

LEMMA PlacesStep ==
  ASSUME TypeOK, Places, NEW b \in Blocks, Worker(b)
  PROVE  Places'
<1> USE DEF host
<1> DEFINE t == Current(b)
<1>1. ASSUME NEW c \in Blocks, c # b PROVE PlaceOK(c)'
  BY <1>1, OthersStay DEF Places, PlaceOK
<1>2. /\ PlaceOK(b) /\ pc[b] # "exit" /\ tok[b] < n_tokens
      /\ epoch0' = epoch0 /\ n_tokens' = n_tokens
  BY OthersStay DEF Places, PlaceOK
<1>3. /\ Here(b) \in TaskIds /\ t = Desc[Here(b)] /\ t \in TaskDescriptor
      /\ CountsOnce(t) /\ SignalIsExact(t)
  BY <1>2, Standing, TaskFacts
<1>4. BodyWaits(t) \in Nat /\ inner[b] \in Nat
  BY <1>3, BodyWaitsType DEF TypeOK
<1>5. ASSUME Advance(b) PROVE PlaceOK(b)'
  BY <1>2, <1>5, AdvancePlace
<1> SUFFICES PlaceOK(b)'
  BY <1>1 DEF Places
<1>6. CASE PassBoundary(b)
  BY <1>2, <1>6, GotoPlace DEF PassBoundary, PlaceOK
<1>7. CASE StartTask(b)
  <2>1. pc'[b] = BodyStart(t) /\ Current(b)' = t /\ tok' = tok /\ inner' = inner /\ inner[b] = 0
    BY <1>2, <1>7, GotoPlace DEF StartTask, PlaceOK
  <2> QED
    BY <1>2, <1>4, <2>1 DEF BodyStart, PlaceOK, CountsTopk
<1>8. CASE PassBodyWait(b)
  <2>1. /\ pc[b] = "bodywait" /\ inner[b] < BodyWaits(t) /\ inner'[b] = inner[b] + 1
        /\ pc'[b] = IF inner[b] + 1 = BodyWaits(t) THEN "body" ELSE "bodywait"
        /\ Current(b)' = t /\ tok' = tok
    BY <1>2, <1>8, GotoPlace DEF PassBodyWait, PlaceOK, TypeOK
  <2> QED
    BY <1>2, <1>4, <2>1 DEF PlaceOK
<1>9. CASE Checkpoint(b)
  BY <1>2, <1>9 DEF Checkpoint, PlaceOK, Current
<1>10. CASE GiveUp(b)
  <2>1. CASE pc[b] = "bodywait"
    BY <1>5, <1>10, <2>1 DEF GiveUp
  <2>2. CASE pc[b] # "bodywait"
    BY <1>2, <1>10, <2>2, GotoPlace DEF GiveUp, PlaceOK, Waiting
  <2> QED
    BY <2>1, <2>2
<1>11. ASSUME NEW v \in Waves, SignalChunk(b, v) PROVE PlaceOK(b)'
  BY <1>2, <1>11 DEF SignalChunk, PlaceOK, Current
<1>12. CASE ArriveRouter(b)
  <2>1. pc'[b] \in {"topk", "body"} /\ Current(b)' = t /\ tok' = tok /\ inner' = inner
    BY <1>2, <1>12, GotoPlace DEF ArriveRouter
  <2>2. CountsTopk(t) /\ inner[b] = 0 /\ BodyWaits(t) = 0
    BY <1>2, <1>3, <1>12 DEF ArriveRouter, PlaceOK, CountsOnce
  <2> QED
    BY <1>2, <2>1, <2>2 DEF PlaceOK
<1>13. CASE PublishTopk(b)
  <2>1. pc'[b] = "body" /\ Current(b)' = t /\ tok' = tok /\ inner' = inner
    BY <1>2, <1>13, GotoPlace DEF PublishTopk
  <2>2. CountsTopk(t) /\ inner[b] = 0 /\ BodyWaits(t) = 0
    BY <1>2, <1>3, <1>13 DEF PublishTopk, PlaceOK, CountsOnce
  <2> QED
    BY <1>2, <2>1, <2>2 DEF PlaceOK
<1>14. CASE Signal(b)
  <2>1. CASE Advance(b)
    BY <1>5, <2>1
  <2>2. CASE pc'[b] = "publish"
    <3>1. /\ t.signal_event # NoEvent /\ t.signal_scope # "XCD_LOCAL"
          /\ pc[b] = "body" /\ UNCHANGED <<tok, slot, inner, wave>> /\ Current(b)' = t
      BY <2>2, ToPublish
    <3>2. t.signal_event \in GlobalEvents
      BY <1>3, <3>1 DEF SignalIsExact
    <3>3. \A w \in Signallers : wave[b][w] = Chunks(t)
      BY <1>14 DEF Signal
    <3> QED
      BY <1>2, <2>2, <3>1, <3>2, <3>3 DEF PlaceOK
  <2>3. Advance(b) \/ pc'[b] = "publish"
    BY <1>2, <1>14, GotoPlace DEF Signal
  <2> QED
    BY <2>1, <2>2, <2>3
<1>15. CASE Publish(b)
  BY <1>5, <1>15 DEF Publish
<1> QED
  BY <1>6, <1>7, <1>8, <1>9, <1>10, <1>11, <1>12, <1>13, <1>14, <1>15 DEF Worker

-----------------------------------------------------------------------------
(* The arrivals: Fresh, Kept, NothingSkipped.                              *)

LEMMA StayOrAdvance ==
  ASSUME TypeOK, NEW b \in Blocks, Worker(b)
  PROVE  \/ Advance(b)
         \/ /\ UNCHANGED <<tok, slot>> /\ pc[b] # "publish"
            /\ Epoch(b)' = Epoch(b) /\ Here(b)' = Here(b) /\ Current(b)' = Current(b)
<1>1. epoch0' = epoch0
  BY OthersStay
<1>2. Advance(b) \/ (UNCHANGED <<tok, slot>> /\ pc[b] # "publish")
  BY DEF Worker, PassBoundary, StartTask, PassBodyWait, Checkpoint, GiveUp, SignalChunk,
         ArriveRouter, PublishTopk, Signal, Publish, Waiting
<1> QED
  BY <1>1, <1>2 DEF Epoch, Here, Current

\* The tasks of the other workgroups.
LEMMA OtherTasks ==
  ASSUME TypeOK, NEW b \in Blocks, Worker(b), NEW i \in TaskIds, Owner(i) # b
  PROVE  /\ Epoch(Owner(i))' = Epoch(Owner(i))
         /\ AtTask(i)' <=> AtTask(i)
         /\ \A k : Behind(i, k)' <=> Behind(i, k)
         /\ \A v, e : HasCounted(<<i, v>>, e)' <=> HasCounted(<<i, v>>, e)
<1> DEFINE o == Owner(i)
<1>1. o \in Blocks
  BY TaskFacts
<1>2. /\ pc'[o] = pc[o] /\ tok'[o] = tok[o] /\ slot'[o] = slot[o]
      /\ wave'[o] = wave[o] /\ Epoch(o)' = Epoch(o) /\ Here(o)' = Here(o)
  BY <1>1, OthersStay
<1>3. AtTask(i)' <=> AtTask(i)
  BY <1>2 DEF AtTask
<1>4. ASSUME NEW k PROVE Behind(i, k)' <=> Behind(i, k)
  BY <1>2 DEF Behind
<1>5. ASSUME NEW v, NEW e PROVE HasCounted(<<i, v>>, e)' <=> HasCounted(<<i, v>>, e)
  BY <1>2 DEF HasCounted
<1> QED
  BY <1>2, <1>3, <1>4, <1>5

\* A workgroup at the start of a task has counted nothing of it.
LEMMA AdvanceCounts ==
  ASSUME TypeOK, NEW b \in Blocks, pc[b] # "exit", Advance(b), epoch0' = epoch0,
         NEW i \in TaskIds, Owner(i) = b, NEW v, NEW e
  PROVE  ~ HasCounted(<<i, v>>, e)'
<1>1. pc'[b] \in {"exit", "boundary", "wait"} /\ wave'[b] = [w \in Waves |-> 0]
  BY AdvanceTo
<1>2. ASSUME NEW c \in 0 .. Chunks(Desc[i]) - 1, NEW w \in Signallers, c < wave'[b][w]
      PROVE  FALSE
  BY <1>1, <1>2, SignallersFacts
<1> QED
  BY <1>1, <1>2 DEF HasCounted

\* Within a task, what has counted is exactly what is in the history.
LEMMA StayCounts ==
  ASSUME TypeOK, Places, Fresh, NEW b \in Blocks, Worker(b), ~ Advance(b),
         NEW i \in TaskIds, i = Here(b), NEW v \in Waves,
         NEW e \in Events, <<i, v>> \in Producers[e]
  PROVE  HasCounted(<<i, v>>, e)' <=>
           \/ HasCounted(<<i, v>>, e)
           \/ <<<<i, v>>, Epoch(b)>> \in arrived'[e] \ arrived[e]
<1> DEFINE t == Desc[i]
           New == <<<<i, v>>, Epoch(b)>> \in arrived'[e] \ arrived[e]
<1>1. /\ Owner(i) = b /\ Current(b) = t /\ t \in TaskDescriptor /\ pc[b] # "exit"
      /\ CountsOnce(t)
  BY OthersStay, Standing, TaskFacts
<1>2. HasCounted(<<i, v>>, e) <=>
        \/ \E c \in 0 .. Chunks(t) - 1, w \in Signallers :
             e = t.local_event + c /\ v \in SignalledBy(w) /\ c < wave[b][w]
        \/ v = 0 /\ CountsTopk(t) /\ t.local_event = e /\ pc[b] \in {"topk", "body", "publish"}
        \/ v = 0 /\ t.signal_event = e /\ pc[b] = "publish"
  BY <1>1 DEF HasCounted
<1>3. HasCounted(<<i, v>>, e)' <=>
        \/ \E c \in 0 .. Chunks(t) - 1, w \in Signallers :
             e = t.local_event + c /\ v \in SignalledBy(w) /\ c < wave'[b][w]
        \/ v = 0 /\ CountsTopk(t) /\ t.local_event = e /\ pc'[b] \in {"topk", "body", "publish"}
        \/ v = 0 /\ t.signal_event = e /\ pc'[b] = "publish"
  BY <1>1 DEF HasCounted
<1>4. PlaceOK(b) /\ pc \in [Blocks -> PCs]
  BY DEF Places, TypeOK
<1>5. ASSUME arrived' = arrived, wave' = wave, pc[b] # "publish", pc'[b] # "publish",
             CountsTopk(t) => (pc[b] \in {"topk", "body"} <=> pc'[b] \in {"topk", "body"})
      PROVE  HasCounted(<<i, v>>, e)' <=> HasCounted(<<i, v>>, e) \/ New
  BY <1>2, <1>3, <1>5
<1>6. CASE PassBoundary(b)
  <2>1. pc[b] = "boundary" /\ pc'[b] = "wait" /\ arrived' = arrived /\ wave' = wave
    BY <1>4, <1>6 DEF PassBoundary, Goto
  <2> QED
    BY <1>5, <2>1
<1>7. CASE StartTask(b)
  <2>1. pc[b] = "wait" /\ pc'[b] = BodyStart(t) /\ arrived' = arrived /\ wave' = wave
    BY <1>1, <1>4, <1>7 DEF StartTask, Goto
  <2>2. CountsTopk(t) => pc'[b] = "arrive"
    BY <1>1, <2>1 DEF CountsOnce, CountsTopk, BodyStart
  <2>3. pc'[b] # "publish"
    BY <2>1, BodyStartType DEF Running
  <2> QED
    BY <1>5, <2>1, <2>2, <2>3
<1>8. CASE PassBodyWait(b)
  <2>1. /\ pc[b] = "bodywait" /\ pc'[b] \in {"body", "bodywait"}
        /\ arrived' = arrived /\ wave' = wave
    BY <1>4, <1>8 DEF PassBodyWait, Goto
  <2>2. ~ CountsTopk(t)
    <3>1. inner[b] \in Nat /\ inner[b] < BodyWaits(t)
      BY <1>1, <1>4, <2>1 DEF PlaceOK, TypeOK
    <3> QED
      BY <1>1, <3>1 DEF CountsOnce
  <2> QED
    BY <1>5, <2>1, <2>2
<1>9. CASE Checkpoint(b)
  BY <1>5, <1>9 DEF Checkpoint, Waiting
<1>10. CASE GiveUp(b)
  <2>1. pc[b] \in {"boundary", "wait"} /\ pc'[b] = "exit" /\ arrived' = arrived /\ wave' = wave
    BY <1>4, <1>10 DEF GiveUp, Goto, Waiting
  <2> QED
    BY <1>5, <2>1
<1>11. ASSUME NEW w \in Waves, SignalChunk(b, w)
       PROVE  HasCounted(<<i, v>>, e)' <=> HasCounted(<<i, v>>, e) \/ New
  <2> DEFINE d == wave[b][w]
             f == t.local_event + d
  <2>1. /\ pc[b] = "body" /\ pc' = pc /\ w \in Signallers /\ d < Chunks(t)
        /\ wave' = [wave EXCEPT ![b][w] = @ + 1]
    BY <1>1, <1>11 DEF SignalChunk
  <2>2. Adds(b, f, SignalledBy(w))
    BY <1>1, <1>11, SignalChunkAdds
  <2>3. New <=> e = f /\ v \in SignalledBy(w)
    <3>1. /\ NewArrivals(b, SignalledBy(w)) \cap arrived[f] = {}
          /\ arrived'[f] = arrived[f] \cup NewArrivals(b, SignalledBy(w))
          /\ \A g \in Events : g # f => arrived'[g] = arrived[g]
      BY <2>2, Arrivals
    <3>2. <<<<i, v>>, Epoch(b)>> \in NewArrivals(b, SignalledBy(w)) <=> v \in SignalledBy(w)
      BY DEF NewArrivals
    <3> QED
      BY <3>1, <3>2
  <2>4. wave[b] \in [Waves -> Nat] /\ wave \in [Blocks -> [Waves -> Nat]]
    BY DEF TypeOK
  <2>5. ASSUME NEW u \in Signallers
        PROVE  wave'[b][u] = IF u = w THEN d + 1 ELSE wave[b][u]
    BY <2>1, <2>4, SignallersFacts
  <2>6. t.local_event \in Int /\ Chunks(t) \in Int /\ d \in Nat
    <3>1. t.kv_chunk \in Int /\ t.local_event \in Events \cup {NoEvent}
      BY <1>1 DEF TaskDescriptor
    <3>2. Events \cup {NoEvent} \subseteq Int
      BY EventsNat
    <3>3. Chunks(t) \in Int
      BY <3>1 DEF Chunks
    <3> QED
      BY <2>4, <3>1, <3>2, <3>3
  <2>7. ASSUME NEW c \in 0 .. Chunks(t) - 1, NEW u \in Signallers,
               e = t.local_event + c, v \in SignalledBy(u)
        PROVE  c < wave'[b][u] <=> c < wave[b][u] \/ (e = f /\ v \in SignalledBy(w))
    <3>0. wave[b][u] \in Nat
      BY <2>4, SignallersFacts
    <3>1. CASE u = w
      BY <2>5, <2>6, <2>7, <3>1
    <3>2. CASE u # w
      <4>1. v \notin SignalledBy(w)
        BY <2>1, <2>7, <3>2, SignallersFacts
      <4> QED
        BY <2>5, <3>2, <4>1
    <3> QED
      BY <3>1, <3>2
  <2>8. ASSUME e = f, v \in SignalledBy(w)
        PROVE  \E c \in 0 .. Chunks(t) - 1, u \in Signallers :
                 e = t.local_event + c /\ v \in SignalledBy(u) /\ c < wave'[b][u]
    <3>1. d \in 0 .. Chunks(t) - 1 /\ d < wave'[b][w]
      BY <2>1, <2>5, <2>6
    <3> QED
      BY <2>1, <2>8, <3>1
  <2> HIDE DEF New, f, d
  <2> QED
    BY <1>2, <1>3, <2>1, <2>3, <2>7, <2>8
<1>12. CASE ArriveRouter(b)
  <2>1. /\ pc[b] = "arrive" /\ pc'[b] \in {"topk", "body"} /\ wave' = wave
        /\ CountsTopk(t)
    BY <1>1, <1>4, <1>12 DEF ArriveRouter, Goto, PlaceOK
  <2>2. Adds(b, t.local_event, {0})
    BY <1>1, <1>12, RouterAdds
  <2>3. New <=> e = t.local_event /\ v = 0
    <3>1. /\ NewArrivals(b, {0}) \cap arrived[t.local_event] = {}
          /\ arrived'[t.local_event] = arrived[t.local_event] \cup NewArrivals(b, {0})
          /\ \A g \in Events : g # t.local_event => arrived'[g] = arrived[g]
      BY <2>2, Arrivals
    <3>2. <<<<i, v>>, Epoch(b)>> \in NewArrivals(b, {0}) <=> v = 0
      BY DEF NewArrivals
    <3> QED
      BY <3>1, <3>2
  <2> QED
    BY <1>2, <1>3, <2>1, <2>3
<1>13. CASE PublishTopk(b)
  <2>1. pc[b] = "topk" /\ pc'[b] = "body" /\ arrived' = arrived /\ wave' = wave
    BY <1>4, <1>13 DEF PublishTopk, Goto
  <2> QED
    BY <1>5, <2>1
<1>14. CASE Signal(b)
  <2>1. /\ pc[b] = "body" /\ pc'[b] = "publish" /\ wave' = wave /\ t.signal_event # NoEvent
    BY <1>1, <1>4, <1>14 DEF Signal, Goto
  <2>2. Adds(b, t.signal_event, {0})
    BY <1>1, <1>14, <2>1, SignalAdds
  <2>3. New <=> e = t.signal_event /\ v = 0
    <3>1. /\ NewArrivals(b, {0}) \cap arrived[t.signal_event] = {}
          /\ arrived'[t.signal_event] = arrived[t.signal_event] \cup NewArrivals(b, {0})
          /\ \A g \in Events : g # t.signal_event => arrived'[g] = arrived[g]
      BY <2>2, Arrivals
    <3>2. <<<<i, v>>, Epoch(b)>> \in NewArrivals(b, {0}) <=> v = 0
      BY DEF NewArrivals
    <3> QED
      BY <3>1, <3>2
  <2> QED
    BY <1>2, <1>3, <2>1, <2>3
<1>15. ~ Publish(b)
  BY DEF Publish
<1> QED
  BY <1>6, <1>7, <1>8, <1>9, <1>10, <1>11, <1>12, <1>13, <1>14, <1>15 DEF Worker

LEMMA FreshStep ==
  ASSUME TypeOK, Places, Fresh, NEW b \in Blocks, Worker(b)
  PROVE  Fresh'
<1>0. epoch0' = epoch0 /\ pc[b] # "exit" /\ Epoch(b) \in Nat \ {0}
  BY OthersStay, EpochType
<1>9. Here(b) \in TaskIds /\ Owner(Here(b)) = b /\ AtTask(Here(b))
  BY <1>0, Standing
<1>1. ASSUME NEW e \in Events PROVE IsFiniteSet(arrived'[e])
  BY Grow
<1>2. ASSUME NEW e \in Events, NEW a \in arrived'[e]
      PROVE  /\ a[1] \in Producers[e] /\ a[2] >= 1
             /\ \/ Behind(a[1][1], a[2])'
                \/ /\ AtTask(a[1][1])' /\ a[2] = Epoch(Owner(a[1][1]))'
                   /\ HasCounted(a[1], e)'
  <2> DEFINE i == a[1][1]
             v == a[1][2]
             k == a[2]
             Goal == \/ Behind(i, k)'
                     \/ AtTask(i)' /\ k = Epoch(Owner(i))' /\ HasCounted(a[1], e)'
  <2>1. a[1] \in Producers[e] /\ a[2] \in Nat \ {0}
    <3>1. CASE a \in arrived[e]
      BY <3>1, ArrivalType
    <3>2. CASE a \notin arrived[e]
      BY <1>0, <3>2, Grow
    <3> QED
      BY <3>1, <3>2
  <2>2. i \in TaskIds /\ v \in Waves /\ a[1] = <<i, v>>
    BY <2>1, ProducerFacts
  <2>3. CASE Owner(i) # b
    <3>1. a \in arrived[e]
      BY <1>9, <2>3, Grow
    <3>2. \/ Behind(i, k)
          \/ AtTask(i) /\ k = Epoch(Owner(i)) /\ HasCounted(<<i, v>>, e)
      BY <2>2, <3>1 DEF Fresh
    <3> QED
      BY <2>1, <2>2, <2>3, <3>2, OtherTasks
  <2>4. CASE Owner(i) = b
    <3>1. \/ a \in arrived[e] /\ Behind(i, k)
          \/ i = Here(b) /\ k = Epoch(b) /\ (HasCounted(<<i, v>>, e) \/ a \notin arrived[e])
      <4>1. CASE a \in arrived[e]
        <5>1. \/ Behind(i, k)
              \/ AtTask(i) /\ k = Epoch(b) /\ HasCounted(<<i, v>>, e)
          BY <2>2, <2>4, <4>1 DEF Fresh
        <5> QED
          BY <2>4, <4>1, <5>1 DEF AtTask
      <4>2. CASE a \notin arrived[e]
        BY <4>2, Grow
      <4> QED
        BY <4>1, <4>2
    <3>2. CASE Advance(b)
      <4>1. Behind(i, k)'
        BY <1>0, <2>1, <2>2, <2>4, <3>1, <3>2, AdvanceBehind
      <4> QED
        BY <2>1, <4>1
    <3>3. CASE ~ Advance(b)
      <4>1. /\ UNCHANGED <<tok, slot>> /\ Epoch(b)' = Epoch(b) /\ Here(b)' = Here(b)
        BY <3>3, StayOrAdvance
      <4>2. Behind(i, k) => Behind(i, k)'
        BY <1>0, <4>1 DEF Behind, Epoch
      <4>3. ASSUME i = Here(b), k = Epoch(b),
                   HasCounted(<<i, v>>, e) \/ a \notin arrived[e]
            PROVE  AtTask(i)' /\ k = Epoch(Owner(i))' /\ HasCounted(<<i, v>>, e)'
        <5>1. AtTask(i)'
          BY <1>9, <4>1, <4>3 DEF AtTask, Here
        <5>2. a = <<<<i, v>>, Epoch(b)>>
          <6>1. a = <<a[1], a[2]>>
            BY StepTypes
          <6> QED
            BY <2>2, <4>3, <6>1
        <5>3. HasCounted(<<i, v>>, e)'
          BY <2>1, <2>2, <3>3, <4>3, <5>2, StayCounts
        <5> QED
          BY <2>4, <4>1, <4>3, <5>1, <5>3
      <4> QED
        BY <2>1, <2>2, <3>1, <4>2, <4>3
    <3> QED
      BY <3>2, <3>3
  <2> QED
    BY <2>3, <2>4
<1> QED
  BY <1>1, <1>2 DEF Fresh

LEMMA KeptStep ==
  ASSUME TypeOK, Places, Fresh, Kept, NEW b \in Blocks, Worker(b)
  PROVE  Kept'
<1>0. epoch0' = epoch0 /\ pc[b] # "exit"
  BY OthersStay
<1> SUFFICES ASSUME NEW e \in Events, NEW p \in Producers[e], AtTask(p[1])', HasCounted(p, e)'
             PROVE  <<p, Epoch(Owner(p[1]))'>> \in arrived'[e]
  BY DEF Kept
<1> DEFINE i == p[1]
           v == p[2]
<1>1. i \in TaskIds /\ v \in Waves /\ p = <<i, v>>
  BY ProducerFacts
<1>2. CASE Owner(i) # b
  <2>1. AtTask(i) /\ HasCounted(<<i, v>>, e) /\ Epoch(Owner(i))' = Epoch(Owner(i))
    BY <1>1, <1>2, OtherTasks
  <2>2. <<p, Epoch(Owner(i))>> \in arrived[e]
    BY <1>1, <2>1 DEF Kept
  <2> QED
    BY <2>1, <2>2, Grow
<1>3. CASE Owner(i) = b
  <2>1. ~ Advance(b)
    BY <1>0, <1>1, <1>3, AdvanceCounts
  <2>2. UNCHANGED <<tok, slot>> /\ Epoch(b)' = Epoch(b)
    BY <2>1, StayOrAdvance
  <2>3. i = Here(b) /\ AtTask(i)
    BY <1>3, <2>2 DEF AtTask, Here
  <2>4. HasCounted(<<i, v>>, e) \/ <<<<i, v>>, Epoch(b)>> \in arrived'[e]
    BY <1>1, <2>1, <2>3, StayCounts
  <2>5. HasCounted(<<i, v>>, e) => <<p, Epoch(b)>> \in arrived[e]
    BY <1>1, <1>3, <2>3 DEF Kept
  <2> QED
    BY <1>1, <1>3, <2>2, <2>4, <2>5, Grow
<1> QED
  BY <1>2, <1>3

\* A task that ends with its signal has made all its arrivals.
LEMMA AllOfTask ==
  ASSUME TypeOK, Places, Fresh, Kept, NEW b \in Blocks, Signal(b) \/ Publish(b), Worker(b),
         NEW e \in Events, NEW p \in Producers[e], p[1] = Here(b)
  PROVE  <<p, Epoch(b)>> \in arrived'[e]
<1> DEFINE i == Here(b)
           t == Desc[i]
           v == p[2]
<1>1. pc[b] \in {"body", "publish"}
  BY DEF Signal, Publish
<1>2. /\ i \in TaskIds /\ Owner(i) = b /\ Current(b) = t /\ t \in TaskDescriptor /\ AtTask(i)
      /\ CountsOnce(t)
  BY <1>1, Standing, TaskFacts
<1>3. v \in Waves /\ p = <<i, v>>
  BY ProducerFacts
<1>4. ASSUME HasCounted(<<i, v>>, e) PROVE <<p, Epoch(b)>> \in arrived'[e]
  <2>1. <<p, Epoch(b)>> \in arrived[e]
    BY <1>2, <1>3, <1>4 DEF Kept
  <2> QED
    BY <2>1, Grow
<1>5. \A w \in Signallers : wave[b][w] = Chunks(t)
  BY <1>2 DEF Signal, Publish, Places, PlaceOK
<1>6. CASE e \in ChunkEvents(t)
  <2>1. PICK c \in 0 .. Chunks(t) - 1 : e = t.local_event + c
    BY <1>6 DEF ChunkEvents
  <2>2. PICK w \in Signallers : v \in SignalledBy(w)
    BY <1>3, SignallersFacts
  <2>3. c < wave[b][w]
    <3>1. Chunks(t) \in Int
      <4>1. t.kv_chunk \in Int
        BY <1>2 DEF TaskDescriptor
      <4> QED
        BY <4>1 DEF Chunks
    <3> QED
      BY <1>5, <2>1, <3>1
  <2>4. HasCounted(<<i, v>>, e)
    BY <1>2, <2>1, <2>2, <2>3 DEF HasCounted
  <2> QED
    BY <1>4, <2>4
<1>7. CASE v = 0 /\ CountsTopk(t) /\ t.local_event = e
  <2>1. HasCounted(<<i, v>>, e)
    BY <1>1, <1>2, <1>7 DEF HasCounted
  <2> QED
    BY <1>4, <2>1
<1>8. CASE v = 0 /\ t.signal_event = e
  <2>1. CASE Publish(b)
    <3>1. HasCounted(<<i, v>>, e)
      BY <1>2, <1>8, <2>1 DEF HasCounted, Publish
    <3> QED
      BY <1>4, <3>1
  <2>2. CASE Signal(b)
    <3>1. e # NoEvent
      BY EventsNat
    <3>2. Adds(b, e, {0})
      BY <1>2, <1>8, <2>2, <3>1, SignalAdds
    <3>3. arrived'[e] = arrived[e] \cup NewArrivals(b, {0})
      BY <3>2, Arrivals
    <3> QED
      BY <1>3, <1>8, <3>3 DEF NewArrivals
  <2> QED
    BY <2>1, <2>2
<1> QED
  BY <1>2, <1>3, <1>6, <1>7, <1>8, IsProducer

LEMMA NothingSkippedStep ==
  ASSUME TypeOK, Places, Fresh, Kept, NothingSkipped, NEW b \in Blocks, Worker(b)
  PROVE  NothingSkipped'
<1>0. epoch0' = epoch0 /\ pc[b] # "exit" /\ Epoch(b) \in Nat
  BY OthersStay, EpochType
<1> SUFFICES ASSUME ~ abort', NEW e \in Events, NEW p \in Producers[e],
                    NEW k \in 1 .. Epoch(Owner(p[1]))', Behind(p[1], k)'
             PROVE  <<p, k>> \in arrived'[e]
  BY DEF NothingSkipped
<1> DEFINE i == p[1]
<1>1. i \in TaskIds /\ Owner(i) \in Blocks /\ ~ abort
  BY ProducerFacts, TaskFacts, OthersStay
<1>2. k \in Nat \ {0}
  <2>1. Epoch(Owner(i))' \in Nat
    BY <1>1, StepTypes
  <2> QED
    BY <2>1
<1>3. ASSUME Behind(i, k) PROVE <<p, k>> \in arrived'[e]
  <2>1. k \in 1 .. Epoch(Owner(i))
    BY <1>1, <1>2, <1>3, EpochType DEF Behind
  <2>2. <<p, k>> \in arrived[e]
    BY <1>1, <1>3, <2>1 DEF NothingSkipped
  <2> QED
    BY <2>2, Grow
<1>4. CASE Owner(i) # b
  BY <1>1, <1>3, <1>4, OtherTasks
<1>5. CASE Owner(i) = b /\ ~ Advance(b)
  <2>1. UNCHANGED <<tok, slot>>
    BY <1>5, StayOrAdvance
  <2> QED
    BY <1>0, <1>3, <1>5, <2>1 DEF Behind, Epoch
<1>6. CASE Owner(i) = b /\ Advance(b)
  <2>1. Behind(i, k) \/ (i = Here(b) /\ k = Epoch(b))
    BY <1>0, <1>1, <1>2, <1>6, AdvanceBehind
  <2>2. Signal(b) \/ Publish(b)
    <3>1. ~ GiveUp(b)
      BY DEF GiveUp
    <3>2. pc'[b] \in {"exit", "boundary", "wait"} /\ (slot'[b] # slot[b] \/ tok'[b] # tok[b])
      <4>1. tok[b] \in Nat /\ slot[b] \in Nat
        BY DEF TypeOK
      <4> QED
        BY <1>0, <1>6, <4>1, AdvanceTo
    <3> QED
      BY <3>1, <3>2 DEF Worker, PassBoundary, StartTask, PassBodyWait, Checkpoint,
             SignalChunk, ArriveRouter, PublishTopk
  <2> QED
    BY <1>3, <2>1, <2>2, AllOfTask
<1> QED
  BY <1>4, <1>5, <1>6

-----------------------------------------------------------------------------
(* The epochs: Gates and WaitsOver.                                        *)

\* The protocol's part of the invariant, which the next lemmas assume whole.
Protocol ==
  /\ TypeOK /\ MirrorsLag
  /\ Fresh /\ Kept /\ NothingSkipped /\ Places
  /\ Gates /\ WaitsOver /\ Counts

\* How a workgroup comes to run a body: it was at the boundary, at the wait of
\* its descriptor, or in the body already.
LEMMA ComesFrom ==
  ASSUME TypeOK, NEW b \in Blocks, Worker(b), ~ Advance(b), pc'[b] # "exit"
  PROVE  \/ PassBoundary(b) /\ pc[b] = "boundary" /\ pc'[b] = "wait"
         \/ StartTask(b) /\ pc[b] = "wait" /\ pc'[b] \in Running
         \/ pc[b] \in {"boundary", "wait"} /\ pc'[b] = pc[b] /\ inner' = inner
         \/ pc[b] \in Running /\ (PassBodyWait(b) \/ inner' = inner)
<1>0. pc \in [Blocks -> PCs]
  BY DEF TypeOK
<1>1. CASE PassBoundary(b)
  BY <1>0, <1>1 DEF PassBoundary, Goto
<1>2. CASE StartTask(b)
  <2>1. pc'[b] = BodyStart(Current(b))
    BY <1>0, <1>2 DEF StartTask, Goto
  <2> QED
    BY <1>2, <2>1, BodyStartType DEF StartTask
<1>3. CASE PassBodyWait(b)
  BY <1>3 DEF PassBodyWait, Running
<1>4. CASE Checkpoint(b)
  BY <1>4 DEF Checkpoint, Running, Waiting
<1>5. ~ GiveUp(b)
  BY <1>0 DEF GiveUp, Goto
<1>6. CASE \/ \E v \in Waves : SignalChunk(b, v)
           \/ ArriveRouter(b) \/ PublishTopk(b) \/ Signal(b)
  BY <1>6 DEF SignalChunk, ArriveRouter, PublishTopk, Signal, Running
<1>7. ~ Publish(b)
  BY DEF Publish
<1> QED
  BY <1>1, <1>2, <1>3, <1>4, <1>5, <1>6, <1>7 DEF Worker

\* The waits a workgroup has behind it are for events.
LEMMA WaitEventsType ==
  ASSUME TypeOK, Places, NEW c \in Blocks, pc[c] \in Started
  PROVE  /\ Current(c).wait_event # NoEvent => Current(c).wait_event \in Events
         /\ \A n \in 1 .. inner[c] : BodyWaitEvent(Current(c), n) \in Events
<1> DEFINE t == Current(c)
<1>1. pc[c] # "exit"
  BY DEF Started, Running
<1>2. /\ t \in TaskDescriptor /\ CountsOnce(t) /\ WaitsOf(t) \subseteq Events
  BY <1>1, Standing, TaskFacts, AwaitedFacts
<1>3. BodyWaits(t) \in Nat /\ inner[c] \in Nat /\ PlaceOK(c)
  BY <1>2, BodyWaitsType DEF TypeOK, Places
<1>4. inner[c] <= BodyWaits(t)
  BY <1>2, <1>3 DEF PlaceOK, Started, Running, CountsOnce
<1> QED
  BY <1>2, <1>3, <1>4 DEF WaitsOf

\* The wait of a descriptor is over, and with it every earlier epoch.
LEMMA StartSettled ==
  ASSUME Protocol, NEW b \in Blocks, StartTask(b)
  PROVE  Settled(Epoch(b) - 1)
<1> USE DEF Protocol
<1> DEFINE t == Current(b)
<1>1. pc[b] = "wait" /\ Ready(b)
  BY DEF StartTask
<1>2. Here(b) \in TaskIds /\ t = Desc[Here(b)] /\ WaitsAreExact(t)
  BY <1>1, Standing, TaskFacts
<1>3. CASE t.kind = "EMBED"
  BY <1>1, <1>3 DEF Gates
<1>4. CASE t.kind # "EMBED"
  <2>1. t.wait_event # NoEvent
    BY <1>2, <1>4 DEF WaitsAreExact
  <2>2. Delivered(t.wait_event, Epoch(b))
    BY <1>1, <2>1, WaitOver
  <2>3. t.wait_event \in Awaited /\ t.wait_event \in Events
    BY <1>2, <2>1, AwaitedFacts DEF WaitsOf
  <2>4. PICK p \in Producers[t.wait_event] : TRUE
    <3>1. Producers[t.wait_event] # {}
      BY <2>3, GraphAssumption
    <3> QED
      BY <3>1
  <2>5. <<p, Epoch(b)>> \in arrived[t.wait_event]
    BY <2>2 DEF Delivered, AllArrived
  <2> QED
    BY <2>3, <2>5 DEF Gates
<1> QED
  BY <1>3, <1>4

LEMMA GatesStep ==
  ASSUME Protocol, NEW b \in Blocks, Worker(b)
  PROVE  Gates'
<1> USE DEF Protocol
<1>0. epoch0' = epoch0 /\ pc[b] # "exit" /\ Epoch(b) \in Nat
  BY OthersStay, EpochType
<1>1. \A m : Settled(m) => Settled(m)'
  BY SettledStays
<1>2. Settled(epoch0 - 1)'
  BY <1>0, <1>1 DEF Gates
<1>3. ASSUME NEW e \in Events, NEW a \in arrived'[e] PROVE Settled(a[2] - 1)'
  <2>1. CASE a \in arrived[e]
    BY <1>1, <2>1 DEF Gates
  <2>2. CASE a \notin arrived[e]
    <3>1. a[2] = Epoch(b) /\ pc[b] \in Started
      BY <2>2, Grow DEF Started, Running
    <3>2. Settled(Epoch(b) - 1)
      BY <3>1 DEF Gates
    <3> QED
      BY <1>1, <3>1, <3>2
  <2> QED
    BY <2>1, <2>2
<1>4. ASSUME NEW c \in Blocks,
             pc'[c] \in Started \/ (pc'[c] = "wait" /\ Current(c)'.kind = "EMBED")
      PROVE  Settled(Epoch(c) - 1)'
  <2>1. CASE c # b
    <3>1. pc'[c] = pc[c] /\ Current(c)' = Current(c) /\ Epoch(c)' = Epoch(c)
      BY <2>1, OthersStay
    <3>2. Settled(Epoch(c) - 1)
      BY <1>4, <3>1 DEF Gates
    <3> QED
      BY <1>1, <3>1, <3>2
  <2>2. CASE c = b /\ Advance(b)
    <3>1. pc'[b] = "wait" /\ tok'[b] = 0
      BY <1>0, <1>4, <2>2, AdvanceTo DEF Started, Running
    <3>2. Epoch(b)' = epoch0
      BY <1>0, <3>1, EpochType DEF Epoch
    <3>3. Settled(epoch0 - 1)
      BY DEF Gates
    <3> QED
      BY <1>1, <2>2, <3>2, <3>3
  <2>3. CASE c = b /\ ~ Advance(b)
    <3>1. Epoch(b)' = Epoch(b) /\ Current(b)' = Current(b)
      BY <2>3, StayOrAdvance
    <3>2. pc'[b] # "exit"
      BY <1>4, <2>3 DEF Started, Running
    <3>3. Settled(Epoch(b) - 1)
      <4>1. CASE PassBoundary(b)
        BY <4>1, BoundaryOver DEF PassBoundary
      <4>2. CASE StartTask(b)
        BY <4>2, StartSettled
      <4>3. CASE pc[b] \in {"boundary", "wait"} /\ pc'[b] = pc[b]
        <5>1. pc[b] = "wait" /\ Current(b).kind = "EMBED"
          BY <1>4, <2>3, <3>1, <4>3 DEF Started, Running
        <5> QED
          BY <5>1 DEF Gates
      <4>4. CASE pc[b] \in Running
        BY <4>4 DEF Gates, Started
      <4> QED
        BY <2>3, <3>2, <4>1, <4>2, <4>3, <4>4, ComesFrom
    <3> QED
      BY <1>1, <2>3, <3>1, <3>3
  <2> QED
    BY <2>1, <2>2, <2>3
<1> QED
  BY <1>2, <1>3, <1>4 DEF Gates

LEMMA WaitsOverStep ==
  ASSUME Protocol, NEW b \in Blocks, Worker(b)
  PROVE  WaitsOver'
<1> USE DEF Protocol
<1> DEFINE t == Current(b)
<1>0. epoch0' = epoch0 /\ pc[b] # "exit" /\ Epoch(b) \in Nat
  BY OthersStay, EpochType
<1>1. \A e \in Events : \A k : Delivered(e, k) => Delivered(e, k)'
  BY DeliveredStays
<1>2. /\ Here(b) \in TaskIds /\ t = Desc[Here(b)] /\ t \in TaskDescriptor
      /\ CountsOnce(t) /\ WaitsOf(t) \subseteq Events
  BY <1>0, Standing, TaskFacts, AwaitedFacts
<1>3. BodyWaits(t) \in Nat /\ inner[b] \in Nat /\ PlaceOK(b)
  BY <1>2, BodyWaitsType DEF TypeOK, Places
<1>4. ASSUME NEW e \in Events, NEW a \in arrived'[e], NEW f \in WaitsOf(Desc[a[1][1]])
      PROVE  Delivered(f, a[2])'
  <2>1. CASE a \in arrived[e]
    <3>1. a[1][1] \in TaskIds
      BY <2>1, ArrivalType
    <3>2. f \in Events /\ Delivered(f, a[2])
      BY <2>1, <3>1, AwaitedFacts DEF WaitsOver
    <3> QED
      BY <1>1, <3>2
  <2>2. CASE a \notin arrived[e]
    <3>1. a[1][1] = Here(b) /\ a[2] = Epoch(b) /\ pc[b] \in {"arrive", "body"}
      BY <2>2, Grow
    <3>2. pc[b] \in Started /\ inner[b] = BodyWaits(t)
      BY <1>2, <1>3, <3>1 DEF Started, Running, PlaceOK, CountsOnce
    <3>3. f \in WaitsOf(t) /\ f \in Events
      BY <1>2, <3>1
    <3>4. Delivered(f, Epoch(b))
      BY <3>2, <3>3 DEF WaitsOver, WaitsOf
    <3> QED
      BY <1>1, <3>1, <3>3, <3>4
  <2> QED
    BY <2>1, <2>2
<1>5. ASSUME NEW c \in Blocks, pc'[c] \in Started
      PROVE  /\ Current(c)'.wait_event # NoEvent =>
                  Delivered(Current(c).wait_event, Epoch(c))'
             /\ \A n \in 1 .. inner'[c] : Delivered(BodyWaitEvent(Current(c), n), Epoch(c))'
  <2>1. CASE c # b
    <3>1. /\ pc'[c] = pc[c] /\ Current(c)' = Current(c) /\ Epoch(c)' = Epoch(c)
          /\ inner'[c] = inner[c]
      BY <2>1, OthersStay
    <3>2. /\ Current(c).wait_event # NoEvent => Delivered(Current(c).wait_event, Epoch(c))
          /\ \A n \in 1 .. inner[c] : Delivered(BodyWaitEvent(Current(c), n), Epoch(c))
      BY <1>5, <3>1 DEF WaitsOver
    <3>3. /\ Current(c).wait_event # NoEvent => Current(c).wait_event \in Events
          /\ \A n \in 1 .. inner[c] : BodyWaitEvent(Current(c), n) \in Events
      BY <1>5, <3>1, WaitEventsType
    <3> QED
      BY <1>1, <3>1, <3>2, <3>3
  <2>2. CASE c = b
    <3>1. ~ Advance(b) /\ pc'[b] # "exit"
      BY <1>0, <1>5, <2>2, AdvanceTo DEF Started, Running
    <3>2. Epoch(b)' = Epoch(b) /\ Current(b)' = t
      BY <3>1, StayOrAdvance
    <3>3. /\ t.wait_event # NoEvent => Delivered(t.wait_event, Epoch(b))
          /\ \A n \in 1 .. inner'[b] : Delivered(BodyWaitEvent(t, n), Epoch(b))
      <4>1. CASE StartTask(b)
        <5>1. pc[b] = "wait" /\ Ready(b) /\ inner'[b] = 0
          BY <1>3, <4>1 DEF StartTask, PlaceOK
        <5> QED
          BY <5>1, WaitOver
      <4>2. CASE PassBodyWait(b)
        <5>1. pc[b] = "bodywait" /\ pc[b] \in Started /\ Ready(b) /\ inner'[b] = inner[b] + 1
          BY <4>2 DEF PassBodyWait, Started, Running, TypeOK
        <5>2. Delivered(BodyWaitEvent(t, inner[b] + 1), Epoch(b))
          BY <5>1, BodyWaitOver
        <5>3. ASSUME NEW n \in 1 .. inner'[b] PROVE n \in 1 .. inner[b] \/ n = inner[b] + 1
          BY <1>3, <5>1
        <5> QED
          BY <5>1, <5>2, <5>3 DEF WaitsOver
      <4>3. CASE pc[b] \in Running /\ inner' = inner
        BY <4>3 DEF WaitsOver, Started
      <4> QED
        BY <1>5, <2>2, <3>1, <4>1, <4>2, <4>3, ComesFrom DEF Started, Running
    <3>4. /\ t.wait_event # NoEvent => t.wait_event \in Events
          /\ \A n \in 1 .. inner'[b] : BodyWaitEvent(t, n) \in Events
      <4>1. PlaceOK(b)' /\ inner'[b] \in Nat
        BY PlacesStep, WorkerType DEF Places, TypeOK
      <4>2. inner'[b] <= BodyWaits(t)
        BY <1>2, <1>3, <1>5, <2>2, <3>2, <4>1 DEF PlaceOK, Started, Running, CountsOnce
      <4> QED
        BY <1>2, <1>3, <4>1, <4>2 DEF WaitsOf
    <3> QED
      BY <1>1, <2>2, <3>2, <3>3, <3>4
  <2> QED
    BY <2>1, <2>2
<1> QED
  BY <1>4, <1>5 DEF WaitsOver

-----------------------------------------------------------------------------
(* The counters: Counts, OnePublisher, StopSeen.                           *)

LEMMA ArrivedOnType ==
  ASSUME TypeOK, Fresh, NEW e \in Events, NEW x \in Xcds
  PROVE  /\ IsFiniteSet(ArrivedOn(x, e)) /\ ArrivedOn(x, e) \subseteq arrived[e]
         /\ \A a \in ArrivedOn(x, e) :
              a = <<a[1], a[2]>> /\ a[1] \in ProducersOn[x][e] /\ a[2] \in Nat \ {0}
<1>1. IsFiniteSet(arrived[e]) /\ ArrivedOn(x, e) \subseteq arrived[e]
  BY DEF Fresh, ArrivedOn
<1>2. IsFiniteSet(ArrivedOn(x, e))
  BY <1>1, FS_Subset
<1>3. ASSUME NEW a \in ArrivedOn(x, e)
      PROVE  a = <<a[1], a[2]>> /\ a[1] \in ProducersOn[x][e] /\ a[2] \in Nat \ {0}
  <2>1. a \in arrived[e] /\ Desc[a[1][1]].xcd = x
    BY DEF ArrivedOn
  <2>2. a = <<a[1], a[2]>> /\ a[1] \in Producers[e] /\ a[2] \in Nat \ {0}
    BY <2>1, ArrivalType
  <2> QED
    BY <2>1, <2>2, ShareFacts
<1> QED
  BY <1>1, <1>2, <1>3

\* An arrival raises its chiplet's counter by itself.
LEMMA LocalCountsStep ==
  ASSUME Protocol, NEW b \in Blocks, Worker(b), NEW x \in Xcds, NEW e \in Events
  PROVE  xcd_counters'[x][e] = Cardinality(ArrivedOn(x, e)')
<1> USE DEF Protocol
<1>1. xcd_counters[x][e] = Cardinality(ArrivedOn(x, e))
  BY DEF Counts
<1>2. CASE UNCHANGED <<xcd_counters, arrived>>
  BY <1>1, <1>2 DEF ArrivedOn
<1>3. ASSUME NEW f, NEW V, Adds(b, f, V)
      PROVE  xcd_counters'[x][e] = Cardinality(ArrivedOn(x, e)')
  <2> DEFINE N == NewArrivals(b, V)
  <2>1. /\ N \cap arrived[f] = {}
        /\ \A a \in N : a[1][1] = Here(b)
        /\ IsFiniteSet(N) /\ Cardinality(N) = Cardinality(V)
        /\ f \in Events /\ arrived'[f] = arrived[f] \cup N
        /\ \A g \in Events : g # f => arrived'[g] = arrived[g]
        /\ xcd_counters'[x][e] = IF x = b[1] /\ e = f
                                 THEN xcd_counters[x][e] + Cardinality(V)
                                 ELSE xcd_counters[x][e]
    BY <1>3, Arrivals
  <2>2. Desc[Here(b)].xcd = b[1]
    <3>1. pc[b] # "exit"
      BY OthersStay
    <3> QED
      BY <3>1, Standing
  <2>3. IsFiniteSet(ArrivedOn(x, e))
    BY ArrivedOnType
  <2> HIDE DEF N
  <2>4. CASE x = b[1] /\ e = f
    <3>1. ArrivedOn(x, e)' = ArrivedOn(x, e) \cup N
      BY <2>1, <2>2, <2>4 DEF ArrivedOn
    <3>2. ArrivedOn(x, e) \cap N = {}
      BY <2>1, <2>4 DEF ArrivedOn
    <3>3. Cardinality(ArrivedOn(x, e) \cup N) = Cardinality(ArrivedOn(x, e)) + Cardinality(N)
      BY <2>1, <2>3, <3>2, AddDisjoint
    <3> QED
      BY <1>1, <2>1, <2>4, <3>1, <3>3
  <2>5. CASE ~ (x = b[1] /\ e = f)
    <3>1. ArrivedOn(x, e)' = ArrivedOn(x, e)
      BY <2>1, <2>2, <2>5 DEF ArrivedOn
    <3> QED
      BY <1>1, <2>1, <2>5, <3>1
  <2> QED
    BY <2>4, <2>5
<1> QED
  BY <1>2, <1>3, AddsOrNot

\* The arithmetic of arrive_last elects exactly the arrival that completes the
\* chiplet's share of the epoch: earlier epochs are complete, later ones have
\* not begun.
LEMMA LastCompletes ==
  ASSUME Protocol, NEW b \in Blocks, Signal(b), Current(b).signal_event \in GlobalEvents
  PROVE  LastArrival(b, Current(b).signal_event, Current(b).signal_xcd_count) <=>
           \A p \in ProducersOn[b[1]][Current(b).signal_event] :
             <<p, Epoch(b)>> \in arrived'[Current(b).signal_event]
<1> USE DEF Protocol
<1> DEFINE t  == Current(b)
           e  == t.signal_event
           x  == b[1]
           k  == Epoch(b)
           PO == ProducersOn[x][e]
           a0 == <<<<Here(b), 0>>, k>>
           A  == ArrivedOn(x, e)
           B  == A \cup {a0}
<1>1. /\ pc[b] = "body" /\ pc[b] \in Started
      /\ Here(b) \in TaskIds /\ t = Desc[Here(b)] /\ t.xcd = x /\ x \in Xcds
      /\ SignalIsExact(t) /\ k \in Nat \ {0}
  BY Standing, TaskFacts, BlockXcd, EpochType DEF Signal, Started, Running
<1>2. e \in Events /\ e \in Awaited /\ e # NoEvent
  BY AwaitedFacts, EventsNat
<1>3. t.signal_xcd_count = Cardinality(PO)
  BY <1>1, <1>2 DEF SignalIsExact
<1>4. Adds(b, e, {0})
  BY <1>2, SignalAdds
<1>5. a0 \notin arrived[e] /\ arrived'[e] = arrived[e] \cup {a0}
  <2>1. NewArrivals(b, {0}) = {a0}
    BY DEF NewArrivals
  <2> QED
    BY <1>4, <2>1, Arrivals
<1>6. <<Here(b), 0>> \in Producers[e] /\ <<Here(b), 0>> \in PO
  BY <1>1, <1>2, <1>4, ShareFacts DEF Adds
<1>7. IsFiniteSet(PO) /\ IsFiniteSet(A) /\ A \subseteq arrived[e]
  BY <1>1, <1>2, ShareFacts, ArrivedOnType
<1>8. ASSUME NEW a \in A PROVE a \in PO \X (1 .. k)
  <2>1. a = <<a[1], a[2]>> /\ a[1] \in PO /\ a[2] \in Nat \ {0}
    BY <1>1, <1>2, ArrivedOnType
  <2>2. a[2] <= k
    <3> SUFFICES ASSUME ~ (a[2] <= k) PROVE FALSE
      OBVIOUS
    <3>1. Settled(a[2] - 1)
      BY <1>2, <1>7 DEF Gates
    <3>2. k \in 1 .. a[2] - 1
      BY <1>1, <2>1
    <3>3. AllArrived(e, k)
      BY <1>2, <3>1, <3>2 DEF Settled, Delivered
    <3> QED
      BY <1>5, <1>6, <3>3 DEF AllArrived
  <2> QED
    BY <1>1, <2>1, <2>2
<1>9. B \in SUBSET (PO \X (1 .. k))
  <2>1. a0 \in PO \X (1 .. k)
    BY <1>1, <1>6
  <2> QED
    BY <1>8, <2>1
<1>10. Cardinality(B) = xcd_counters[x][e] + 1
  <2>1. a0 \notin A
    BY <1>5, <1>7
  <2>2. Cardinality(A \cup {a0}) = Cardinality(A) + 1
    BY <1>7, <2>1, FS_AddElement
  <2> QED
    BY <1>1, <1>2, <2>2 DEF Counts
<1>11. ASSUME NEW p \in PO, NEW j \in 1 .. k, j # k PROVE <<p, j>> \in B
  <2>1. Settled(k - 1)
    BY <1>1 DEF Gates
  <2>2. AllArrived(e, j)
    BY <1>1, <1>2, <1>11, <2>1 DEF Settled, Delivered
  <2>3. p \in Producers[e] /\ Desc[p[1]].xcd = x
    BY <1>1, <1>2, ShareFacts
  <2>4. <<p, j>> \in arrived[e]
    BY <2>2, <2>3 DEF AllArrived
  <2> QED
    BY <2>3, <2>4 DEF ArrivedOn
<1>12. ASSUME NEW p \in PO PROVE <<p, k>> \in arrived'[e] <=> <<p, k>> \in B
  <2>1. Desc[p[1]].xcd = x
    BY <1>1, <1>2, ShareFacts
  <2> QED
    BY <1>5, <2>1 DEF ArrivedOn
<1>13. (\A p \in PO : <<p, k>> \in arrived'[e]) <=> B = PO \X (1 .. k)
  <2>1. ASSUME \A p \in PO : <<p, k>> \in arrived'[e] PROVE PO \X (1 .. k) \subseteq B
    <3>1. ASSUME NEW p \in PO, NEW j \in 1 .. k PROVE <<p, j>> \in B
      BY <1>11, <1>12, <2>1
    <3> HIDE DEF B, PO, k
    <3> QED
      BY <3>1
  <2>2. ASSUME B = PO \X (1 .. k), NEW p \in PO PROVE <<p, k>> \in arrived'[e]
    <3>1. k \in 1 .. k
      BY <1>1
    <3>2. <<p, k>> \in PO \X (1 .. k)
      BY <3>1
    <3>3. <<p, k>> \in B
      BY <2>2, <3>2
    <3> QED
      BY <1>12, <3>3
  <2> HIDE DEF B, PO, k
  <2> QED
    BY <1>9, <2>1, <2>2
<1>14. LastArrival(b, e, t.signal_xcd_count) <=> Cardinality(B) = k * Cardinality(PO)
  BY <1>3, <1>10 DEF LastArrival
<1>15. Cardinality(B) = k * Cardinality(PO) <=> B = PO \X (1 .. k)
  <2>1. /\ Cardinality(B) <= k * Cardinality(PO)
        /\ Cardinality(B) >= k * Cardinality(PO) => B = PO \X (1 .. k)
        /\ Cardinality(PO \X (1 .. k)) = k * Cardinality(PO)
    <3> HIDE DEF B, PO, k
    <3>1. k \in Nat
      BY <1>1
    <3> QED
      BY <1>7, <1>9, <3>1, Full, Rounds
  <2>2. Cardinality(PO) \in Nat /\ k * Cardinality(PO) \in Nat
    BY <1>1, <1>7, FS_CardinalityType
  <2> QED
    BY <2>1, <2>2
<1> QED
  BY <1>13, <1>14, <1>15

\* The step of a workgroup that publishes; the others leave the global
\* counters alone.
LEMMA PublishOrNot ==
  ASSUME TypeOK, NEW b \in Blocks, Worker(b)
  PROVE  /\ pc[b] = "publish" <=> Publish(b)
         /\ ~ Publish(b) => global_events' = global_events
BY DEF Worker, PassBoundary, StartTask, PassBodyWait, Checkpoint, GiveUp, SignalChunk,
       ArriveRouter, PublishTopk, Signal, Publish, Waiting

\* Publishing a share makes that share, and no other, part of the counter.
LEMMA PublishShares ==
  ASSUME Protocol, OnePublisher, NEW b \in Blocks, Worker(b), Publish(b),
         NEW x \in Xcds, NEW e \in GlobalEvents, NEW k
  PROVE  ShareOut(x, e, k)' <=>
           \/ ShareOut(x, e, k)
           \/ x = b[1] /\ e = Current(b).signal_event /\ k = Epoch(b)
<1> USE DEF Protocol
<1> DEFINE This == x = b[1] /\ e = Current(b).signal_event /\ k = Epoch(b)
<1>1. pc[b] = "publish" /\ arrived' = arrived /\ pc'[b] # "publish"
  <2>1. pc[b] = "publish" /\ arrived' = arrived /\ Advance(b) /\ epoch0' = epoch0
    BY DEF Publish, host
  <2> QED
    BY <2>1, AdvanceTo
<1>2. Publishing(b, e, k) /\ b[1] = x <=> This
  BY <1>1 DEF Publishing
<1>3. ASSUME NEW c \in Blocks, c # b
      PROVE  Publishing(c, e, k)' <=> Publishing(c, e, k)
  BY <1>3, OthersStay DEF Publishing
<1>4. ~ Publishing(b, e, k)'
  BY <1>1 DEF Publishing
<1>5. ASSUME This PROVE ShareOut(x, e, k)'
  <2>1. \A p \in ProducersOn[x][e] : <<p, k>> \in arrived[e]
    BY <1>1, <1>5 DEF OnePublisher
  <2>2. ASSUME NEW c \in Blocks, c[1] = x, Publishing(c, e, k)' PROVE FALSE
    <3>1. c # b
      BY <1>4, <2>2
    <3>2. Publishing(c, e, k)
      BY <1>3, <2>2, <3>1
    <3> QED
      BY <1>1, <1>5, <2>2, <3>1, <3>2 DEF OnePublisher
  <2> QED
    BY <1>1, <2>1, <2>2 DEF ShareOut
<1>6. ASSUME ~ This PROVE ShareOut(x, e, k)' <=> ShareOut(x, e, k)
  <2>1. ASSUME NEW c \in Blocks
        PROVE  c[1] = x /\ Publishing(c, e, k)' <=> c[1] = x /\ Publishing(c, e, k)
    BY <1>2, <1>3, <1>4, <1>6
  <2> QED
    BY <1>1, <2>1 DEF ShareOut
<1>7. This => ~ ShareOut(x, e, k)
  BY <1>2 DEF ShareOut
<1> QED
  BY <1>5, <1>6

LEMMA PublishCounts ==
  ASSUME Protocol, OnePublisher, NEW b \in Blocks, Worker(b), Publish(b),
         NEW e \in GlobalEvents
  PROVE  global_events'[e] = Cardinality(Published(e)')
<1> USE DEF Protocol
<1> DEFINE t == Current(b)
           g == t.signal_event
           x == b[1]
           k == Epoch(b)
           PO == ProducersOn[x][e]
           S == PO \X {k}
<1>1. /\ pc[b] = "publish" /\ arrived' = arrived /\ pc[b] # "exit"
      /\ global_events' = [global_events EXCEPT ![g] = @ + t.signal_xcd_count]
  BY DEF Publish
<1>2. /\ Here(b) \in TaskIds /\ t = Desc[Here(b)] /\ t.xcd = x /\ x \in Xcds /\ SignalIsExact(t)
  BY <1>1, Standing, TaskFacts, BlockXcd
<1>3. g \in GlobalEvents /\ e \in Events /\ g \in Events /\ g # NoEvent
  BY <1>1, AwaitedFacts, EventsNat DEF Places, PlaceOK
<1>4. global_events[e] = Cardinality(Published(e)) /\ IsFiniteSet(Published(e))
  <2>1. IsFiniteSet(arrived[e])
    BY <1>3 DEF Fresh
  <2>2. Published(e) \subseteq arrived[e]
    BY DEF Published
  <2>3. IsFiniteSet(Published(e))
    BY <2>1, <2>2, FS_Subset
  <2> QED
    BY <2>3 DEF Counts
<1>5. ASSUME NEW a \in arrived[e]
      PROVE  a = <<a[1], a[2]>> /\ a[1] \in Producers[e] /\ Desc[a[1][1]].xcd \in Xcds
  BY <1>3, ArrivalType, ProducerFacts
<1>6. CASE e # g
  <2>1. ASSUME NEW a \in arrived[e]
        PROVE  ShareOut(Desc[a[1][1]].xcd, e, a[2])' <=> ShareOut(Desc[a[1][1]].xcd, e, a[2])
    BY <1>5, <1>6, PublishShares
  <2>2. Published(e)' = Published(e)
    BY <1>1, <2>1 DEF Published
  <2>3. global_events'[e] = global_events[e]
    BY <1>1, <1>3, <1>6 DEF TypeOK
  <2> QED
    BY <1>4, <2>2, <2>3
<1>7. CASE e = g
  <2>1. t.signal_xcd_count = Cardinality(PO)
    BY <1>2, <1>3, <1>7 DEF SignalIsExact
  <2>2. PO = { p \in Producers[e] : Desc[p[1]].xcd = x } /\ IsFiniteSet(PO)
    BY <1>2, <1>3, ShareFacts
  <2>3. \A p \in PO : <<p, k>> \in arrived[e]
    BY <1>1, <1>7 DEF OnePublisher
  <2>4. ~ ShareOut(x, e, k)
    BY <1>1, <1>7 DEF ShareOut, Publishing
  <2>5. IsFiniteSet(S) /\ Cardinality(S) = Cardinality(PO)
    <3>1. IsFiniteSet({k}) /\ Cardinality({k}) = 1
      BY FS_Singleton
    <3>2. Cardinality(PO) \in Nat
      BY <2>2, FS_CardinalityType
    <3>3. IsFiniteSet(S) /\ Cardinality(S) = Cardinality(PO) * Cardinality({k})
      BY <2>2, <3>1, FS_Product
    <3> QED
      BY <3>1, <3>2, <3>3
  <2>6. ASSUME NEW a \in arrived[e]
        PROVE  a \in S <=> Desc[a[1][1]].xcd = x /\ a[2] = k
    BY <1>5, <2>2
  <2>7. S \subseteq arrived[e]
    BY <2>3
  <2>8. ASSUME NEW a \in arrived[e]
        PROVE  ShareOut(Desc[a[1][1]].xcd, e, a[2])' <=>
                 ShareOut(Desc[a[1][1]].xcd, e, a[2]) \/ a \in S
    BY <1>5, <1>7, <2>6, PublishShares
  <2>9. S \cap Published(e) = {}
    BY <2>4, <2>6 DEF Published
  <2> HIDE DEF S
  <2>10. Published(e)' = Published(e) \cup S
    BY <1>1, <2>7, <2>8 DEF Published
  <2>11. Cardinality(Published(e) \cup S) = Cardinality(Published(e)) + Cardinality(S)
    BY <1>4, <2>5, <2>9, AddDisjoint
  <2>12. global_events'[e] = global_events[e] + t.signal_xcd_count
    BY <1>1, <1>3, <1>7 DEF TypeOK
  <2> QED
    BY <1>4, <2>1, <2>5, <2>10, <2>11, <2>12
<1> QED
  BY <1>6, <1>7

\* An arrival on a global event is a signal for it.
LEMMA OnlySignals ==
  ASSUME TypeOK, Places, Fresh, NEW b \in Blocks, Worker(b), NEW e \in GlobalEvents,
         ~ (Signal(b) /\ Current(b).signal_event = e)
  PROVE  arrived'[e] = arrived[e]
<1>1. e \in Events /\ pc[b] # "exit"
  BY AwaitedFacts, OthersStay
<1>2. Here(b) \in TaskIds /\ Current(b) = Desc[Here(b)] /\ CountsOnce(Current(b))
  BY <1>1, Standing, TaskFacts
<1>3. ASSUME NEW f, NEW V, Adds(b, f, V), f # e PROVE arrived'[e] = arrived[e]
  BY <1>1, <1>3, Arrivals
<1>4. ASSUME NEW w \in Waves, SignalChunk(b, w) PROVE arrived'[e] = arrived[e]
  <2>1. /\ Adds(b, Current(b).local_event + wave[b][w], SignalledBy(w))
        /\ Current(b).local_event + wave[b][w] # e
    BY <1>2, <1>4, SignalChunkAdds DEF CountsOnce
  <2> QED
    BY <2>1, <1>3
<1>5. CASE ArriveRouter(b)
  <2>1. Current(b).local_event # e
    BY <1>2, <1>5 DEF CountsOnce, ArriveRouter, Places, PlaceOK
  <2> QED
    BY <1>3, <1>5, <2>1, RouterAdds
<1>6. CASE Signal(b)
  <2>1. CASE Current(b).signal_event = NoEvent
    BY <1>6, <2>1 DEF Signal
  <2>2. CASE Current(b).signal_event # NoEvent
    <3>1. Adds(b, Current(b).signal_event, {0})
      BY <1>6, <2>2, SignalAdds
    <3> QED
      BY <1>3, <1>6, <3>1
  <2> QED
    BY <2>1, <2>2
<1> QED
  BY <1>4, <1>5, <1>6 DEF Worker, PassBoundary, StartTask, PassBodyWait, Checkpoint, GiveUp,
         PublishTopk, Publish

\* A signal: its chiplet's share was incomplete, and is then incomplete or on
\* its way to the global counter.
LEMMA SignalShare ==
  ASSUME Protocol, NEW b \in Blocks, Worker(b), Signal(b),
         NEW e \in GlobalEvents, e = Current(b).signal_event, NEW k \in Nat, k = Epoch(b)
  PROVE  /\ ~ ShareOut(b[1], e, k)
         /\ ~ ShareOut(b[1], e, k)'
         /\ ~ \A p \in ProducersOn[b[1]][e] : <<p, k>> \in arrived[e]
         /\ arrived'[e] = arrived[e] \cup {<<<<Here(b), 0>>, k>>}
         /\ Desc[Here(b)].xcd = b[1]
<1> USE DEF Protocol
<1> DEFINE t == Current(b)
           x == b[1]
<1>1. /\ pc[b] = "body" /\ pc[b] # "exit" /\ e # NoEvent /\ e \in Events
      /\ pc \in [Blocks -> PCs]
  BY AwaitedFacts, EventsNat DEF Signal, TypeOK
<1>2. /\ Here(b) \in TaskIds /\ t = Desc[Here(b)] /\ t.xcd = x /\ x \in Xcds /\ SignalIsExact(t)
  BY <1>1, Standing, TaskFacts, BlockXcd
<1>3. Adds(b, e, {0})
  BY <1>1, SignalAdds
<1>4. <<<<Here(b), 0>>, k>> \notin arrived[e] /\ arrived'[e] = arrived[e] \cup {<<<<Here(b), 0>>, k>>}
  <2>1. NewArrivals(b, {0}) = {<<<<Here(b), 0>>, k>>}
    BY DEF NewArrivals
  <2> QED
    BY <1>3, <2>1, Arrivals
<1>5. <<Here(b), 0>> \in ProducersOn[x][e]
  <2>1. <<Here(b), 0>> \in Producers[e]
    BY <1>3 DEF Adds
  <2> QED
    BY <1>1, <1>2, <2>1, ShareFacts
<1>6. ~ \A p \in ProducersOn[x][e] : <<p, k>> \in arrived[e]
  BY <1>4, <1>5
<1>7. ASSUME \A p \in ProducersOn[x][e] : <<p, k>> \in arrived'[e]
      PROVE  \E c \in Blocks : c[1] = x /\ Publishing(c, e, k)'
  <2>1. LastArrival(b, e, t.signal_xcd_count)
    BY <1>7, LastCompletes
  <2>2. t.signal_scope # "XCD_LOCAL"
    BY <1>1, <1>2 DEF SignalIsExact
  <2>3. Goto(b, "publish") /\ UNCHANGED <<tok, slot>>
    BY <1>1, <2>1, <2>2 DEF Signal
  <2>4. pc'[b] = "publish"
    BY <1>1, <2>3 DEF Goto
  <2>5. Epoch(b)' = k /\ Current(b)' = t
    BY <2>4, ToPublish
  <2>6. Publishing(b, e, k)'
    BY <2>4, <2>5 DEF Publishing
  <2> QED
    BY <2>6
<1>8. ~ ShareOut(x, e, k)'
  <2> SUFFICES ASSUME ShareOut(x, e, k)' PROVE FALSE
    OBVIOUS
  <2>1. \A p \in ProducersOn[x][e] : <<p, k>> \in arrived'[e]
    BY DEF ShareOut
  <2>2. ~ \E c \in Blocks : c[1] = x /\ Publishing(c, e, k)'
    BY DEF ShareOut
  <2> QED
    BY <1>7, <2>1, <2>2
<1> QED
  BY <1>2, <1>4, <1>6, <1>8 DEF ShareOut

\* A step that does not publish leaves the shares that are out as they are.
LEMMA SharesStay ==
  ASSUME Protocol, NEW b \in Blocks, Worker(b), ~ Publish(b),
         NEW x \in Xcds, NEW e \in GlobalEvents, NEW k \in Nat
  PROVE  ShareOut(x, e, k)' <=> ShareOut(x, e, k)
<1> USE DEF Protocol
<1>1. e \in Events /\ pc[b] # "publish"
  BY AwaitedFacts, PublishOrNot
<1>2. ASSUME NEW c \in Blocks, c # b PROVE Publishing(c, e, k)' <=> Publishing(c, e, k)
  BY <1>2, OthersStay DEF Publishing
<1>3. ~ Publishing(b, e, k)
  BY <1>1 DEF Publishing
<1>4. Publishing(b, e, k)' => Signal(b) /\ Current(b).signal_event = e /\ Epoch(b) = k
  BY ToPublish DEF Publishing
<1>5. CASE Signal(b) /\ Current(b).signal_event = e
  <2>1. CASE x = b[1] /\ k = Epoch(b)
    BY <1>5, <2>1, SignalShare
  <2>2. CASE ~ (x = b[1] /\ k = Epoch(b))
    <3>1. /\ arrived'[e] = arrived[e] \cup {<<<<Here(b), 0>>, Epoch(b)>>}
          /\ Desc[Here(b)].xcd = b[1]
      BY <1>5, SignalShare, EpochType
    <3>2. ASSUME NEW p \in ProducersOn[x][e]
          PROVE  <<p, k>> \in arrived'[e] <=> <<p, k>> \in arrived[e]
      <4>1. Desc[p[1]].xcd = x
        BY <1>1, ShareFacts
      <4> QED
        BY <2>2, <3>1, <4>1
    <3>3. ASSUME NEW c \in Blocks
          PROVE  c[1] = x /\ Publishing(c, e, k)' <=> c[1] = x /\ Publishing(c, e, k)
      BY <1>2, <1>3, <1>4, <2>2
    <3> QED
      BY <3>2, <3>3 DEF ShareOut
  <2> QED
    BY <2>1, <2>2
<1>6. CASE ~ (Signal(b) /\ Current(b).signal_event = e)
  <2>1. arrived'[e] = arrived[e]
    BY <1>6, OnlySignals
  <2>2. ASSUME NEW c \in Blocks PROVE Publishing(c, e, k)' <=> Publishing(c, e, k)
    BY <1>2, <1>3, <1>4, <1>6
  <2> QED
    BY <2>1, <2>2 DEF ShareOut
<1> QED
  BY <1>5, <1>6

LEMMA GlobalCountsStep ==
  ASSUME Protocol, OnePublisher, NEW b \in Blocks, Worker(b), NEW e \in GlobalEvents
  PROVE  global_events'[e] = Cardinality(Published(e)')
<1> USE DEF Protocol
<1>1. CASE Publish(b)
  BY <1>1, PublishCounts
<1>2. CASE ~ Publish(b)
  <2>1. global_events'[e] = Cardinality(Published(e)) /\ e \in Events
    BY <1>2, PublishOrNot, AwaitedFacts DEF Counts
  <2>2. ASSUME NEW a \in arrived'[e]
        PROVE  Desc[a[1][1]].xcd \in Xcds /\ a[2] \in Nat
    <3>1. a[1] \in Producers[e]
      BY <2>1, FreshStep DEF Fresh
    <3>2. a[2] \in Nat
      BY <2>1, StepTypes
    <3> QED
      BY <2>1, <3>1, <3>2, ProducerFacts
  <2>3. ASSUME NEW a \in arrived'[e]
        PROVE  ShareOut(Desc[a[1][1]].xcd, e, a[2])' <=> ShareOut(Desc[a[1][1]].xcd, e, a[2])
    BY <1>2, <2>2, SharesStay
  <2>4. ASSUME NEW a \in arrived'[e], a \notin arrived[e]
        PROVE  ~ ShareOut(Desc[a[1][1]].xcd, e, a[2])
    <3>1. Signal(b) /\ Current(b).signal_event = e
      BY <2>4, OnlySignals
    <3>2. a[1][1] = Here(b) /\ a[2] = Epoch(b) /\ Desc[Here(b)].xcd = b[1]
      BY <2>1, <2>4, <3>1, Grow, SignalShare, EpochType
    <3> QED
      BY <3>1, <3>2, SignalShare, EpochType
  <2>5. arrived[e] \subseteq arrived'[e]
    BY <2>1, Grow
  <2>6. Published(e)' = Published(e)
    BY <2>3, <2>4, <2>5 DEF Published
  <2> QED
    BY <2>1, <2>6
<1> QED
  BY <1>1, <1>2

LEMMA CountsStep ==
  ASSUME Protocol, OnePublisher, NEW b \in Blocks, Worker(b)
  PROVE  Counts'
BY LocalCountsStep, GlobalCountsStep DEF Counts

\* A workgroup that goes on to publish is the only one of its chiplet.
LEMMA NewPublisher ==
  ASSUME Protocol, OnePublisher, NEW b \in Blocks, Worker(b), pc'[b] = "publish"
  PROVE  /\ \A p \in ProducersOn[b[1]][Current(b).signal_event] :
              <<p, Epoch(b)>> \in arrived'[Current(b).signal_event]
         /\ \A d \in Blocks :
              d[1] = b[1] => ~ Publishing(d, Current(b).signal_event, Epoch(b))
<1> USE DEF Protocol
<1>1. /\ Signal(b) /\ pc[b] # "exit"
      /\ Current(b).signal_event # NoEvent /\ Current(b).signal_scope # "XCD_LOCAL"
      /\ LastArrival(b, Current(b).signal_event, Current(b).signal_xcd_count)
  BY ToPublish
<1>2. Current(b).signal_event \in GlobalEvents
  BY <1>1, Standing, TaskFacts DEF SignalIsExact
<1>3. ASSUME NEW d \in Blocks, d[1] = b[1], Publishing(d, Current(b).signal_event, Epoch(b))
      PROVE  FALSE
  <2>1. \A p \in ProducersOn[b[1]][Current(b).signal_event] :
          <<p, Epoch(b)>> \in arrived[Current(b).signal_event]
    BY <1>3 DEF OnePublisher, Publishing
  <2> QED
    BY <1>1, <1>2, <2>1, SignalShare, EpochType
<1> QED
  BY <1>1, <1>2, <1>3, LastCompletes

LEMMA OnePublisherStep ==
  ASSUME Protocol, OnePublisher, NEW b \in Blocks, Worker(b)
  PROVE  OnePublisher'
<1> USE DEF Protocol
<1>0. ASSUME NEW c \in Blocks, pc'[c] = "publish"
      PROVE  /\ Current(c)' = Current(c) /\ Epoch(c)' = Epoch(c)
             /\ c # b => pc[c] = "publish"
             /\ Current(c).signal_event \in Events
  <2>1. Current(c)' = Current(c) /\ Epoch(c)' = Epoch(c) /\ (c # b => pc[c] = "publish")
    BY <1>0, OthersStay, ToPublish
  <2>2. Current(c)'.signal_event \in GlobalEvents
    BY <1>0, PlacesStep DEF Places, PlaceOK
  <2> QED
    BY <2>1, <2>2, AwaitedFacts
<1>1. ASSUME NEW c \in Blocks, pc'[c] = "publish",
             NEW p \in ProducersOn[c[1]][Current(c)'.signal_event]
      PROVE  <<p, Epoch(c)'>> \in arrived'[Current(c)'.signal_event]
  <2>1. CASE c = b
    BY <1>0, <1>1, <2>1, NewPublisher
  <2>2. CASE c # b
    <3>1. <<p, Epoch(c)>> \in arrived[Current(c).signal_event]
      BY <1>0, <1>1, <2>2 DEF OnePublisher
    <3> QED
      BY <1>0, <1>1, <3>1, Grow
  <2> QED
    BY <2>1, <2>2
<1>2. ASSUME NEW c \in Blocks, NEW d \in Blocks, pc'[c] = "publish", pc'[d] = "publish",
             Current(d)'.signal_event = Current(c)'.signal_event, Epoch(d)' = Epoch(c)',
             c[1] = d[1]
      PROVE  c = d
  <2>1. /\ Current(d).signal_event = Current(c).signal_event /\ Epoch(d) = Epoch(c)
    BY <1>0, <1>2
  <2>2. ASSUME c = b, d # b PROVE FALSE
    BY <1>0, <1>2, <2>1, <2>2, NewPublisher DEF Publishing
  <2>3. ASSUME d = b, c # b PROVE FALSE
    BY <1>0, <1>2, <2>1, <2>3, NewPublisher DEF Publishing
  <2>4. ASSUME c # b, d # b PROVE c = d
    BY <1>0, <1>2, <2>1, <2>4 DEF OnePublisher, Publishing
  <2> QED
    BY <2>2, <2>3, <2>4
<1> QED
  BY <1>1, <1>2 DEF OnePublisher, Publishing

LEMMA StopSeenStep ==
  ASSUME TypeOK, Places, StopSeen, NEW b \in Blocks, Worker(b)
  PROVE  StopSeen'
<1>1. /\ epoch0' = epoch0 /\ n_tokens' = n_tokens /\ sched' = sched /\ (abort => abort')
  BY OthersStay
<1>2. global_events[DoneEvent] \in Nat /\ DoneEvent \in Events
  BY AwaitedFacts DEF TypeOK
<1>3. global_events'[DoneEvent] \in Nat /\ global_events'[DoneEvent] >= global_events[DoneEvent]
  <2>1. CASE Publish(b)
    <3>1. global_events' = [global_events EXCEPT ![Current(b).signal_event]
                                                 = @ + Current(b).signal_xcd_count]
      BY <2>1 DEF Publish
    <3>2. Current(b).signal_xcd_count \in Nat
      <4>1. pc[b] # "exit"
        BY OthersStay
      <4> QED
        BY <4>1, Standing DEF TaskDescriptor
    <3> QED
      BY <1>2, <3>1, <3>2 DEF TypeOK
  <2>2. CASE ~ Publish(b)
    BY <1>2, <2>2, PublishOrNot
  <2> QED
    BY <2>1, <2>2
<1>4. done_target' = done_target /\ done_target \in Int
  BY <1>1 DEF done_target, TypeOK
<1> QED
  BY <1>1, <1>2, <1>3, <1>4 DEF StopSeen

-----------------------------------------------------------------------------
(* The invariant of the specification.                                     *)

LEMMA WorkerKeeps ==
  ASSUME IInv, NEW b \in Blocks, Worker(b)
  PROVE  IInv'
<1> USE DEF IInv
<1>1. Protocol /\ OnePublisher
  BY DEF Protocol
<1>2. TypeOK' /\ MirrorsLag'
  BY WorkerType, WorkerLag
<1>3. Fresh' /\ Kept' /\ NothingSkipped' /\ Places'
  BY FreshStep, KeptStep, NothingSkippedStep, PlacesStep
<1>4. Gates' /\ WaitsOver'
  BY <1>1, GatesStep, WaitsOverStep
<1>5. Counts' /\ OnePublisher' /\ StopSeen'
  BY <1>1, CountsStep, OnePublisherStep, StopSeenStep
<1> QED
  BY <1>2, <1>3, <1>4, <1>5

\* The parts that do not mention the schedulers' state.
LEMMA SchedulersApart ==
  ASSUME IInv, UNCHANGED <<host, global_events, xcd_counters, abort, block, arrived>>
  PROVE  /\ Fresh' /\ Kept' /\ NothingSkipped' /\ Places'
         /\ Gates' /\ WaitsOver' /\ Counts' /\ OnePublisher'
<1>1. /\ epoch0' = epoch0 /\ n_tokens' = n_tokens /\ global_events' = global_events
      /\ xcd_counters' = xcd_counters /\ abort' = abort /\ arrived' = arrived
      /\ pc' = pc /\ tok' = tok /\ slot' = slot /\ inner' = inner /\ wave' = wave
  BY DEF host, block
<1>2. \A b : Epoch(b)' = Epoch(b) /\ Current(b)' = Current(b) /\ Here(b)' = Here(b)
  BY <1>1 DEF Epoch, Current, Here
<1>3. \A i, k : Behind(i, k)' <=> Behind(i, k)
  BY <1>1, <1>2 DEF Behind
<1>4. \A i : AtTask(i)' <=> AtTask(i)
  BY <1>1, <1>2 DEF AtTask
<1>5. \A p, e : HasCounted(p, e)' <=> HasCounted(p, e)
  BY <1>1 DEF HasCounted
<1>6. Fresh' /\ Kept' /\ NothingSkipped'
  BY <1>1, <1>2, <1>3, <1>4, <1>5 DEF IInv, Fresh, Kept, NothingSkipped
<1>7. Places'
  BY <1>1, <1>2 DEF IInv, Places, PlaceOK
<1>8. \A b, e, k : Publishing(b, e, k)' <=> Publishing(b, e, k)
  BY <1>1, <1>2 DEF Publishing
<1>9. \A e, k : Delivered(e, k)' <=> Delivered(e, k)
  BY <1>1, <1>8 DEF Delivered, AllArrived
<1>10. \A m : Settled(m)' <=> Settled(m)
  BY <1>9 DEF Settled
<1>11. Gates'
  BY <1>1, <1>2, <1>10 DEF IInv, Gates
<1>12. WaitsOver'
  BY <1>1, <1>2, <1>9 DEF IInv, WaitsOver
<1>13. \A x, e, k : ShareOut(x, e, k)' <=> ShareOut(x, e, k)
  BY <1>1, <1>8 DEF ShareOut
<1>14. \A e : Published(e)' = Published(e)
  BY <1>1, <1>13 DEF Published
<1>15. Counts'
  BY <1>1, <1>14 DEF IInv, Counts, ArrivedOn
<1>16. OnePublisher'
  BY <1>1, <1>2, <1>8 DEF IInv, OnePublisher
<1> QED
  BY <1>6, <1>7, <1>11, <1>12, <1>15, <1>16

LEMMA SchedulerKeeps ==
  ASSUME IInv, NEW x \in Xcds, Scheduler(x)
  PROVE  IInv'
<1> USE DEF host
<1>1. TypeOK' /\ MirrorsLag'
  BY SchedulerType, SchedulerLag DEF IInv, Scheduler
<1>2. UNCHANGED <<host, global_events, xcd_counters, abort, block, arrived>>
  BY DEF Scheduler, Relay, PollGlobal, StoreFlag, StopScheduler, ExitScheduler
<1>3. StopSeen'
  <2>1. /\ epoch0' = epoch0 /\ n_tokens' = n_tokens /\ abort' = abort
        /\ global_events' = global_events /\ sched \in [Xcds -> {"run", "stop", "exit"}]
    BY <1>2 DEF IInv, TypeOK
  <2>2. CASE sched' = sched
    BY <2>1, <2>2 DEF IInv, StopSeen, done_target
  <2>3. CASE StopScheduler(x)
    BY <2>1, <2>3 DEF IInv, StopSeen, done_target, StopScheduler, SeesStop
  <2>4. CASE ExitScheduler(x)
    BY <2>1, <2>4 DEF IInv, StopSeen, done_target, ExitScheduler
  <2> QED
    BY <2>2, <2>3, <2>4 DEF Scheduler, Relay, PollGlobal, StoreFlag
<1> QED
  BY <1>1, <1>2, <1>3, SchedulersApart DEF IInv

LEMMA StutterKeeps ==
  ASSUME IInv, UNCHANGED vars
  PROVE  IInv'
<1>1. UNCHANGED <<host, global_events, xcd_counters, abort, block, arrived>>
  BY DEF vars, host, block
<1>2. TypeOK' /\ MirrorsLag' /\ StopSeen'
  BY DEF IInv, vars, TypeOK, MirrorsLag, StopSeen, done_target
<1> QED
  BY <1>1, <1>2, SchedulersApart DEF IInv

\* The next launch takes over where the last one ended: every workgroup is at
\* the first descriptor of the epoch it had got to.
LEMMA RelaunchPlaces ==
  ASSUME IInv, Relaunch
  PROVE  /\ ~ abort /\ ~ abort' /\ arrived' = arrived /\ xcd_counters' = xcd_counters
         /\ global_events' = global_events
         /\ epoch0' = epoch0 + n_tokens /\ n_tokens' \in Nat \ {0}
         /\ \A b \in Blocks :
              /\ pc[b] = "exit" /\ pc'[b] \in {"exit", "wait"}
              /\ wave[b] = [v \in Waves |-> 0] /\ wave'[b] = [v \in Waves |-> 0]
              /\ inner'[b] = 0 /\ tok'[b] = 0
              /\ pc'[b] = "exit" => Queue[b] = <<>>
              /\ Queue[b] # <<>> => tok[b] = n_tokens /\ slot'[b] = slot[b]
<1>1. KernelDone /\ ~ abort /\ Start /\ UNCHANGED <<xcd_counters, abort, arrived, global_events>>
  BY DEF Relaunch, NextLaunch
<1>2. epoch0' = epoch0 + n_tokens
  BY DEF Relaunch, NextLaunch
<1>3. n_tokens' \in Nat \ {0}
  BY RelaunchType DEF IInv, TypeOK
<1>4. ASSUME NEW b \in Blocks
      PROVE  /\ pc[b] = "exit" /\ pc'[b] \in {"exit", "wait"}
             /\ wave[b] = [v \in Waves |-> 0] /\ wave'[b] = [v \in Waves |-> 0]
             /\ inner'[b] = 0 /\ tok'[b] = 0
             /\ pc'[b] = "exit" => Queue[b] = <<>>
             /\ Queue[b] # <<>> => tok[b] = n_tokens /\ slot'[b] = slot[b]
  <2>1. pc[b] = "exit" /\ PlaceOK(b)
    BY <1>1 DEF KernelDone, IInv, Places
  <2>2. /\ pc'[b] = (IF Queue[b] = <<>> THEN "exit" ELSE "wait")
        /\ wave'[b] = [v \in Waves |-> 0] /\ inner'[b] = 0 /\ tok'[b] = 0 /\ slot'[b] = 1
    BY <1>1 DEF Start
  <2> QED
    BY <1>1, <2>1, <2>2 DEF PlaceOK
<1> QED
  BY <1>1, <1>2, <1>3, <1>4

LEMMA RelaunchTasks ==
  ASSUME IInv, Relaunch, NEW i \in TaskIds
  PROVE  /\ Epoch(Owner(i)) = epoch0 + n_tokens /\ Epoch(Owner(i))' = epoch0 + n_tokens
         /\ AtTask(i)' <=> AtTask(i)
         /\ \A k : Behind(i, k)' <=> Behind(i, k)
         /\ \A v, e : ~ HasCounted(<<i, v>>, e) /\ ~ HasCounted(<<i, v>>, e)'
<1> DEFINE b == Owner(i)
<1>1. b \in Blocks /\ Queue[b] # <<>>
  <2>1. b \in Blocks /\ \E s \in DOMAIN Queue[b] : Queue[b][s] = i
    BY TaskFacts
  <2> QED
    BY <2>1
<1>2. /\ pc[b] = "exit" /\ pc'[b] \in {"exit", "wait"}
      /\ wave[b] = [v \in Waves |-> 0] /\ wave'[b] = [v \in Waves |-> 0]
      /\ tok'[b] = 0 /\ tok[b] = n_tokens /\ slot'[b] = slot[b] /\ epoch0' = epoch0 + n_tokens
  BY <1>1, RelaunchPlaces
<1>3. Epoch(b) = epoch0 + n_tokens /\ Epoch(b)' = epoch0 + n_tokens
  BY <1>2 DEF Epoch, IInv, TypeOK
<1>4. AtTask(i)' <=> AtTask(i)
  BY <1>2 DEF AtTask, Here
<1>5. \A k : Behind(i, k)' <=> Behind(i, k)
  BY <1>2, <1>3 DEF Behind
<1>6. \A c \in Nat, w \in Signallers : ~ (c < wave[b][w]) /\ ~ (c < wave'[b][w])
  BY <1>2, SignallersFacts
<1>7. ASSUME NEW v, NEW e PROVE ~ HasCounted(<<i, v>>, e) /\ ~ HasCounted(<<i, v>>, e)'
  <2>1. \A c \in 0 .. Chunks(Desc[i]) - 1 : c \in Nat
    OBVIOUS
  <2> QED
    BY <1>2, <1>6, <2>1 DEF HasCounted
<1> QED
  BY <1>3, <1>4, <1>5, <1>7

LEMMA RelaunchKeeps ==
  ASSUME IInv, Relaunch
  PROVE  IInv'
<1> USE DEF IInv
<1> DEFINE n == epoch0 + n_tokens
<1>0. /\ ~ abort /\ ~ abort' /\ arrived' = arrived /\ xcd_counters' = xcd_counters
      /\ global_events' = global_events /\ epoch0' = n /\ n_tokens' \in Nat \ {0}
      /\ n \in Nat \ {0}
  BY RelaunchPlaces DEF TypeOK
<1>1. TypeOK' /\ MirrorsLag'
  BY RelaunchType, <1>0 DEF MirrorsLag, Relaunch, NextLaunch
<1>2. ASSUME NEW e \in Events, NEW p \in Producers[e]
      PROVE  p = <<p[1], p[2]>> /\ p[1] \in TaskIds
  BY <1>2, ProducerFacts
<1>3. Fresh'
  <2>1. ASSUME NEW e \in Events, NEW a \in arrived[e]
        PROVE  a[1] \in Producers[e] /\ a[2] >= 1 /\ Behind(a[1][1], a[2])'
    <3>1. /\ a[1] \in Producers[e] /\ a[2] >= 1
          /\ Behind(a[1][1], a[2]) \/ HasCounted(a[1], e)
      BY DEF Fresh
    <3> QED
      BY <1>2, <3>1, RelaunchTasks
  <2>2. \A e \in Events : IsFiniteSet(arrived[e])
    BY DEF Fresh
  <2> QED
    BY <1>0, <2>1, <2>2 DEF Fresh
<1>4. Kept'
  BY <1>2, RelaunchTasks DEF Kept
<1>5. NothingSkipped'
  <2>1. ASSUME NEW e \in Events, NEW p \in Producers[e],
               NEW k \in 1 .. Epoch(Owner(p[1]))', Behind(p[1], k)'
        PROVE  <<p, k>> \in arrived[e]
    <3>1. k \in 1 .. Epoch(Owner(p[1])) /\ Behind(p[1], k)
      BY <1>2, <2>1, RelaunchTasks
    <3> QED
      BY <1>0, <3>1 DEF NothingSkipped
  <2> QED
    BY <1>0, <2>1 DEF NothingSkipped
<1>6. Places'
  <2>1. ASSUME NEW b \in Blocks PROVE PlaceOK(b)'
    <3>1. /\ pc'[b] \in {"exit", "wait"} /\ wave'[b] = [v \in Waves |-> 0]
          /\ inner'[b] = 0 /\ tok'[b] = 0 /\ (pc'[b] = "exit" => Queue[b] = <<>>)
      BY RelaunchPlaces
    <3>2. 0 < n_tokens'
      BY <1>0
    <3> QED
      BY <3>1, <3>2 DEF PlaceOK
  <2> QED
    BY <2>1 DEF Places
<1>7. \A b \in Blocks : \A e, k : ~ Publishing(b, e, k) /\ ~ Publishing(b, e, k)'
  BY RelaunchPlaces DEF Publishing
<1>8. ASSUME NEW e \in Events, NEW k, Delivered(e, k) PROVE Delivered(e, k)'
  BY <1>0, <1>7, <1>8 DEF Delivered, AllArrived
<1>9. ASSUME NEW m, Settled(m) PROVE Settled(m)'
  BY <1>8, <1>9, AwaitedFacts DEF Settled
<1>10. \A j : j = n - 1 => Settled(j)'
  <2>1. ASSUME NEW e \in Awaited, NEW k \in 1 .. n - 1, NEW p \in Producers[e]
        PROVE  <<p, k>> \in arrived[e]
    <3>1. e \in Events /\ p[1] \in TaskIds
      BY <1>2, AwaitedFacts
    <3>2. k < n /\ k \in 1 .. n
      BY <1>0
    <3>3. Epoch(Owner(p[1])) = n
      BY <3>1, RelaunchTasks
    <3>4. Behind(p[1], k)
      BY <3>2, <3>3 DEF Behind
    <3> QED
      BY <1>0, <3>1, <3>2, <3>3, <3>4 DEF NothingSkipped
  <2>2. ASSUME NEW e \in Awaited, NEW k \in 1 .. n - 1 PROVE Delivered(e, k)'
    BY <1>0, <1>7, <2>1 DEF Delivered, AllArrived
  <2> QED
    BY <2>2 DEF Settled
<1>11. Gates'
  <2>1. \A e \in Events : \A a \in arrived[e] : Settled(a[2] - 1)'
    BY <1>9 DEF Gates
  <2>2. ASSUME NEW b \in Blocks
        PROVE  pc'[b] \notin Started /\ Settled(Epoch(b) - 1)'
    <3>1. pc'[b] \in {"exit", "wait"} /\ tok'[b] = 0
      BY RelaunchPlaces
    <3>2. Epoch(b)' - 1 = n - 1
      BY <1>0, <3>1 DEF Epoch
    <3> QED
      BY <1>10, <3>1, <3>2 DEF Started, Running
  <2>3. Settled(epoch0 - 1)'
    BY <1>0, <1>10
  <2> QED
    BY <1>0, <2>1, <2>2, <2>3 DEF Gates
<1>12. WaitsOver'
  <2>1. \A b \in Blocks : pc'[b] \notin Started
    BY RelaunchPlaces DEF Started, Running
  <2>2. ASSUME NEW e \in Events, NEW a \in arrived[e], NEW f \in WaitsOf(Desc[a[1][1]])
        PROVE  Delivered(f, a[2])'
    <3>1. f \in Events
      BY ArrivalType, AwaitedFacts
    <3> QED
      BY <1>8, <3>1 DEF WaitsOver
  <2> QED
    BY <1>0, <2>1, <2>2 DEF WaitsOver
<1>13. Counts'
  <2>1. \A x, e, k : ShareOut(x, e, k)' <=> ShareOut(x, e, k)
    BY <1>0, <1>7 DEF ShareOut
  <2>2. \A e : Published(e)' = Published(e)
    BY <1>0, <2>1 DEF Published
  <2> QED
    BY <1>0, <2>2 DEF Counts, ArrivedOn
<1>14. OnePublisher'
  BY RelaunchPlaces DEF OnePublisher
<1>15. StopSeen'
  <2>1. sched' = [x \in Xcds |-> "run"]
    BY DEF Relaunch, NextLaunch
  <2> QED
    BY <2>1 DEF StopSeen
<1> QED
  BY <1>1, <1>3, <1>4, <1>5, <1>6, <1>11, <1>12, <1>13, <1>14, <1>15

LEMMA InitInvariant == Init => IInv
<1> SUFFICES ASSUME Init PROVE IInv
  OBVIOUS
<1>1. /\ TypeOK /\ MirrorsLag /\ epoch0 = 1 /\ ~ abort
      /\ \A e \in Events : arrived[e] = {} /\ global_events[e] = 0
      /\ \A x \in Xcds, e \in Events : xcd_counters[x][e] = 0
      /\ \A x \in Xcds : sched[x] = "run"
  BY InitType, InitLag DEF Init
<1>2. ASSUME NEW b \in Blocks
      PROVE  /\ pc[b] = (IF Queue[b] = <<>> THEN "exit" ELSE "wait")
             /\ tok[b] = 0 /\ slot[b] = 1 /\ inner[b] = 0 /\ wave[b] = [v \in Waves |-> 0]
  BY DEF Init
<1>3. \A b \in Blocks : pc[b] \in {"exit", "wait"} /\ Epoch(b) = 1
  BY <1>1, <1>2 DEF Epoch
<1>4. ASSUME NEW e \in Events, NEW p \in Producers[e] PROVE ~ HasCounted(p, e)
  <2>1. Owner(p[1]) \in Blocks
    BY ProducerFacts, TaskFacts
  <2>2. \A c \in 0 .. Chunks(Desc[p[1]]) - 1, w \in Signallers : ~ (c < wave[Owner(p[1])][w])
    <3>1. \A w \in Signallers : wave[Owner(p[1])][w] = 0
      BY <1>2, <2>1, SignallersFacts
    <3> QED
      BY <3>1
  <2> QED
    BY <1>3, <2>1, <2>2 DEF HasCounted
<1>5. Fresh
  BY <1>1, FS_EmptySet DEF Fresh
<1>6. Kept
  BY <1>4 DEF Kept
<1>7. NothingSkipped
  <2>1. ASSUME NEW e \in Events, NEW p \in Producers[e], NEW k \in 1 .. Epoch(Owner(p[1]))
        PROVE  ~ Behind(p[1], k)
    <3>1. Owner(p[1]) \in Blocks
      BY ProducerFacts, TaskFacts
    <3>2. /\ slot[Owner(p[1])] = 1 /\ Epoch(Owner(p[1])) = 1 /\ k = 1
          /\ DOMAIN Queue[Owner(p[1])] = 1 .. Len(Queue[Owner(p[1])])
          /\ Len(Queue[Owner(p[1])]) \in Nat
      BY <1>2, <1>3, <3>1, QueueFacts
    <3> QED
      BY <3>2 DEF Behind
  <2> QED
    BY <2>1 DEF NothingSkipped
<1>8. Places
  <2>1. n_tokens \in Nat \ {0}
    BY <1>1 DEF TypeOK
  <2>2. ASSUME NEW b \in Blocks PROVE PlaceOK(b)
    BY <1>2, <2>1 DEF PlaceOK
  <2> QED
    BY <2>2 DEF Places
<1>9. Settled(0)
  BY DEF Settled
<1>10. Gates
  BY <1>1, <1>3, <1>9 DEF Gates, Started, Running
<1>11. WaitsOver
  BY <1>1, <1>3 DEF WaitsOver, Started, Running
<1>12. Counts
  <2>1. \A x, e : e \in Events => ArrivedOn(x, e) = {} /\ Published(e) = {}
    BY <1>1 DEF ArrivedOn, Published
  <2>2. Cardinality({}) = 0
    BY FS_EmptySet
  <2> QED
    BY <1>1, <2>1, <2>2, AwaitedFacts DEF Counts
<1>13. OnePublisher
  BY <1>3 DEF OnePublisher
<1>14. StopSeen
  BY <1>1 DEF StopSeen
<1> QED
  BY <1>1, <1>5, <1>6, <1>7, <1>8, <1>10, <1>11, <1>12, <1>13, <1>14 DEF IInv

\* The counters of the kernel mean what the protocol takes them for, in every
\* launch, whichever waits are abandoned: a chiplet's counter is the number of
\* arrivals on it, a global one the number of arrivals in published shares,
\* and arrivals of an epoch only follow the epochs before it.
THEOREM CountersMeanArrivals == Spec => []IInv
<1>1. Init => IInv
  BY InitInvariant
<1>2. IInv /\ [Next]_vars => IInv'
  BY WorkerKeeps, SchedulerKeeps, RelaunchKeeps, StutterKeeps DEF Next, Finished
<1> QED
  BY <1>1, <1>2, PTL DEF Spec

-----------------------------------------------------------------------------
(* The protocol's promises.                                                *)

\* wait_event: no body starts, and no wait inside one is passed, before every
\* producer of the awaited event has counted for this very epoch.
THEOREM NoBodyRunsEarly == Spec => []NoEarlyStart
<1>1. IInv => NoEarlyStart
  <2> SUFFICES ASSUME IInv PROVE NoEarlyStart
    OBVIOUS
  <2> USE DEF IInv
  <2> SUFFICES ASSUME NEW b \in Blocks, pc[b] \in Running
               PROVE  LET t == Current(b)
                          passed == IF pc[b] = "body" THEN ChunksRead(t) - 1 ELSE inner[b]
                      IN  /\ t.wait_event # NoEvent => AllArrived(t.wait_event, Epoch(b))
                          /\ "PUB_WAIT" \in t.flags /\ pc[b] = "body" /\ ~Smoke =>
                               AllArrived(t.local_event, Epoch(b))
                          /\ "CHUNK_WAIT" \in t.flags /\ ~Smoke =>
                               \A c \in 1 .. passed : AllArrived(t.local_event + c, Epoch(b))
    BY DEF NoEarlyStart
  <2> DEFINE t == Current(b)
             passed == IF pc[b] = "body" THEN ChunksRead(t) - 1 ELSE inner[b]
  <2>1. pc[b] # "exit" /\ pc[b] \in Started
    BY DEF Running, Started
  <2>2. CountsOnce(t) /\ PlaceOK(b) /\ t \in TaskDescriptor
    BY <2>1, Standing, TaskFacts DEF Places
  <2>3. /\ t.wait_event # NoEvent => AllArrived(t.wait_event, Epoch(b))
        /\ \A n \in 1 .. inner[b] : AllArrived(BodyWaitEvent(t, n), Epoch(b))
    BY <2>1 DEF WaitsOver, Delivered
  <2>4. ASSUME "PUB_WAIT" \in t.flags, pc[b] = "body", ~Smoke
        PROVE  AllArrived(t.local_event, Epoch(b))
    <3>1. inner[b] = 1 /\ BodyWaitEvent(t, 1) = t.local_event
      BY <2>2, <2>4 DEF PlaceOK, BodyWaits, BodyWaitEvent
    <3> QED
      BY <2>3, <3>1
  <2>5. ASSUME "CHUNK_WAIT" \in t.flags, ~Smoke, NEW c \in 1 .. passed
        PROVE  AllArrived(t.local_event + c, Epoch(b))
    <3>1. "PUB_WAIT" \notin t.flags
      BY <2>2, <2>5 DEF CountsOnce
    <3>2. BodyWaits(t) = ChunksRead(t) - 1 /\ BodyWaitEvent(t, c) = t.local_event + c
      BY <2>5, <3>1 DEF BodyWaits, BodyWaitEvent
    <3>3. c \in 1 .. inner[b]
      BY <2>2, <2>5, <3>2 DEF PlaceOK
    <3> QED
      BY <2>3, <3>2, <3>3
  <2> QED
    BY <2>3, <2>4, <2>5
<1> QED
  BY <1>1, CountersMeanArrivals, PTL

\* The global counters never show more producers than have counted, although
\* a chiplet adds its whole share at once.
THEOREM CountersNeverAhead == Spec => []CountersHonest
<1>1. IInv => CountersHonest
  <2> SUFFICES ASSUME IInv PROVE CountersHonest
    OBVIOUS
  <2> USE DEF IInv
  <2>1. ASSUME NEW e \in GlobalEvents PROVE global_events[e] <= Cardinality(arrived[e])
    <3>1. e \in Events
      BY AwaitedFacts
    <3>2. IsFiniteSet(arrived[e]) /\ Published(e) \in SUBSET arrived[e]
      BY <3>1 DEF Fresh, Published
    <3>3. Cardinality(Published(e)) <= Cardinality(arrived[e])
      BY <3>2, FS_Subset
    <3> QED
      BY <3>3 DEF Counts
  <2> QED
    BY <2>1 DEF CountersHonest
<1> QED
  BY <1>1, CountersMeanArrivals, PTL

\* When an epoch is settled, every workgroup is past it: the last task of its
\* queue is one that somebody waits for.
LEMMA NobodyBehind ==
  ASSUME IInv, NEW c \in Blocks, pc[c] # "exit", NEW m \in Nat, Settled(m)
  PROVE  m < Epoch(c)
<1> USE DEF IInv
<1> SUFFICES ASSUME ~ (m < Epoch(c)) PROVE FALSE
  OBVIOUS
<1> DEFINE k == Epoch(c)
           l == Len(Queue[c])
           i == Queue[c][l]
           e == Desc[i].signal_event
<1>1. k \in 1 .. m
  BY EpochType
<1>2. slot[c] \in 1 .. l /\ l \in 1 .. l /\ DOMAIN Queue[c] = 1 .. l /\ l \in Nat
  BY Standing, QueueFacts
<1>3. i \in TaskIds /\ Owner(i) = c /\ \A r \in DOMAIN Queue[c] : Queue[c][r] = i => r = l
  BY <1>2, QueueFacts
<1>4. e \in Awaited /\ e \in Events
  BY <1>2, AwaitedFacts, GraphAssumption
<1>5. <<i, 0>> \in Producers[e]
  BY <1>3, <1>4, IsProducer, WaveSets
<1>6. Delivered(e, k)
  BY <1>1, <1>4 DEF Settled
<1>7. <<<<i, 0>>, k>> \in arrived[e]
  BY <1>5, <1>6 DEF Delivered, AllArrived
<1>8. ~ Behind(i, k)
  BY <1>1, <1>2, <1>3 DEF Behind
<1>9. AtTask(i) /\ HasCounted(<<i, 0>>, e)
  BY <1>4, <1>7, <1>8 DEF Fresh
<1>10. CountsOnce(Desc[i])
  BY <1>3, TaskFacts
<1>11. pc[c] = "publish"
  BY <1>3, <1>9, <1>10 DEF HasCounted, CountsOnce, ChunkEvents
<1>12. Current(c) = Desc[i]
  BY <1>3, <1>9 DEF AtTask, Here, Current
<1> QED
  BY <1>6, <1>11, <1>12 DEF Delivered, Publishing

\* Token boundary: while a body of one epoch runs, nothing of an earlier one
\* is left anywhere on the device, so two tokens never share the buffers.
THEOREM OneTokenAtATime == Spec => []TokensDoNotOverlap
<1>1. IInv => TokensDoNotOverlap
  <2> SUFFICES ASSUME IInv, NEW b \in Blocks, NEW c \in Blocks,
                      pc[b] \in Running, pc[c] # "exit"
               PROVE  Epoch(c) >= Epoch(b)
    BY DEF TokensDoNotOverlap
  <2>1. Epoch(b) \in Nat \ {0} /\ Epoch(c) \in Nat
    BY EpochType DEF IInv
  <2>2. Settled(Epoch(b) - 1) /\ Epoch(b) - 1 \in Nat
    BY <2>1 DEF IInv, Gates, Started
  <2>3. Epoch(b) - 1 < Epoch(c)
    BY <2>2, NobodyBehind
  <2> QED
    BY <2>1, <2>3
<1> QED
  BY <1>1, CountersMeanArrivals, PTL

\* run_scheduler may stop at the launch's last final event: by then no
\* workgroup, of its chiplet or of another, waits for a mirror.
THEOREM SchedulersOutlastWaits == Spec => []SchedulersLeaveLast
<1>1. IInv => SchedulersLeaveLast
  <2> SUFFICES ASSUME IInv, NEW x \in Xcds, sched[x] # "run", ~ abort,
                      NEW c \in Blocks, pc[c] \in Waiting
               PROVE  FALSE
    BY DEF SchedulersLeaveLast
  <2> USE DEF IInv
  <2>1. /\ epoch0 \in Nat \ {0} /\ n_tokens \in Nat \ {0} /\ tok[c] \in Nat
        /\ pc[c] # "exit" /\ tok[c] < n_tokens
    BY DEF TypeOK, Waiting, Places, PlaceOK
  <2>2. done_target \in Nat \ {0} /\ Epoch(c) <= done_target
    BY <2>1 DEF done_target, Epoch
  <2>3. global_events[DoneEvent] >= done_target * Cardinality(Producers[DoneEvent])
    <3>1. global_events[DoneEvent] >= done_target
      BY DEF StopSeen
    <3> QED
      BY <2>2, <3>1, GraphAssumption
  <2>4. Delivered(DoneEvent, done_target)
    BY <2>2, <2>3, GlobalRelease, ConstantsAssumption
  <2>5. Settled(done_target)
    BY <2>2, <2>4, DoneSettles
  <2>6. done_target < Epoch(c)
    BY <2>1, <2>2, <2>5, NobodyBehind
  <2> QED
    BY <2>1, <2>2, <2>6, EpochType
<1> QED
  BY <1>1, CountersMeanArrivals, PTL

\* A launch that ends without an abort has run every descriptor for every
\* token, and leaves every counter, per chiplet and global, at exactly epoch
\* times producers: what the targets of the next launch take for granted.
THEOREM LaunchesEndEven == Spec => []CleanExit
<1>1. IInv => CleanExit
  <2> SUFFICES ASSUME IInv, KernelDone, ~ abort, NEW e \in Events
               PROVE  /\ \A k \in 1 .. Decoded : AllArrived(e, k)
                      /\ \A x \in Xcds :
                           xcd_counters[x][e] = Decoded * Cardinality(ProducersOn[x][e])
                      /\ e \in GlobalEvents =>
                           global_events[e] = Decoded * Cardinality(Producers[e])
    BY DEF CleanExit
  <2> USE DEF IInv
  <2> DEFINE d == Decoded
  <2>1. d \in Nat
    BY DEF Decoded, TypeOK
  <2>2. ASSUME NEW i \in TaskIds
        PROVE  /\ Epoch(Owner(i)) = d + 1
               /\ \A k \in 1 .. d : Behind(i, k)
               /\ \A k \in Nat : Behind(i, k) => k <= d
               /\ \A v, f : ~ HasCounted(<<i, v>>, f)
    <3> DEFINE b == Owner(i)
    <3>1. b \in Blocks /\ \E s \in DOMAIN Queue[b] : Queue[b][s] = i
      BY TaskFacts
    <3>2. Queue[b] # <<>> /\ pc[b] = "exit" /\ PlaceOK(b) /\ DOMAIN Queue[b] = 1 .. Len(Queue[b])
      BY <3>1, QueueFacts DEF KernelDone, Places
    <3>3. tok[b] = n_tokens /\ slot[b] = 1 /\ wave[b] = [v \in Waves |-> 0]
      BY <3>2 DEF PlaceOK
    <3>4. Epoch(b) = d + 1
      BY <3>3 DEF Epoch, Decoded, TypeOK
    <3>5. \A k \in 1 .. d : Behind(i, k)
      BY <2>1, <3>4 DEF Behind
    <3>6. \A k \in Nat : Behind(i, k) => k <= d
      <4>1. \A s \in DOMAIN Queue[b] : ~ (s < slot[b])
        BY <3>2, <3>3
      <4> QED
        BY <2>1, <3>4, <4>1 DEF Behind
    <3>7. ASSUME NEW v, NEW f PROVE ~ HasCounted(<<i, v>>, f)
      <4>1. \A c \in 0 .. Chunks(Desc[i]) - 1, w \in Signallers : ~ (c < wave[b][w])
        <5>1. \A w \in Signallers : wave[b][w] = 0
          BY <3>3, SignallersFacts
        <5> QED
          BY <5>1
      <4> QED
        BY <3>2, <4>1 DEF HasCounted
    <3> QED
      BY <3>4, <3>5, <3>6, <3>7
  <2>3. ASSUME NEW p \in Producers[e], NEW k \in 1 .. d PROVE <<p, k>> \in arrived[e]
    <3>1. p[1] \in TaskIds /\ k \in 1 .. d + 1
      BY <2>1, ProducerFacts
    <3>2. Epoch(Owner(p[1])) = d + 1 /\ Behind(p[1], k)
      BY <2>2, <3>1
    <3> QED
      BY <3>1, <3>2 DEF NothingSkipped
  <2>4. ASSUME NEW a \in arrived[e]
        PROVE  a = <<a[1], a[2]>> /\ a[1] \in Producers[e] /\ a[2] \in 1 .. d
    <3>1. /\ a = <<a[1], a[2]>> /\ a[1] \in Producers[e] /\ a[2] \in Nat \ {0}
          /\ a[1][1] \in TaskIds /\ a[1] = <<a[1][1], a[1][2]>>
      BY ArrivalType
    <3>2. Behind(a[1][1], a[2])
      BY <2>2, <3>1 DEF Fresh
    <3> QED
      BY <2>1, <2>2, <3>1, <3>2
  <2>5. ASSUME NEW x \in Xcds
        PROVE  xcd_counters[x][e] = d * Cardinality(ProducersOn[x][e])
    <3>1. /\ ProducersOn[x][e] = { p \in Producers[e] : Desc[p[1]].xcd = x }
          /\ IsFiniteSet(ProducersOn[x][e])
      BY ShareFacts
    <3>2. ArrivedOn(x, e) = ProducersOn[x][e] \X (1 .. d)
      <4>1. ArrivedOn(x, e) \subseteq ProducersOn[x][e] \X (1 .. d)
        BY <2>4, <3>1 DEF ArrivedOn
      <4>2. ASSUME NEW p \in ProducersOn[x][e], NEW k \in 1 .. d
            PROVE  <<p, k>> \in ArrivedOn(x, e)
        BY <2>3, <3>1 DEF ArrivedOn
      <4> HIDE DEF d
      <4> QED
        BY <4>1, <4>2
    <3> QED
      BY <2>1, <3>1, <3>2, Rounds DEF Counts
  <2>6. ASSUME e \in GlobalEvents
        PROVE  global_events[e] = d * Cardinality(Producers[e])
    <3>1. ASSUME NEW a \in arrived[e] PROVE ShareOut(Desc[a[1][1]].xcd, e, a[2])
      <4>1. a[1] \in Producers[e] /\ a[2] \in 1 .. d /\ Desc[a[1][1]].xcd \in Xcds
        BY <2>4, ProducerFacts
      <4>2. ProducersOn[Desc[a[1][1]].xcd][e] \subseteq Producers[e]
        BY <4>1, ShareFacts
      <4>3. \A c \in Blocks : pc[c] # "publish"
        BY DEF KernelDone
      <4> QED
        BY <2>3, <4>1, <4>2, <4>3 DEF ShareOut, Publishing
    <3>2. Published(e) = arrived[e]
      BY <3>1 DEF Published
    <3>3. arrived[e] = Producers[e] \X (1 .. d)
      <4>1. arrived[e] \subseteq Producers[e] \X (1 .. d)
        BY <2>4
      <4> HIDE DEF d
      <4> QED
        BY <2>3, <4>1
    <3>4. IsFiniteSet(Producers[e])
      BY ProducerFacts
    <3> QED
      BY <2>1, <2>6, <3>2, <3>3, <3>4, Rounds DEF Counts
  <2> QED
    BY <2>3, <2>5, <2>6 DEF AllArrived
<1> QED
  BY <1>1, CountersMeanArrivals, PTL

=============================================================================
