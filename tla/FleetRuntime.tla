---------------------------- MODULE FleetRuntime ----------------------------
(***************************************************************************)
(* The persistent decode kernel's synchronisation protocol: workgroups     *)
(* that walk ahead-of-time task queues, events counted per XCD and summed  *)
(* into global counters, one scheduler workgroup per XCD that mirrors the  *)
(* global counters into its XCD, the exit path of an abandoned wait, and   *)
(* the host loop that launches the kernel again on the same, never reset,  *)
(* counters (src/runtime/fleet_runtime.h, the main loop of                 *)
(* src/kernels/fleet_kernel.hip, the decode loop of                        *)
(* src/host/fleet_launch.hip).  One launch decodes n_tokens tokens; the    *)
(* k-th one runs the whole graph at epoch epoch0 + k.                      *)
(*                                                                         *)
(* Payloads, addresses and arithmetic are abstracted: a task body is the   *)
(* interval between the wait that releases it and its signal, with the     *)
(* waits and signals the body itself makes.                                *)
(***************************************************************************)
EXTENDS Integers, Sequences, FiniteSets

CONSTANTS
  Xcds,          \* the chiplets                                   (kXCDs)
  Workers,       \* worker workgroups of one chiplet      (kWorkersPerXCD)
  NWaves,        \* waves of a workgroup                          (kWaves)
  QAbsSlices,    \* publishers of a head's q_c               (kQAbsSlices)
  Events,        \* event ids: a set of natural numbers
  GlobalEvents,  \* the events the schedulers mirror    (global_event_ids)
  DoneEvent,     \* the graph's final event                   (done_event)
  Desc,          \* the descriptors, a sequence of TaskDescriptor  (tasks)
  Queue,         \* per workgroup, the indices of its descriptors, in order
  Tokens,        \* tokens the host decodes                     (--tokens)
  PerLaunch,     \* most tokens of one launch        (--tokens-per-launch)
  DirectPoll,    \* TRUE: workers poll the global counters themselves
  Smoke,         \* TRUE: protocol only, no task body
  MayTimeOut     \* TRUE: a wait may reach spin_limit

NoEvent == -1

\* The workgroups that run tasks; b[1] is the chiplet of workgroup b.
Blocks == Xcds \X Workers
Waves  == 0 .. NWaves - 1

\* SIGNAL_LAST is left out: taskgraph.py never sets it (ASSUMEd below by
\* its absence), and only the smoke branch of the main loop still reads it.
Flags == { "FOLD_PARTIALS", "CHUNK_SIGNAL", "CHUNK_WAIT", "KVA_SHARED",
           "WORKER_GROUP", "ROUTING_CACHED", "TOPK_PUBLISH", "TOPK_READ",
           "PUB_WAIT", "OPROJ_ROW_SPLIT", "LOCAL_FOLD", "LOCAL_KVA" }

Kinds == { "QKV_FUSED", "ATTENTION", "MERGE_UV", "O_PROJ", "NORM_ROUTER",
           "EXPERT_GATE_UP", "EXPERT_DOWN", "REDUCE", "DENSE_GATE_UP",
           "DENSE_DOWN", "EMBED", "LM_HEAD", "ARGMAX", "PREFETCH", "Q_ABSORB" }

Scopes == { "NONE", "XCD_LOCAL", "GLOBAL" }

TaskDescriptor ==
  [ kind : Kinds, layer : Int, xcd : Xcds, worker : Workers,
    wait_event : Events \cup {NoEvent}, wait_scope : Scopes, wait_count : Nat,
    signal_event : Events \cup {NoEvent}, signal_scope : Scopes,
    signal_xcd_count : Nat,
    local_event : Events \cup {NoEvent}, flags : SUBSET Flags,
    n_split : Int, head : Int, kv_chunk : Int, expert_slot : Int ]

TaskIds == DOMAIN Desc

\* K-chunks a gate_up task signals, and those a down task consumes.
Chunks(t) == IF "CHUNK_SIGNAL" \in t.flags /\ t.kv_chunk > 0 THEN t.kv_chunk ELSE 0
ChunksRead(t) == IF "CHUNK_WAIT" \in t.flags /\ t.kv_chunk > 1 THEN t.kv_chunk ELSE 1

ChunkEvents(t) == { t.local_event + c : c \in 0 .. Chunks(t) - 1 }

\* The events the body of a descriptor touches on its own chiplet.
BodyEvents(t) ==
  ChunkEvents(t)
    \cup { t.local_event + c : c \in 1 .. ChunksRead(t) - 1 }
    \cup (IF t.flags \cap {"PUB_WAIT", "TOPK_PUBLISH"} # {} THEN {t.local_event} ELSE {})

\* In-body waits: a reader of the published q_c waits once, the consumer of
\* a chunked h once per chunk after the first.  Smoke runs have no bodies.
NoBodyWaits(t) == 0      \* mutant: the body never waits

BodyWaits(t) ==
  IF Smoke THEN 0 ELSE IF "PUB_WAIT" \in t.flags THEN 1 ELSE ChunksRead(t) - 1

\* The event its n-th wait is for, and how many count on that event.
BodyWaitEvent(t, n) == IF "PUB_WAIT" \in t.flags THEN t.local_event ELSE t.local_event + n
BodyWaitCount(t)    == IF "PUB_WAIT" \in t.flags THEN QAbsSlices ELSE t.wait_count

ASSUME ConstantsAssumption ==
  /\ NWaves \in Nat \ {0}
  /\ QAbsSlices \in Nat
  /\ Events \subseteq Nat
  /\ GlobalEvents \subseteq Events
  /\ DoneEvent \in GlobalEvents
  /\ Tokens \in Nat \ {0}
  /\ PerLaunch \in Nat \ {0}
  /\ DirectPoll \in BOOLEAN
  /\ Smoke \in BOOLEAN
  /\ MayTimeOut \in BOOLEAN

\* What the descriptor layout and the launcher's build_queues guarantee
\* whatever the graph: every descriptor is in exactly the queue it names, once.
ASSUME DescriptorAssumption ==
  /\ Desc \in Seq(TaskDescriptor)
  /\ \A i \in TaskIds : BodyEvents(Desc[i]) \subseteq Events
  /\ Queue \in [Blocks -> Seq(TaskIds)]
  /\ \A b \in Blocks : \A s \in DOMAIN Queue[b] :
       /\ <<Desc[Queue[b][s]].xcd, Desc[Queue[b][s]].worker>> = b
       /\ \A r \in DOMAIN Queue[b] : Queue[b][r] = Queue[b][s] => r = s

-----------------------------------------------------------------------------
(* The task graph the workgroups walk, and what the protocol relies on.    *)

\* The workgroup whose queue holds task i.
Owner(i) == <<Desc[i].xcd, Desc[i].worker>>

CountsTopk(t) == "TOPK_PUBLISH" \in t.flags /\ ~Smoke

\* Who counts on an event in one epoch: its signalling tasks, every wave of
\* the gate_up tasks whose K-chunk it is, the routers whose arrivals it counts.
Producers ==
  [e \in Events |->
    { p \in TaskIds \X Waves :
        LET t == Desc[p[1]] IN
        \/ p[2] = 0 /\ t.signal_event = e
        \/ e \in ChunkEvents(t)
        \/ p[2] = 0 /\ CountsTopk(t) /\ t.local_event = e }]

ProducersOn ==
  [x \in Xcds |-> [e \in Events |-> { p \in Producers[e] : Desc[p[1]].xcd = x }]]

\* The events a task waits for, before its body and in it; and all the events
\* the kernel waits for, the final one at its token boundary.
WaitsOf(t) ==
  ({t.wait_event} \ {NoEvent}) \cup { BodyWaitEvent(t, n) : n \in 1 .. BodyWaits(t) }

Awaited == {DoneEvent} \cup UNION { WaitsOf(Desc[i]) : i \in TaskIds }

\* A task counts on an event in one way only, and never from its body on an
\* event the schedulers mirror; a router's body does nothing but its arrivals.
CountsOnce(t) ==
  /\ t.signal_event \notin ChunkEvents(t)
  /\ ChunkEvents(t) \cap GlobalEvents = {}
  /\ ~ ({"PUB_WAIT", "CHUNK_WAIT"} \subseteq t.flags)
  /\ CountsTopk(t) => /\ BodyWaits(t) = 0
                     /\ Chunks(t) = 0
                     /\ t.local_event \notin GlobalEvents \cup {t.signal_event}

\* Its signal is published exactly if the event is mirrored, by the last of
\* the tasks of its chiplet that signal it.
SignalIsExact(t) ==
  t.signal_event # NoEvent =>
    /\ t.signal_scope # "XCD_LOCAL" <=> t.signal_event \in GlobalEvents
    /\ t.signal_event \in GlobalEvents =>
         t.signal_xcd_count = Cardinality(ProducersOn[t.xcd][t.signal_event])

\* A counter of a chiplet is only waited for by the producers' own chiplet.
OfXcd(e, x) == e \notin GlobalEvents /\ \A p \in Producers[e] : Desc[p[1]].xcd = x

\* Its waits are for all the producers of their events, and where they count.
WaitsAreExact(t) ==
  /\ t.wait_event = NoEvent => t.kind = "EMBED"
  /\ t.wait_event # NoEvent =>
       /\ t.wait_count = Cardinality(Producers[t.wait_event])
       /\ \/ t.wait_scope # "XCD_LOCAL" /\ t.wait_event \in GlobalEvents
          \/ t.wait_scope = "XCD_LOCAL" /\ OfXcd(t.wait_event, t.xcd)
  /\ \A n \in 1 .. BodyWaits(t) :
       /\ OfXcd(BodyWaitEvent(t, n), t.xcd)
       /\ BodyWaitCount(t) = Cardinality(Producers[BodyWaitEvent(t, n)])

\* What taskgraph.py builds (build_graph, finalize) and refuses (validate):
\* every task is queued; tasks are numbered in the order the data flows, so a
\* wait is for tasks that come before; and nothing is left dangling, the
\* one task that ends a token depends on every event anyone waits for, and
\* the last task of every queue is itself waited for.
ASSUME GraphAssumption ==
  /\ \A i \in TaskIds :
       /\ \E s \in DOMAIN Queue[Owner(i)] : Queue[Owner(i)][s] = i
       /\ CountsOnce(Desc[i]) /\ SignalIsExact(Desc[i]) /\ WaitsAreExact(Desc[i])
       /\ \A e \in WaitsOf(Desc[i]) : \A p \in Producers[e] : p[1] < i
  /\ GlobalEvents \subseteq Awaited
  /\ \A e \in Awaited :
       /\ Producers[e] # {}
       /\ e # DoneEvent =>
            \E i \in TaskIds, f \in Awaited :
              e \in WaitsOf(Desc[i]) /\ \E p \in Producers[f] : p[1] = i
  /\ Cardinality(Producers[DoneEvent]) = 1
  /\ \A b \in Blocks : Queue[b] # <<>> =>
       Desc[Queue[b][Len(Queue[b])]].signal_event \in Awaited

-----------------------------------------------------------------------------
VARIABLES
  epoch0,          \* epoch of the launch's first token
  n_tokens,        \* tokens decoded by this launch
  global_events,   \* per event, the global counter
  xcd_flags,       \* per chiplet, its mirror of the global counters
  xcd_counters,    \* per chiplet, its own arrival counters
  abort,           \* TRUE once a reason code has been written
  sched,           \* per chiplet, its scheduler: "run", "stop" or "exit"
  held,            \* per chiplet and event, what the scheduler lane polled last
  pc,              \* per workgroup, where it is in the main loop
  tok,             \* per workgroup, the token it works on
  slot,            \* per workgroup, its position in its queue
  spun,            \* per workgroup, a poll of the current wait failed
  inner,           \* per workgroup, the in-body waits already passed
  wave,            \* per workgroup and wave, the K-chunks already signalled
  arrived          \* history: per event, the <<<<task, wave>>, epoch>> counted

host  == <<epoch0, n_tokens>>
block == <<pc, tok, slot, spun, inner, wave>>
vars  == <<epoch0, n_tokens, global_events, xcd_flags, xcd_counters, abort,
           sched, held, pc, tok, slot, spun, inner, wave, arrived>>

Waiting == { "boundary", "wait", "bodywait" }
Running == { "bodywait", "arrive", "topk", "body" }
PCs     == Waiting \cup Running \cup { "publish", "exit" }

-----------------------------------------------------------------------------
(* The descriptor a workgroup is at, and where that takes it.              *)

Current(b) == Desc[Queue[b][slot[b]]]
Epoch(b)   == epoch0 + tok[b]

BodyStart(t) ==
  IF BodyWaits(t) > 0 THEN "bodywait"
  ELSE IF "TOPK_PUBLISH" \in t.flags /\ ~Smoke THEN "arrive"
  ELSE "body"

\* The top of the loop for token k, position s of the queue of b: only the
\* embed of a later token polls the token boundary first.  An empty queue
\* has nothing to fetch.
Entry(b, s, k) ==
  IF k = n_tokens \/ s > Len(Queue[b]) THEN "exit"
  ELSE IF Desc[Queue[b][s]].kind = "EMBED" /\ k > 0 THEN "boundary"
  ELSE "wait"

\* Who counts the chunks of a CHUNK_SIGNAL task: every wave once per chunk,
\* or thread 0 for all the waves at once when the body is skipped.
EveryWave       == Waves      \* mutant: the stand-in counts once per wave
Signallers      == IF Smoke THEN {0} ELSE Waves
ForEveryWave(v) == Waves      \* mutant: each wave counts for the workgroup
SignalledBy(v)  == IF Smoke THEN Waves ELSE {v}

-----------------------------------------------------------------------------
(* wait_event: the counter polled and its target.                          *)

Wait(e, s, n) == [event |-> e, scope |-> s, target |-> n]

\* Counters are never reset, so a target is cumulative.
TargetOfLaunch(b, n) == epoch0 * n      \* mutant: one target for a whole launch
Target(b, n) == Epoch(b) * n

CurrentWait(b) ==
  LET t == Current(b) IN
  IF pc[b] = "boundary" THEN Wait(DoneEvent, "GLOBAL", Epoch(b) - 1)
  ELSE IF pc[b] = "bodywait"
  THEN Wait(BodyWaitEvent(t, inner[b] + 1), "XCD_LOCAL", Target(b, BodyWaitCount(t)))
  ELSE Wait(t.wait_event, t.wait_scope, Target(b, t.wait_count))

Polled(x, e, s) == IF s = "XCD_LOCAL" THEN xcd_counters[x][e]
                   ELSE IF DirectPoll THEN global_events[e]
                   ELSE xcd_flags[x][e]

Ready(b) ==
  LET w == CurrentWait(b)
  IN  w.event # NoEvent => Polled(b[1], w.event, w.scope) >= w.target

-----------------------------------------------------------------------------
(* The main loop of a worker workgroup.                                    *)

\* fetch_task for the next slot, the next token when the queue is drained,
\* and the end of the kernel after the last token.
Drained(b) == slot[b] = Len(Queue[b])

Advance(b) ==
  LET last == Drained(b)
      s    == IF last THEN 1 ELSE slot[b] + 1
      k    == IF last THEN tok[b] + 1 ELSE tok[b]
  IN  /\ slot' = [slot EXCEPT ![b] = s]
      /\ tok'  = [tok EXCEPT ![b] = k]
      /\ pc'   = [pc EXCEPT ![b] = Entry(b, s, k)]
      /\ spun' = [spun EXCEPT ![b] = FALSE]
      /\ inner' = [inner EXCEPT ![b] = 0]
      /\ wave' = [wave EXCEPT ![b] = [v \in Waves |-> 0]]

Goto(b, p) ==
  /\ pc' = [pc EXCEPT ![b] = p]
  /\ spun' = [spun EXCEPT ![b] = FALSE]

\* The fetch_add's old value tells the last of `members` arrivals of this
\* epoch: whoever completes the chiplet's group acts for it.
FirstArrival(b, e, members) ==                      \* mutant: the wrong one elected
  xcd_counters[b[1]][e] + 1 = (Epoch(b) - 1) * members + 1
LastArrival(b, e, members) == xcd_counters[b[1]][e] + 1 = Epoch(b) * members

\* Bump event e of the workgroup's own chiplet on behalf of waves V of its task.
Count(b, e, V) ==
  /\ xcd_counters' = [xcd_counters EXCEPT ![b[1]][e] = @ + Cardinality(V)]
  /\ arrived' = [arrived EXCEPT ![e] =
                   @ \cup { <<<<Queue[b][slot[b]], v>>, Epoch(b)>> : v \in V }]

\* Token boundary: the previous token's final event has been seen.
PassBoundary(b) ==
  /\ pc[b] = "boundary"
  /\ Ready(b)
  /\ Goto(b, "wait")
  /\ UNCHANGED <<host, global_events, xcd_flags, xcd_counters, abort, sched, held,
                 tok, slot, inner, wave, arrived>>

\* The descriptor's own wait is satisfied: its body starts.
StartTask(b) ==
  /\ pc[b] = "wait"
  /\ Ready(b)
  /\ Goto(b, BodyStart(Current(b)))
  /\ UNCHANGED <<host, global_events, xcd_flags, xcd_counters, abort, sched, held,
                 tok, slot, inner, wave, arrived>>

\* A wait inside the body (published q_c, or the next K-chunk of h).
PassBodyWait(b) ==
  /\ pc[b] = "bodywait"
  /\ Ready(b)
  /\ inner' = [inner EXCEPT ![b] = @ + 1]
  /\ Goto(b, IF inner[b] + 1 = BodyWaits(Current(b)) THEN "body" ELSE "bodywait")
  /\ UNCHANGED <<host, global_events, xcd_flags, xcd_counters, abort, sched, held,
                 tok, slot, wave, arrived>>

\* Every 1024 polls a waiter looks at the abort flag and at its spin count.
\* A checkpoint that can find neither raised changes nothing and is left out.
Checkpoint(b) ==
  /\ pc[b] \in Waiting
  /\ ~spun[b]
  /\ ~Ready(b)
  /\ abort \/ MayTimeOut
  /\ spun' = [spun EXCEPT ![b] = TRUE]
  /\ UNCHANGED <<host, global_events, xcd_flags, xcd_counters, abort, sched, held,
                 pc, tok, slot, inner, wave, arrived>>

\* The wait is abandoned: someone aborted, or this waiter's own timeout does
\* (raise_abort keeps the first reason).  Before the body the workgroup
\* leaves the kernel; in the body run_task returns false, so the task does
\* not signal and the loop goes on.
GiveUpAndGoOn(b) ==      \* mutant: the body goes on after its abandoned wait
  /\ pc[b] \in Waiting
  /\ spun[b]
  /\ abort \/ MayTimeOut
  /\ abort' = TRUE
  /\ Goto(b, IF pc[b] = "bodywait" THEN "body" ELSE "exit")
  /\ UNCHANGED <<host, global_events, xcd_flags, xcd_counters, sched, held,
                 tok, slot, inner, wave, arrived>>

GiveUp(b) ==
  /\ pc[b] \in Waiting
  /\ spun[b]
  /\ abort \/ MayTimeOut
  /\ abort' = TRUE
  /\ IF pc[b] = "bodywait"
     THEN Advance(b)
     ELSE Goto(b, "exit") /\ UNCHANGED <<tok, slot, inner, wave>>
  /\ UNCHANGED <<host, global_events, xcd_flags, xcd_counters, sched, held,
                 arrived>>

\* gate_up: wave v has stored its rows of the next K-chunk and counts it.
SignalChunk(b, v) ==
  /\ pc[b] = "body"
  /\ v \in Signallers
  /\ wave[b][v] < Chunks(Current(b))
  /\ Count(b, Current(b).local_event + wave[b][v], SignalledBy(v))
  /\ wave' = [wave EXCEPT ![b][v] = @ + 1]
  /\ UNCHANGED <<host, global_events, xcd_flags, abort, sched, held,
                 pc, tok, slot, spun, inner>>

\* Router: arrive_last on local_event; the last of the chiplet's workers of
\* this epoch goes on to publish the top-k.
ArriveRouter(b) ==
  LET e == Current(b).local_event IN
  /\ pc[b] = "arrive"
  /\ Count(b, e, {0})
  /\ Goto(b, IF LastArrival(b, e, Cardinality(Workers)) THEN "topk" ELSE "body")
  /\ UNCHANGED <<host, global_events, xcd_flags, abort, sched, held,
                 tok, slot, inner, wave>>

\* ... select_experts into the chiplet's buffer, then the router's own signal.
PublishTopk(b) ==
  /\ pc[b] = "topk"
  /\ Goto(b, "body")
  /\ UNCHANGED <<host, global_events, xcd_flags, xcd_counters, abort, sched, held,
                 tok, slot, inner, wave, arrived>>

\* signal_event after the body: count on the own chiplet, and go on to
\* publish if this arrival completes the chiplet's share of a global event.
Signal(b) ==
  LET t == Current(b) IN
  /\ pc[b] = "body"
  /\ \A v \in Signallers : wave[b][v] = Chunks(t)
  /\ IF t.signal_event = NoEvent
     THEN Advance(b) /\ UNCHANGED <<xcd_counters, arrived>>
     ELSE /\ Count(b, t.signal_event, {0})
          /\ IF /\ t.signal_scope # "XCD_LOCAL"
                /\ LastArrival(b, t.signal_event, t.signal_xcd_count)
             THEN Goto(b, "publish") /\ UNCHANGED <<tok, slot, inner, wave>>
             ELSE Advance(b)
  /\ UNCHANGED <<host, global_events, xcd_flags, abort, sched, held>>

\* The last arriver, after its writeback, adds the chiplet's whole share.
Publish(b) ==
  LET t == Current(b) IN
  /\ pc[b] = "publish"
  /\ global_events' = [global_events EXCEPT ![t.signal_event] = @ + t.signal_xcd_count]
  /\ Advance(b)
  /\ UNCHANGED <<host, xcd_flags, xcd_counters, abort, sched, held, arrived>>

Worker(b) ==
  \/ PassBoundary(b) \/ StartTask(b) \/ PassBodyWait(b)
  \/ Checkpoint(b) \/ GiveUp(b)
  \/ \E v \in Waves : SignalChunk(b, v)
  \/ ArriveRouter(b) \/ PublishTopk(b) \/ Signal(b) \/ Publish(b)

-----------------------------------------------------------------------------
(* run_scheduler.  Each global event belongs to one lane, which polls its  *)
(* counter and, in a later step, stores what it polled; lanes of different *)
(* waves interleave freely.  How often a lane polls within one pass of the *)
(* loop is left open.                                                      *)

PollGlobal(x, e) ==
  /\ sched[x] # "exit"
  /\ held[x][e] = xcd_flags[x][e]
  /\ global_events[e] # xcd_flags[x][e]
  /\ held' = [held EXCEPT ![x][e] = global_events[e]]
  /\ UNCHANGED <<host, global_events, xcd_flags, xcd_counters, abort, sched,
                 block, arrived>>

StoreFlag(x, e) ==
  /\ held[x][e] # xcd_flags[x][e]
  /\ xcd_flags' = [xcd_flags EXCEPT ![x][e] = held[x][e]]
  /\ UNCHANGED <<host, global_events, xcd_counters, abort, sched, held,
                 block, arrived>>

Relay(x, e) == PollGlobal(x, e) \/ StoreFlag(x, e)

\* Lane 0 sees the launch's last final event, or an abort.
done_target_early == epoch0 + n_tokens - 2      \* mutants: a token early,
done_target_late  == epoch0 + n_tokens          \* a token late,
done_target       == epoch0 + n_tokens - 1

DoneOnly == global_events[DoneEvent] >= done_target      \* and deaf to an abort
SeesStop == abort \/ global_events[DoneEvent] >= done_target

StopScheduler(x) ==
  /\ sched[x] = "run"
  /\ SeesStop
  /\ sched' = [sched EXCEPT ![x] = "stop"]
  /\ UNCHANGED <<host, global_events, xcd_flags, xcd_counters, abort, held,
                 block, arrived>>

\* __syncthreads at the end of the pass: every lane has stored what it polled.
ExitScheduler(x) ==
  /\ sched[x] = "stop"
  /\ \A e \in GlobalEvents : held[x][e] = xcd_flags[x][e]
  /\ sched' = [sched EXCEPT ![x] = "exit"]
  /\ UNCHANGED <<host, global_events, xcd_flags, xcd_counters, abort, held,
                 block, arrived>>

-----------------------------------------------------------------------------
(* The host: one launch after another on the same counters.                *)

KernelDone ==
  /\ \A b \in Blocks : pc[b] = "exit"
  /\ \A x \in Xcds : sched[x] = "exit"

Decoded == epoch0 + n_tokens - 1     \* tokens decoded when this launch ends

AtMostOneShort(m, n) == IF m < n THEN m ELSE n - 1      \* mutant: loses the last token
AtMost(m, n) == IF m < n THEN m ELSE n

\* Every workgroup at the start of a launch.
Start ==
  /\ tok'   = [b \in Blocks |-> 0]
  /\ slot'  = [b \in Blocks |-> 1]
  /\ pc'    = [b \in Blocks |-> IF Queue[b] = <<>> THEN "exit" ELSE "wait"]
  /\ spun'  = [b \in Blocks |-> FALSE]
  /\ inner' = [b \in Blocks |-> 0]
  /\ wave'  = [b \in Blocks |-> [v \in Waves |-> 0]]

NextLaunch ==
  /\ KernelDone
  /\ ~abort
  /\ Decoded < Tokens
  /\ epoch0' = epoch0 + n_tokens
  /\ n_tokens' = AtMost(PerLaunch, Tokens - Decoded)
  /\ Start
  /\ sched' = [x \in Xcds |-> "run"]
  /\ UNCHANGED <<xcd_counters, abort, held, arrived>>

RelaunchOnClearedMirrors ==      \* mutants: the host clears the mirrors,
  /\ NextLaunch
  /\ xcd_flags' = [x \in Xcds |-> [e \in Events |-> 0]]
  /\ UNCHANGED global_events

RelaunchOnClearedCounters ==     \* or the global counters, for the next launch
  /\ NextLaunch
  /\ global_events' = [e \in Events |-> 0]
  /\ UNCHANGED xcd_flags

Relaunch == NextLaunch /\ UNCHANGED <<global_events, xcd_flags>>

\* The host returns: every token is decoded, or a launch aborted.
Finished ==
  /\ KernelDone
  /\ abort \/ Decoded = Tokens
  /\ UNCHANGED vars

-----------------------------------------------------------------------------
Init ==
  /\ epoch0 = 1
  /\ n_tokens = AtMost(PerLaunch, Tokens)
  /\ global_events = [e \in Events |-> 0]
  /\ xcd_flags = [x \in Xcds |-> [e \in Events |-> 0]]
  /\ xcd_counters = [x \in Xcds |-> [e \in Events |-> 0]]
  /\ abort = FALSE
  /\ sched = [x \in Xcds |-> "run"]
  /\ held = [x \in Xcds |-> [e \in GlobalEvents |-> 0]]
  /\ pc = [b \in Blocks |-> IF Queue[b] = <<>> THEN "exit" ELSE "wait"]
  /\ tok = [b \in Blocks |-> 0]
  /\ slot = [b \in Blocks |-> 1]
  /\ spun = [b \in Blocks |-> FALSE]
  /\ inner = [b \in Blocks |-> 0]
  /\ wave = [b \in Blocks |-> [v \in Waves |-> 0]]
  /\ arrived = [e \in Events |-> {}]

Scheduler(x) ==
  \/ \E e \in GlobalEvents : Relay(x, e)
  \/ StopScheduler(x)
  \/ ExitScheduler(x)

Next ==
  \/ \E b \in Blocks : Worker(b)
  \/ \E x \in Xcds : Scheduler(x)
  \/ Relaunch
  \/ Finished

\* Cooperative launch: every workgroup is resident and keeps running, a
\* scheduler lane polls its events once per pass, and the host goes on.
Fairness ==
  /\ \A b \in Blocks : WF_vars(Worker(b))
  /\ \A x \in Xcds : WF_vars(Scheduler(x))
  /\ WF_vars(Relaunch)

Spec     == Init /\ [][Next]_vars
FairSpec == Spec /\ Fairness

-----------------------------------------------------------------------------
(* What the protocol promises.                                             *)

TypeOK ==
  /\ epoch0 \in Nat \ {0}
  /\ n_tokens \in Nat \ {0}
  /\ global_events \in [Events -> Nat]
  /\ xcd_flags \in [Xcds -> [Events -> Nat]]
  /\ xcd_counters \in [Xcds -> [Events -> Nat]]
  /\ abort \in BOOLEAN
  /\ sched \in [Xcds -> {"run", "stop", "exit"}]
  /\ held \in [Xcds -> [GlobalEvents -> Nat]]
  /\ pc \in [Blocks -> PCs]
  /\ \A b \in Blocks : pc[b] # "exit" => slot[b] \in DOMAIN Queue[b]
  /\ tok \in [Blocks -> Nat]
  /\ slot \in [Blocks -> Nat \ {0}]
  /\ spun \in [Blocks -> BOOLEAN]
  /\ inner \in [Blocks -> Nat]
  /\ wave \in [Blocks -> [Waves -> Nat]]
  /\ arrived \in [Events -> SUBSET ((TaskIds \X Waves) \X Nat)]

AllArrived(e, k) == \A p \in Producers[e] : <<p, k>> \in arrived[e]

\* A body never starts, and an in-body wait is never passed, before every
\* producer of the awaited event has counted for this very epoch
\* (wait_event's numeric target against counters that are never reset).
NoEarlyStart ==
  \A b \in Blocks : pc[b] \in Running =>
    LET t == Current(b)
        passed == IF pc[b] = "body" THEN ChunksRead(t) - 1 ELSE inner[b]
    IN  /\ t.wait_event # NoEvent => AllArrived(t.wait_event, Epoch(b))
        /\ "PUB_WAIT" \in t.flags /\ pc[b] = "body" /\ ~Smoke =>
             AllArrived(t.local_event, Epoch(b))
        /\ "CHUNK_WAIT" \in t.flags /\ ~Smoke =>
             \A c \in 1 .. passed : AllArrived(t.local_event + c, Epoch(b))

\* Token boundary: while a body of one epoch runs, no descriptor of an earlier
\* epoch is left unfinished anywhere, so two tokens never share the buffers.
TokensDoNotOverlap ==
  \A b, c \in Blocks : pc[b] \in Running /\ pc[c] # "exit" => Epoch(c) >= Epoch(b)

\* run_scheduler's argument for its own stop condition: once a scheduler has
\* seen the launch's last final event, no workgroup of its chiplet waits.
SchedulersLeaveLast ==
  \A x \in Xcds : sched[x] # "run" /\ ~abort =>
    \A b \in Blocks : b[1] = x => pc[b] \notin Waiting

\* A mirror never shows more than its scheduler lane has polled, nor the lane
\* more than the global counter: a worker released by its mirror would have
\* been released by the global counter too (run_scheduler).
MirrorsLag ==
  \A x \in Xcds, e \in GlobalEvents :
    xcd_flags[x][e] <= held[x][e] /\ held[x][e] <= global_events[e]

\* The global counter never shows more producers than have really counted,
\* although each chiplet adds its whole share at once (signal_event).
CountersHonest == \A e \in GlobalEvents : global_events[e] <= Cardinality(arrived[e])

\* A launch that ends without an abort has run every descriptor for every
\* token, and leaves each counter at exactly epoch x producers, which is what
\* the targets of the next launch assume.
CleanExit ==
  KernelDone /\ ~abort =>
    \A e \in Events :
      /\ \A k \in 1 .. Decoded : AllArrived(e, k)
      /\ \A x \in Xcds : xcd_counters[x][e] = Decoded * Cardinality(ProducersOn[x][e])
      /\ e \in GlobalEvents => global_events[e] = Decoded * Cardinality(Producers[e])

\* A scheduler lane stores a value it polled some time ago: the mirror still
\* never runs backwards, within a launch or from one launch to the next.
MirrorsOnlyGrow ==
  [][\A x \in Xcds, e \in Events : xcd_flags'[x][e] >= xcd_flags[x][e]]_vars

\* Behind all its counters, mirrors and launches the protocol is the order of
\* arrivals that DataflowOrder states, whether waits are abandoned or not.
TaskWaits    == [i \in TaskIds |-> WaitsOf(Desc[i])]
TaskOwner    == [i \in TaskIds |-> Owner(i)]
TaskPosition ==
  [i \in TaskIds |-> CHOOSE s \in DOMAIN Queue[Owner(i)] : Queue[Owner(i)][s] = i]

Order == INSTANCE DataflowOrder
         WITH Tasks <- TaskIds, Waits <- TaskWaits,
              Workgroup <- TaskOwner, Position <- TaskPosition

CountsInOrder == Order!Spec

\* Every token of every launch is decoded, unless a wait gives up.
AllTokensDecoded == <>(abort \/ (KernelDone /\ Decoded = Tokens))

\* Once one wait is abandoned every workgroup and every scheduler leaves.
AbortDrains == abort ~> KernelDone

=============================================================================
