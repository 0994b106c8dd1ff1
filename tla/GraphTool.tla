----------------------------- MODULE GraphTool -----------------------------
(***************************************************************************)
(* From the command line to a drained kernel: taskgraph.py's main()        *)
(* (load_cfg, build, emit, validate, exit code), the launcher's checks of  *)
(* the file, and one token of the kernel on it.  Between the steps of      *)
(* build() the graph may be edited in one place, the way a change to the   *)
(* builder could break it.                                                 *)
(*                                                                         *)
(* The kernel runs in passes: every scheduler refreshes its mirror, then   *)
(* each workgroup in turn runs its next descriptor if its waits are        *)
(* satisfied.  FleetRuntime has the protocol's interleavings.              *)
(***************************************************************************)
EXTENDS GraphValidation

CONSTANTS
  CommandLines,   \* the argument records main() is called with
  EditedLines,    \* those whose graph may be edited, and
  EditedFields,   \* the fields an edit may touch
  Orders          \* the orders workgroups take their turns in

VARIABLES
  cfg,        \* what load_cfg returned
  graph,      \* the graph in memory
  edited,     \* the field an edit touched, or "none"
  phase,      \* where the tool is: "build", "finalize", "emit", "validate", "exit"
  exit,       \* its exit code, -1 while it runs
  file,       \* the emitted graph, or NoFile
  kernel      \* the launch: order, queue positions and counters, or NoLaunch

vars == <<cfg, graph, edited, phase, exit, file, kernel>>

NoFile   == EmptyGraph
NoLaunch == [order |-> "none"]

-----------------------------------------------------------------------------
(* The tool.                                                               *)

chunks_ceil(a) == (a.moe_inter + a.k_chunk - 1) \div a.k_chunk

load_cfg(a) ==
  [ layers |-> a.layers, first_k_dense |-> a.first_k_dense, heads |-> a.heads,
    kv_chunks |-> a.kv_chunks, top_k |-> a.top_k, n_chunks |-> chunks_ceil(a),
    split_workers |-> a.split_workers, prefetch_tasks |-> a.prefetch_tasks,
    options |-> a.options ]

\* build() up to finalize(); add_local_assembly raises ValueError on an
\* option combination it does not support, and argparse exits with 2.
Build ==
  /\ phase = "build"
  /\ LET g == assign_workers(build_graph(cfg))
     IN  IF AssemblyAllowed(g, cfg)
         THEN /\ graph' = add_local_assembly(g, cfg)
              /\ phase' = "finalize" /\ UNCHANGED exit
         ELSE /\ phase' = "exit" /\ exit' = 2 /\ UNCHANGED graph
  /\ UNCHANGED <<cfg, edited, file, kernel>>

Finalize ==
  /\ phase = "finalize"
  /\ graph' = finalize(graph)
  /\ phase' = "emit"
  /\ UNCHANGED <<cfg, edited, exit, file, kernel>>

\* main() writes the file before it validates.
EmitFile ==
  /\ phase = "emit"
  /\ file' = graph
  /\ phase' = "validate"
  /\ UNCHANGED <<cfg, graph, edited, exit, kernel>>

Validate ==
  /\ phase = "validate"
  /\ exit' = IF Valid(graph) THEN 0 ELSE 1
  /\ phase' = "exit"
  /\ UNCHANGED <<cfg, graph, edited, file, kernel>>

-----------------------------------------------------------------------------
(* One edit of one field of one descriptor or event.                       *)

Events   == -1 .. NextEvent(graph) - 1
Flipped(scope) == IF scope = "GLOBAL" THEN "XCD_LOCAL" ELSE "GLOBAL"
Near(v)  == {v - 1, v + 1}

EditedValues(t, f) ==
  CASE f \in {"wait_event", "signal_event", "local_event"} -> Near(t[f]) \cap Events
    [] f \in {"wait_scope", "signal_scope"} -> IF t[f] = "NONE" THEN {} ELSE {Flipped(t[f])}
    [] f = "flags" -> { t.flags \ {flag} : flag \in t.flags }
    [] OTHER -> Near(t[f])

EditTask ==
  \E f \in EditedFields \cap DOMAIN graph.tasks[1] : \E i \in DOMAIN graph.tasks :
    /\ \E v \in EditedValues(graph.tasks[i], f) : graph' = [graph EXCEPT !.tasks[i][f] = v]
    /\ edited' = f

EditEvent ==
  \E e \in DOMAIN graph.events :
    \/ /\ "producers" \in EditedFields
       /\ \E v \in Near(graph.events[e].producers) :
            graph' = [graph EXCEPT !.events[e].producers = v]
       /\ edited' = "producers"
    \/ /\ "scope" \in EditedFields
       /\ graph' = [graph EXCEPT !.events[e].scope = Flipped(@)]
       /\ edited' = "scope"

Edit ==
  /\ phase \in {"finalize", "emit"}
  /\ edited = "none"
  /\ \E a \in EditedLines : cfg = load_cfg(a)
  /\ EditTask \/ EditEvent
  /\ UNCHANGED <<cfg, phase, exit, file, kernel>>

-----------------------------------------------------------------------------
(* The launcher and the kernel.                                            *)

Blocks == XcdIds \X WorkerIds

\* Mirrored are the events some descriptor signals with global scope; the
\* last descriptor is the argmax and its event one of them.
GlobalIds(g) ==
  { g.tasks[i].signal_event : i \in { j \in DOMAIN g.tasks :
      g.tasks[j].signal_event # NoEvent /\ g.tasks[j].signal_scope = "GLOBAL" } }

LauncherAccepts(g) ==
  LET final == g.tasks[Len(g.tasks)]
  IN  final.kind = "ARGMAX" /\ final.signal_event \in GlobalIds(g)

Launch ==
  /\ exit = 0 /\ kernel = NoLaunch
  /\ LauncherAccepts(file)
  /\ \E o \in Orders :
       kernel' = [ order |-> o, queues |-> build_queues(file), at |-> [b \in Blocks |-> 1],
                   xcd_counters |-> [x \in XcdIds |-> [e \in 0 .. NextEvent(file) - 1 |-> 0]],
                   global_events |-> [e \in 0 .. NextEvent(file) - 1 |-> 0] ]
  /\ UNCHANGED <<cfg, graph, edited, phase, exit, file>>

\* wait_event for the descriptor's event and for those its body waits on.
Satisfied(k, mirror, t) ==
  LET count(e, scope) == IF scope = "XCD_LOCAL" THEN k.xcd_counters[t.xcd][e] ELSE mirror[e]
  IN  /\ t.wait_event # NoEvent => count(t.wait_event, t.wait_scope) >= t.wait_count
      /\ "CHUNK_WAIT" \in t.flags =>
           \A e \in ChunkEvents(t) : count(e, t.wait_scope) >= t.wait_count
      /\ "PUB_WAIT" \in t.flags => count(t.local_event, "XCD_LOCAL") >= NSlices

\* The body's counts, then signal_event with its last-arriver rule.
Run(k, t) ==
  LET body(e) == (IF "CHUNK_SIGNAL" \in t.flags /\ e \in ChunkEvents(t) THEN NWaves ELSE 0)
                 + (IF "TOPK_PUBLISH" \in t.flags /\ e = t.local_event THEN 1 ELSE 0)
                 + (IF e = t.signal_event THEN 1 ELSE 0)
      counted == [k EXCEPT !.xcd_counters[t.xcd] = [e \in DOMAIN @ |-> @[e] + body(e)]]
      last == /\ t.signal_event # NoEvent /\ t.signal_scope = "GLOBAL"
              /\ counted.xcd_counters[t.xcd][t.signal_event] = t.signal_xcd_count
  IN  IF last THEN [counted EXCEPT !.global_events[t.signal_event] = @ + t.signal_xcd_count]
              ELSE counted

Turn(k, mirror, b) ==
  IF k.at[b] > Len(k.queues[b]) THEN k
  ELSE LET t == file.tasks[k.queues[b][k.at[b]]]
       IN  IF Satisfied(k, mirror, t) THEN [Run(k, t) EXCEPT !.at[b] = @ + 1] ELSE k

InTurn(order) ==
  LET n == NXcds * NWorkers
      block(i) == <<i \div NWorkers, i % NWorkers>>
  IN  Tabulate(n, LAMBDA i : block(IF order = "reverse" THEN n - 1 - i ELSE i))

AfterPass(k) ==
  FoldLeft(LAMBDA j, b : Turn(j, k.global_events, b), k, InTurn(k.order))

Pass ==
  /\ kernel # NoLaunch
  /\ kernel' = AfterPass(kernel)
  /\ kernel' # kernel
  /\ UNCHANGED <<cfg, graph, edited, phase, exit, file>>

-----------------------------------------------------------------------------
Init ==
  /\ \E a \in CommandLines : cfg = load_cfg(a)
  /\ graph = EmptyGraph /\ file = NoFile
  /\ edited = "none" /\ phase = "build" /\ exit = -1
  /\ kernel = NoLaunch

\* The tool or the launcher refused, or the kernel has no more to do (a
\* workgroup that waits for ever reaches its spin limit, which ends the launch).
Finished ==
  /\ phase = "exit"
  /\ IF kernel = NoLaunch THEN exit # 0 ELSE AfterPass(kernel) = kernel
  /\ UNCHANGED vars

Refused ==
  /\ exit = 0 /\ kernel = NoLaunch /\ ~LauncherAccepts(file)
  /\ UNCHANGED vars

Next == Build \/ Edit \/ Finalize \/ EmitFile \/ Validate \/ Launch \/ Pass \/ Finished \/ Refused

Spec == Init /\ [][Next]_vars

-----------------------------------------------------------------------------
(* The builder and the validator are two accounts of the same graph, and   *)
(* the kernel is the third.                                                *)

\* What every supported option combination builds passes every check of
\* validate() and of the launcher: the builder's producer counts, orders and
\* scopes agree with the validator's independent recount.
BuiltGraphsAreValid ==
  phase = "exit" /\ exit # 2 /\ edited = "none" => exit = 0 /\ LauncherAccepts(file)

\* What validate() does not look at: a waiter that is itself the last producer
\* of what it waits for, the scope a signal or an arrival has against the
\* event's, a share against the producers its XCD really has, and whose chunk
\* events a down task consumes.
WaitsEarlier(g) ==
  \A i \in DOMAIN g.tasks : \A e \in WaitsOf(g.tasks[i]) :
    \A p \in ProducersOf(g, e) : p < i
ScopesAgree(g) ==
  \A i \in DOMAIN g.tasks :
    LET t == g.tasks[i] IN
    /\ t.signal_event # NoEvent => t.signal_scope = EventOf(g, t.signal_event).scope
    /\ "CHUNK_SIGNAL" \in t.flags =>
         \A e \in ChunkEvents(t) : EventOf(g, e).scope = "XCD_LOCAL"
    /\ "TOPK_PUBLISH" \in t.flags => EventOf(g, t.local_event).scope = "XCD_LOCAL"
SharesAreArrivals(g) ==
  \A i \in DOMAIN g.tasks :
    LET t == g.tasks[i] IN
    t.signal_scope = "GLOBAL" =>
      t.signal_xcd_count = Cardinality({ j \in DOMAIN g.tasks :
        g.tasks[j].signal_event = t.signal_event /\ g.tasks[j].xcd = t.xcd })
ChunksAreLocal(g) ==
  \A i \in Flagged(g, "CHUNK_WAIT") : \A e \in ChunkEvents(g.tasks[i]) :
    XcdsOf(g, e) = {g.tasks[i].xcd}

Drained(k) == \A b \in Blocks : k.at[b] > Len(k.queues[b])

\* With those four checked too, an accepted graph never hangs the kernel,
\* whichever edit produced it: when no workgroup can go on, every queue is
\* empty, and each event stands at exactly its producer count, so that the
\* next token starts right.
AcceptedGraphsDrain ==
  /\ kernel # NoLaunch /\ AfterPass(kernel) = kernel
  /\ WaitsEarlier(file) /\ ScopesAgree(file) /\ SharesAreArrivals(file) /\ ChunksAreLocal(file)
  =>
    /\ Drained(kernel)
    /\ \A e \in 0 .. NextEvent(file) - 1 :
         LET ev == EventOf(file, e) IN
         /\ ev.producers = MapThenSumSet(LAMBDA x : kernel.xcd_counters[x][e], XcdIds)
         /\ ev.scope = "GLOBAL" => kernel.global_events[e] = ev.producers

\* What the comment on the ordering check of validate() says: an accepted task
\* waits only on events all of whose producers stand earlier in the queue.
AcceptedWaitsAreEarlier == exit = 0 => WaitsEarlier(graph)

=============================================================================
