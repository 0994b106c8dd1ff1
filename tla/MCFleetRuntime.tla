--------------------------- MODULE MCFleetRuntime ---------------------------
(***************************************************************************)
(* FleetRuntime on the graphs TaskGraph builds for a few chiplets and      *)
(* workers; the shape of the model and the graph options come from the cfg.*)
(***************************************************************************)
EXTENDS FleetRuntime

CONSTANTS
  NXcds, NWorkers,
  Layers, FirstKDense, Heads, KvChunks, TopK, KChunks, SplitWorkers, PrefetchTasks,
  GraphOptions

TG == INSTANCE TaskGraph WITH NSlices <- QAbsSlices

cfg == [ layers |-> Layers, first_k_dense |-> FirstKDense, heads |-> Heads,
         kv_chunks |-> KvChunks, top_k |-> TopK, n_chunks |-> KChunks,
         split_workers |-> SplitWorkers, prefetch_tasks |-> PrefetchTasks,
         options |-> GraphOptions ]

\* taskgraph.py refuses the other combinations of its local assembly options.
ASSUME OptionsAllowed ==
  TG!AssemblyAllowed(TG!assign_workers(TG!build_graph(cfg)), cfg)

MCGraph == TG!build(cfg)

\* (TLC gathers coverage through a definition that replaces a constant unless
\* it is a LET: these would have it expand the graph builder at every use.)
MCXcds         == 0 .. NXcds - 1
MCWorkers      == 0 .. NWorkers - 1
MCEvents       == LET g == MCGraph IN 0 .. Len(g.events) - 1
MCGlobalEvents == LET g == MCGraph
                  IN  { e \in MCEvents : g.events[e + 1].scope = "GLOBAL" }
MCDesc         == LET g == MCGraph IN g.tasks
MCDoneEvent    == LET g == MCGraph IN g.tasks[Len(g.tasks)].signal_event
MCQueue        == LET g == MCGraph IN TG!build_queues(g)

=============================================================================
