------------------------------ MODULE TaskGraph ------------------------------
(***************************************************************************)
(* The ahead-of-time task graph of src/host/taskgraph.py: the descriptors  *)
(* in emission order and the event table, for every graph option, the      *)
(* worker assignment and finalize().  A graph is a record of a sequence of *)
(* descriptors and a sequence of events; event ids count from 0, so event  *)
(* e is events[e + 1].                                                     *)
(*                                                                         *)
(* cfg: layers, first_k_dense, heads, kv_chunks, top_k, n_chunks (K-chunks *)
(* of a gate_up), split_workers, and options, the flags that are set.      *)
(***************************************************************************)
EXTENDS Integers, Sequences, FiniteSets, SequencesExt

CONSTANTS
  NXcds,         \* XCDS
  NWorkers,      \* WORKERS_PER_XCD
  NWaves,        \* WAVES
  NSlices        \* QABS_SLICES

Options == { "kva_shared", "qc_published", "topk_published", "oproj_row_split",
             "prefetch", "local_fold", "local_kva" }

XcdIds    == 0 .. NXcds - 1
WorkerIds == 0 .. NWorkers - 1

-----------------------------------------------------------------------------
(* Building blocks.  While it is built a graph also carries what the       *)
(* builders of taskgraph.py hand each other: per XCD the event the next    *)
(* block waits on (ready), and the layer's q/kv_a event (qkv).             *)

Everywhere(e) == [x \in XcdIds |-> e]

EmptyGraph == [tasks |-> <<>>, events |-> <<>>, ready |-> Everywhere(-1), qkv |-> Everywhere(-1)]

\* Task(kind, layer, xcd, wait_event, signal_event, scope) with the defaults.
Task(kind, layer, xcd, wait, sig, scope) ==
  [ kind |-> kind, layer |-> layer, xcd |-> xcd, worker |-> -1,
    wait_event |-> wait, wait_scope |-> "NONE", wait_count |-> 0,
    signal_event |-> sig, signal_scope |-> scope, signal_xcd_count |-> 0,
    local_event |-> -1, flags |-> {}, n_split |-> 1, head |-> -1,
    kv_chunk |-> -1, expert_slot |-> -1 ]

NextEvent(g) == Len(g.events)

\* What a block adds: its tasks, its events in the order of their ids, and
\* the events the next block waits on.
Emit(g, tasks, events, ready) ==
  [g EXCEPT !.tasks = @ \o tasks, !.events = @ \o events, !.ready = ready]

\* new_event, n times in a row with the same scope and producer count.
NewEvents(n, scope, producers) ==
  [i \in 1 .. n |-> [scope |-> scope, producers |-> producers]]

\* The sequence Op(0), ..., Op(n - 1).
Tabulate(n, Op(_)) == [i \in 1 .. n |-> Op(i - 1)]

\* Chiplet-tasks: one descriptor per worker of the group on every XCD, made
\* from that XCD's prototype; a proper sub-range of the workers makes it a
\* WORKER_GROUP.
AllWorkers == <<0, NWorkers>>
ChipletTask(proto, group) ==
  LET grouped(t) == IF group = AllWorkers THEN t
                    ELSE [t EXCEPT !.flags = @ \cup {"WORKER_GROUP"},
                                   !.head = group[1], !.n_split = group[2] - group[1]]
      on(x) == Tabulate(group[2] - group[1],
                 LAMBDA w : [grouped(proto[x]) EXCEPT !.xcd = x, !.worker = group[1] + w])
  IN  FlattenSeq(Tabulate(NXcds, on))

producers_of_one_xcd == NWorkers      \* mutant: the chiplets forgotten
chiplet_producers == NXcds * NWorkers

Flag(cond, f) == IF cond THEN {f} ELSE {}

-----------------------------------------------------------------------------
(* The blocks of a layer.                                                  *)

build_qkv(g, layer, fold, cfg) ==
  LET shared   == "kva_shared" \in cfg.options
      scope    == IF shared THEN "GLOBAL" ELSE "XCD_LOCAL"
      signal   == [x \in XcdIds |-> IF shared THEN NextEvent(g) ELSE NextEvent(g) + x]
      qkv      == [x \in XcdIds |->
                    [Task("QKV_FUSED", layer, x, g.ready[x], signal[x], scope) EXCEPT
                       !.flags = Flag(fold, "FOLD_PARTIALS") \cup Flag(shared, "KVA_SHARED")]]
      events   == IF shared THEN NewEvents(1, "GLOBAL", chiplet_producers)
                            ELSE NewEvents(NXcds, "XCD_LOCAL", NWorkers)
  IN  [Emit(g, ChipletTask(qkv, AllWorkers), events, signal) EXCEPT !.qkv = signal]

\* Row-split o_proj reads every head, so its merge event is global.
MergedPerXcd(cfg) == FALSE      \* mutant: one local merge event per XCD all the same
MergedGlobally(cfg) == "oproj_row_split" \in cfg.options

\* q_c publishers (one event per head), attention (one event per head), and
\* the merge spread over kv_chunks tasks per head.
build_attention(g, layer, cfg) ==
  LET rowSplit  == MergedGlobally(cfg)
      published == "qc_published" \in cfg.options
      perXcd    == cfg.heads \div NXcds
      XcdOf(h)  == h \div perXcd
      nMerge    == IF rowSplit THEN 1 ELSE NXcds
      mscope    == IF rowSplit THEN "GLOBAL" ELSE "XCD_LOCAL"
      merged    == [x \in XcdIds |-> IF rowSplit THEN NextEvent(g) ELSE NextEvent(g) + x]
      e_qabs(h) == NextEvent(g) + nMerge + h
      e_attn(h) == e_qabs(h) + (IF published THEN cfg.heads ELSE 0)
      qabs(h, s) == [Task("Q_ABSORB", layer, XcdOf(h), g.qkv[XcdOf(h)], e_qabs(h), "XCD_LOCAL")
                       EXCEPT !.head = h, !.kv_chunk = s, !.n_split = NSlices]
      attn(h, c) == [Task("ATTENTION", layer, XcdOf(h), g.qkv[XcdOf(h)], e_attn(h), "XCD_LOCAL")
                       EXCEPT !.head = h, !.kv_chunk = c, !.n_split = cfg.kv_chunks,
                              !.local_event = IF published THEN e_qabs(h) ELSE -1,
                              !.flags = Flag("kva_shared" \in cfg.options, "KVA_SHARED")
                                          \cup Flag(published, "PUB_WAIT")]
      merge(h, c) == [Task("MERGE_UV", layer, XcdOf(h), e_attn(h), merged[XcdOf(h)], mscope)
                        EXCEPT !.head = h, !.kv_chunk = c, !.n_split = cfg.kv_chunks]
      perHead(n, Op(_, _)) ==
        FlattenSeq(Tabulate(cfg.heads, LAMBDA h : Tabulate(n, LAMBDA c : Op(h, c))))
  IN  Emit(g,
           (IF published THEN perHead(NSlices, qabs) ELSE <<>>)
             \o perHead(cfg.kv_chunks, attn) \o perHead(cfg.kv_chunks, merge),
           NewEvents(nMerge, mscope, (IF rowSplit THEN cfg.heads ELSE perXcd) * cfg.kv_chunks)
             \o NewEvents(IF published THEN cfg.heads ELSE 0, "XCD_LOCAL", NSlices)
             \o NewEvents(cfg.heads, "XCD_LOCAL", cfg.kv_chunks),
           merged)

\* Idle-worker prefetch; it signals nothing.  The slice bookkeeping and the
\* 5 + 16 tasks of an XCD are abstracted to cfg.prefetch_tasks of them.
build_prefetch(g, layer, cfg) ==
  IF "prefetch" \notin cfg.options THEN g
  ELSE LET slice(x) == Task("PREFETCH", layer, x, g.qkv[x], -1, "NONE")
       IN  Emit(g, FlattenSeq(Tabulate(NXcds, LAMBDA x :
                     Tabulate(cfg.prefetch_tasks, LAMBDA i : slice(x)))),
                <<>>, g.ready)

build_o_proj(g, layer, cfg) ==
  LET oproj == [x \in XcdIds |->
                 [Task("O_PROJ", layer, x, g.ready[x], NextEvent(g), "GLOBAL") EXCEPT
                    !.flags = Flag("oproj_row_split" \in cfg.options, "OPROJ_ROW_SPLIT")]]
  IN  Emit(g, ChipletTask(oproj, AllWorkers), NewEvents(1, "GLOBAL", chiplet_producers),
           Everywhere(NextEvent(g)))

\* The part a dense and an MoE layer share: q/kv_a up to o_proj.
AttentionPart(g, layer, fold, cfg) ==
  build_o_proj(
    build_prefetch(
      build_attention(build_qkv(g, layer, fold, cfg), layer, cfg),
      layer, cfg),
    layer, cfg)

\* Post-attention norm and router, one chiplet-task per XCD; with
\* topk_published every XCD has an arrival counter after its norm event.
NormRouter(g, layer, moe, cfg) ==
  LET publish == moe /\ "topk_published" \in cfg.options
      step    == IF publish THEN 2 ELSE 1
      normed  == [x \in XcdIds |-> NextEvent(g) + step * x]
      norm    == [x \in XcdIds |->
                   [Task("NORM_ROUTER", layer, x, g.ready[x], normed[x], "XCD_LOCAL") EXCEPT
                      !.local_event = IF publish THEN normed[x] + 1 ELSE -1,
                      !.n_split = IF moe THEN NWorkers ELSE 1,
                      !.flags = Flag(publish, "TOPK_PUBLISH") \cup
                                Flag("oproj_row_split" \in cfg.options, "OPROJ_ROW_SPLIT")]]
  IN  Emit(g, ChipletTask(norm, AllWorkers),
           NewEvents(step * NXcds, "XCD_LOCAL", NWorkers), normed)

\* Expert gate_up and down: one event per K-chunk of an XCD between them.
Experts(g, layer, cfg) ==
  LET split   == cfg.split_workers > 0
      gu      == IF split THEN <<0, cfg.split_workers>> ELSE AllWorkers
      dn      == IF split THEN <<cfg.split_workers, NWorkers>> ELSE AllWorkers
      read    == Flag("topk_published" \in cfg.options, "TOPK_READ")
      chunk0(x) == NextEvent(g) + x * cfg.n_chunks
      e_down  == chunk0(NXcds)
      expert(x) == IF x < cfg.top_k THEN x ELSE -(x - cfg.top_k + 1)
      unit(t, x, flags) == [t EXCEPT !.expert_slot = expert(x), !.local_event = chunk0(x),
                                     !.kv_chunk = cfg.n_chunks, !.flags = flags \cup read]
      gate_up == [x \in XcdIds |->
                   unit(Task("EXPERT_GATE_UP", layer, x, g.ready[x], -1, "NONE"), x,
                        {"CHUNK_SIGNAL"})]
      down    == [x \in XcdIds |->
                   unit(Task("EXPERT_DOWN", layer, x, chunk0(x), e_down, "GLOBAL"), x,
                        {"CHUNK_WAIT"} \cup Flag(~split, "ROUTING_CACHED"))]
  IN  Emit(g, ChipletTask(gate_up, gu) \o ChipletTask(down, dn),
           NewEvents(NXcds * cfg.n_chunks, "XCD_LOCAL", (gu[2] - gu[1]) * NWaves)
             \o NewEvents(1, "GLOBAL", NXcds * (dn[2] - dn[1])),
           Everywhere(e_down))

build_moe_layer(g, layer, fold, cfg) ==
  Experts(NormRouter(AttentionPart(g, layer, fold, cfg), layer, TRUE, cfg), layer, cfg)

\* The dense MLP: gate_up and down both need the whole of h.
DenseMlp(g, layer) ==
  LET e == NextEvent(g)
      gate_up == [x \in XcdIds |-> Task("DENSE_GATE_UP", layer, x, g.ready[x], e, "GLOBAL")]
      down    == [x \in XcdIds |-> Task("DENSE_DOWN", layer, x, e, e + 1, "GLOBAL")]
  IN  Emit(g, ChipletTask(gate_up, AllWorkers) \o ChipletTask(down, AllWorkers),
           NewEvents(2, "GLOBAL", chiplet_producers), Everywhere(e + 1))

build_dense_layer(g, layer, fold, cfg) ==
  DenseMlp(NormRouter(AttentionPart(g, layer, fold, cfg), layer, FALSE, cfg), layer)

Embed(g) == Emit(g, <<Task("EMBED", -1, 0, -1, NextEvent(g), "GLOBAL")>>,
                 NewEvents(1, "GLOBAL", 1), Everywhere(NextEvent(g)))

LmHead(g, fold) ==
  LET e  == NextEvent(g)
      lm == [x \in XcdIds |-> [Task("LM_HEAD", -1, x, g.ready[x], e, "GLOBAL") EXCEPT
                                 !.flags = Flag(fold, "FOLD_PARTIALS")]]
  IN  Emit(g, ChipletTask(lm, AllWorkers) \o <<Task("ARGMAX", -1, 0, e, e + 1, "GLOBAL")>>,
           NewEvents(1, "GLOBAL", chiplet_producers) \o NewEvents(1, "GLOBAL", 1),
           Everywhere(e + 1))

build_graph(cfg) ==
  LET moe(l)   == l >= cfg.first_k_dense
      after(l) == l > 0 /\ moe(l - 1)      \* the block before layer l was MoE
      layer(g, l) == IF moe(l) THEN build_moe_layer(g, l, after(l), cfg)
                               ELSE build_dense_layer(g, l, after(l), cfg)
  IN  LmHead(FoldLeft(layer, Embed(EmptyGraph), Tabulate(cfg.layers, LAMBDA l : l)),
             after(cfg.layers))

-----------------------------------------------------------------------------
\* Round-robin of the unpinned tasks within each XCD, in emission order.
assign_workers(g) ==
  LET place(acc, t) ==
        IF t.worker >= 0 THEN [acc EXCEPT !.tasks = Append(@, t)]
        ELSE [acc EXCEPT !.tasks = Append(@, [t EXCEPT !.worker = acc.cursor[t.xcd] % NWorkers]),
                         !.cursor[t.xcd] = @ + 1]
      start == [tasks |-> <<>>, cursor |-> [x \in XcdIds |-> 0]]
  IN  [g EXCEPT !.tasks = FoldLeft(place, start, @).tasks]

\* What a descriptor wants republished on its own XCD: 0, the residual folded
\* from the o_proj partials; 1, from the expert partials; 2, kv_a.
NotLocal == -1
Variant(t, cfg) ==
  CASE "local_fold" \in cfg.options /\ t.kind = "NORM_ROUTER" -> 0
    [] /\ "local_fold" \in cfg.options
       /\ t.kind \in {"QKV_FUSED", "LM_HEAD"}
       /\ "FOLD_PARTIALS" \in t.flags -> 1
    [] "local_kva" \in cfg.options /\ t.kind = "ATTENTION" -> 2
    [] OTHER -> NotLocal

\* Workers of an XCD with neither an attention nor a q_c task in a layer.
IdleWorkers(g, layer, xcd) ==
  WorkerIds \ { g.tasks[j].worker : j \in { i \in DOMAIN g.tasks :
                   /\ g.tasks[i].kind \in {"Q_ABSORB", "ATTENTION"}
                   /\ g.tasks[i].layer = layer /\ g.tasks[i].xcd = xcd } }

\* The option combinations add_local_assembly accepts.  The 16 heads and 16
\* chunks it also asks for are what leaves one idle worker of the real 37.
AssemblyAllowed(g, cfg) ==
  /\ "local_fold" \in cfg.options =>
       "kva_shared" \in cfg.options /\ "oproj_row_split" \notin cfg.options
  /\ "local_kva" \in cfg.options =>
       /\ {"kva_shared", "qc_published"} \subseteq cfg.options
       /\ \A l \in 0 .. cfg.layers - 1, x \in XcdIds : Cardinality(IdleWorkers(g, l, x)) = 1

\* A reader of the copy its XCD republishes on local event e.
ReaderStillOnOriginal(t, e, flag) == [t EXCEPT !.flags = @ \cup flag]      \* mutant
LocalReader(t, e, flag) == [t EXCEPT !.wait_event = e, !.flags = @ \cup flag]

\* After the assignment: ahead of the first descriptor of a (layer, variant),
\* one REDUCE per XCD that waits where that descriptor waited and signals a
\* local event, on which every descriptor of the pair then waits instead.
add_local_assembly(g, cfg) ==
  LET key(i)     == <<g.tasks[i].layer, Variant(g.tasks[i], cfg)>>
      wanted     == { i \in DOMAIN g.tasks : Variant(g.tasks[i], cfg) # NotLocal }
      first      == { i \in wanted : \A j \in wanted : key(j) = key(i) => i <= j }
      \* publications get their events in the order they are first wanted
      events(i)  == NextEvent(g) + NXcds * Cardinality({ j \in first :
                      \E f \in first : key(f) = key(i) /\ j < f })
      flag(i)    == {IF key(i)[2] = 2 THEN "LOCAL_KVA" ELSE "LOCAL_FOLD"}
      reduce(i, x) ==
        [Task("REDUCE", g.tasks[i].layer, x, g.tasks[i].wait_event, events(i) + x, "XCD_LOCAL")
           EXCEPT !.head = key(i)[2], !.flags = flag(i),
                  !.worker = IF key(i)[2] = 2
                             THEN CHOOSE w \in IdleWorkers(g, g.tasks[i].layer, x) : TRUE
                             ELSE 0]
      rewired(i) == LocalReader(g.tasks[i], events(i) + g.tasks[i].xcd, flag(i))
      emitted(i) == (IF i \in first THEN Tabulate(NXcds, LAMBDA x : reduce(i, x)) ELSE <<>>)
                      \o <<IF i \in wanted THEN rewired(i) ELSE g.tasks[i]>>
  IN  Emit([g EXCEPT !.tasks = <<>>], FlattenSeq([i \in DOMAIN g.tasks |-> emitted(i)]),
           NewEvents(NXcds * Cardinality(first), "XCD_LOCAL", 1), g.ready)

\* The waited event's scope and producers on the waiter, and the producers
\* of an event on one XCD on each of them.
finalize(g) ==
  LET ts == g.tasks
      share(t) == Cardinality({ j \in DOMAIN ts :
                    ts[j].signal_event = t.signal_event /\ ts[j].xcd = t.xcd })
      waits(t) == IF t.wait_event = -1 THEN t
                  ELSE [t EXCEPT !.wait_scope = g.events[t.wait_event + 1].scope,
                                 !.wait_count = g.events[t.wait_event + 1].producers]
      signals(t) == IF t.signal_event = -1 THEN t
                    ELSE [t EXCEPT !.signal_xcd_count = share(t)]
  IN  [g EXCEPT !.tasks = [i \in DOMAIN ts |-> signals(waits(ts[i]))]]

build(cfg) == finalize(add_local_assembly(assign_workers(build_graph(cfg)), cfg))

\* The launcher's build_queues: per workgroup, its descriptors in graph order.
build_queues(g) ==
  [b \in XcdIds \X WorkerIds |->
     SelectSeq(Tabulate(Len(g.tasks), LAMBDA i : i + 1),
               LAMBDA i : <<g.tasks[i].xcd, g.tasks[i].worker>> = b)]

=============================================================================
