-------------------------- MODULE GraphValidation --------------------------
(***************************************************************************)
(* validate() of src/host/taskgraph.py: the checks a finished graph passes *)
(* before it is let near the kernel.  The tool's list of messages is       *)
(* abstracted to which checks hold; an index outside the event table,      *)
(* which ends the tool with an exception, fails the check that looks it up.*)
(***************************************************************************)
EXTENDS TaskGraph

NoEvent == -1
InTable(g, e) == e \in 0 .. NextEvent(g) - 1
EventOf(g, e) == g.events[e + 1]
Flagged(g, f) == { i \in DOMAIN g.tasks : f \in g.tasks[i].flags }

\* The events of the K-chunks a descriptor names.
ChunkEvents(t) == t.local_event .. t.local_event + t.kv_chunk - 1

\* How often an event is signalled: by the waves of its chunk's gate_ups, by
\* its signalling tasks, one for each last-arriver group, and by the arrivals
\* the members of such a group and the routers count.
Signalled(g, e) ==
  LET last == { i \in Flagged(g, "SIGNAL_LAST") : g.tasks[i].signal_event # NoEvent }
      n(S) == Cardinality(S)
  IN  NWaves * n({ i \in Flagged(g, "CHUNK_SIGNAL") : e \in ChunkEvents(g.tasks[i]) })
      + n({ i \in DOMAIN g.tasks \ last : g.tasks[i].signal_event = e })
      + n({ i \in last : g.tasks[i].local_event = e })
      + n({ g.tasks[i].local_event : i \in { j \in last : g.tasks[j].signal_event = e } })
      + n({ i \in Flagged(g, "TOPK_PUBLISH") : g.tasks[i].local_event = e })

SignalledEnough(g, e) == Signalled(g, e) >= EventOf(g, e).producers      \* mutant: >= for =
SignalledExactly(g, e) == Signalled(g, e) = EventOf(g, e).producers

EveryEventSignalled(g) == \A e \in 0 .. NextEvent(g) - 1 : SignalledExactly(g, e)

ChunkEventsNamed(g) ==
  /\ \A i \in Flagged(g, "CHUNK_SIGNAL") :
       LET t == g.tasks[i] IN
       /\ t.local_event # NoEvent /\ t.kv_chunk >= 1
       /\ \A e \in ChunkEvents(t) : InTable(g, e)
  /\ \A i \in Flagged(g, "CHUNK_WAIT") :
       LET t == g.tasks[i] IN
       /\ t.local_event # NoEvent /\ t.wait_event = t.local_event /\ t.kv_chunk >= 1
       /\ \A e \in ChunkEvents(t) :
            InTable(g, e) /\ EventOf(g, e) = EventOf(g, t.local_event)

LastArriverGroups(g) ==
  \A i \in Flagged(g, "SIGNAL_LAST") :
    LET t == g.tasks[i]
        group == { j \in Flagged(g, "SIGNAL_LAST") :
                     /\ g.tasks[j].signal_event = t.signal_event
                     /\ g.tasks[j].local_event = t.local_event }
    IN  /\ InTable(g, t.local_event)
        /\ t.n_split = EventOf(g, t.local_event).producers
        /\ t.signal_event # NoEvent =>
             /\ EventOf(g, t.local_event).scope = "XCD_LOCAL"
             /\ Cardinality(group) = EventOf(g, t.local_event).producers

PublishedWaits(g) ==
  \A i \in Flagged(g, "PUB_WAIT") :
    /\ InTable(g, g.tasks[i].local_event)
    /\ EventOf(g, g.tasks[i].local_event) = [scope |-> "XCD_LOCAL", producers |-> NSlices]

-----------------------------------------------------------------------------
(* Local assembly: a REDUCE has the payload it copies as its only source   *)
(* and one arrival to announce, and every reader waits for its own copy.   *)

SourcesOf(g, e) ==
  { g.tasks[i].kind : i \in { j \in DOMAIN g.tasks : g.tasks[j].signal_event = e } }

\* The worker attended or published q_c in this layer.
AttentionWorkers(g, layer, xcd) == WorkerIds \ IdleWorkers(g, layer, xcd)

Assembles(head) ==
  CASE head = 0 -> {"O_PROJ"} [] head = 1 -> {"EXPERT_DOWN"} [] head = 2 -> {"QKV_FUSED"}
    [] OTHER -> {}

LocalFlags(t)    == t.flags \cap {"LOCAL_FOLD", "LOCAL_KVA"}
FlagOfCopy(head) == IF head = 2 THEN {"LOCAL_KVA"} ELSE {"LOCAL_FOLD"}

AssemblyOk(g, t) ==
  /\ Assembles(t.head) # {} /\ LocalFlags(t) = FlagOfCopy(t.head)
  /\ t.wait_event # NoEvent /\ t.signal_event # NoEvent
  /\ EventOf(g, t.wait_event).scope = "GLOBAL"
  /\ SourcesOf(g, t.wait_event) = Assembles(t.head)
  /\ EventOf(g, t.signal_event) = [scope |-> "XCD_LOCAL", producers |-> 1]
  /\ t.signal_scope = "XCD_LOCAL"
  /\ t.head = 2 => t.worker \notin AttentionWorkers(g, t.layer, t.xcd)

LocalReaderOk(g, t) ==
  LET head == CASE t.kind = "NORM_ROUTER" -> 0 [] t.kind \in {"QKV_FUSED", "LM_HEAD"} -> 1
                [] t.kind = "ATTENTION" -> 2 [] OTHER -> -1
  IN  /\ head # -1 /\ LocalFlags(t) = FlagOfCopy(head)
      /\ \E i \in DOMAIN g.tasks :
           LET pub == g.tasks[i] IN
           /\ pub.kind = "REDUCE" /\ pub.signal_event = t.wait_event
           /\ <<pub.head, pub.layer, pub.xcd>> = <<head, t.layer, t.xcd>>
      /\ t.wait_scope = "XCD_LOCAL" /\ t.wait_count = 1
      /\ head = 1 => "FOLD_PARTIALS" \in t.flags
      /\ head = 2 => {"KVA_SHARED", "PUB_WAIT"} \subseteq t.flags

LocalAssembly(g) ==
  \A i \in DOMAIN g.tasks :
    LET t == g.tasks[i] IN
    IF t.kind = "REDUCE" THEN AssemblyOk(g, t) ELSE LocalFlags(t) # {} => LocalReaderOk(g, t)

\* Row-split o_proj reads the whole of o.
RowSplitWaitsForAll(g) ==
  \A i \in Flagged(g, "OPROJ_ROW_SPLIT") :
    LET t == g.tasks[i] IN
    t.kind = "O_PROJ" =>
      t.wait_event # NoEvent /\ EventOf(g, t.wait_event).scope = "GLOBAL"

TopkCounted(g) ==
  \A i \in Flagged(g, "TOPK_PUBLISH") :
    g.tasks[i].local_event # NoEvent /\ g.tasks[i].n_split = NWorkers

-----------------------------------------------------------------------------
(* The per-XCD shares the last arrivers add to a global counter.           *)

Shares(g, e, x) ==
  { g.tasks[i].signal_xcd_count : i \in { j \in DOMAIN g.tasks :
      LET t == g.tasks[j] IN t.signal_event = e /\ t.xcd = x /\ t.signal_scope = "GLOBAL" } }

SharesAddUp(g) ==
  \A e \in { g.tasks[i].signal_event : i \in DOMAIN g.tasks } \ {NoEvent} :
    LET on == { x \in { g.tasks[i].xcd : i \in DOMAIN g.tasks } : Shares(g, e, x) # {} } IN
    /\ \A x \in on : Cardinality(Shares(g, e, x)) = 1
    /\ on # {} => MapThenSumSet(LAMBDA x : Max(Shares(g, e, x)), on) = EventOf(g, e).producers

-----------------------------------------------------------------------------
(* Queues and waits.                                                       *)

\* The descriptor in front of i in its worker's queue, or 0.
QueuePredecessor(g, i) ==
  Max({0} \cup { j \in 1 .. i - 1 : <<g.tasks[j].xcd, g.tasks[j].worker>>
                                       = <<g.tasks[i].xcd, g.tasks[i].worker>> })

RoutingInLds(g) ==
  \A i \in Flagged(g, "ROUTING_CACHED") :
    LET p == QueuePredecessor(g, i) IN
    p # 0 /\ g.tasks[p].kind = "EXPERT_GATE_UP" /\ g.tasks[p].layer = g.tasks[i].layer

WaitFieldsMatch(g) ==
  \A i \in DOMAIN g.tasks :
    LET t == g.tasks[i] IN
    t.wait_event # NoEvent =>
      [scope |-> t.wait_scope, producers |-> t.wait_count] = EventOf(g, t.wait_event)

Placed(g) ==
  \A i \in DOMAIN g.tasks : g.tasks[i].worker \in WorkerIds /\ g.tasks[i].xcd \in XcdIds

\* Everything descriptor t waits for, at its start or in its body.
WaitsOf(t) ==
  ({t.wait_event} \ {NoEvent})
    \cup (IF "CHUNK_WAIT" \in t.flags THEN ChunkEvents(t) ELSE {})
    \cup (IF "PUB_WAIT" \in t.flags THEN {t.local_event} ELSE {})

ProducersOf(g, e) ==
  { i \in DOMAIN g.tasks : \/ g.tasks[i].signal_event = e
                           \/ "CHUNK_SIGNAL" \in g.tasks[i].flags
                              /\ e \in ChunkEvents(g.tasks[i]) }

\* A queue is taken in order: every producer of what a descriptor waits for
\* stands before it in the graph.
ProducedEarlier(g) ==
  \A i \in DOMAIN g.tasks : \A e \in WaitsOf(g.tasks[i]) :
    ProducersOf(g, e) # {} /\ \A p \in ProducersOf(g, e) : p <= i

\* Who is on an event, as a signaller or by naming it for its body.
XcdsOf(g, e) ==
  { g.tasks[i].xcd : i \in { j \in DOMAIN g.tasks :
      LET t == g.tasks[j] IN
      \/ e \in {t.signal_event, t.local_event}
      \/ "CHUNK_SIGNAL" \in t.flags /\ e \in ChunkEvents(t) } }

LocalEventsStayLocal(g) ==
  /\ \A e \in 0 .. NextEvent(g) - 1 :
       EventOf(g, e).scope = "XCD_LOCAL" => Cardinality(XcdsOf(g, e)) <= 1
  /\ \A i \in DOMAIN g.tasks :
       LET t == g.tasks[i] IN
       t.wait_event # NoEvent /\ EventOf(g, t.wait_event).scope = "XCD_LOCAL" =>
         XcdsOf(g, t.wait_event) \subseteq {t.xcd}

Valid(g) ==
  /\ ChunkEventsNamed(g) /\ LastArriverGroups(g) /\ PublishedWaits(g)
  /\ LocalAssembly(g) /\ RowSplitWaitsForAll(g) /\ TopkCounted(g)
  /\ EveryEventSignalled(g) /\ SharesAddUp(g)
  /\ RoutingInLds(g) /\ WaitFieldsMatch(g) /\ Placed(g)
  /\ ProducedEarlier(g) /\ LocalEventsStayLocal(g)

=============================================================================
