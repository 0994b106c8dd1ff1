--------------------------- MODULE DataflowOrder ----------------------------
(***************************************************************************)
(* What FleetRuntime promises to whoever writes a task graph, without      *)
(* counters, mirrors, schedulers or launches: producers make their         *)
(* arrivals one token after the other, each once per token, in the order   *)
(* of their workgroup's queue, and none before all that its task waits for *)
(* is complete for that token, and all that anyone waits for is complete   *)
(* for the tokens before it.                                               *)
(***************************************************************************)
EXTENDS Naturals

CONSTANTS
  Tokens,     \* tokens to decode
  Events, Tasks, Waves,
  Producers,  \* per event, the <<task, wave>> pairs that arrive at it
  Waits,      \* per task, the events it waits for
  Awaited,    \* all the events anyone waits for
  Workgroup,  \* per task, the workgroup that runs it,
  Position    \* and its place in that workgroup's queue

VARIABLE arrived    \* per event, the <<<<task, wave>>, token>> arrivals so far

\* The waves of task i that arrive at event e.
Arriving(e, i) == { v \in Waves : <<i, v>> \in Producers[e] }

Complete(e, k) == \A p \in Producers[e] : <<p, k>> \in arrived[e]

Released(i, k) ==
  /\ \A e \in Waits[i] : Complete(e, k)
  /\ \A e \in Awaited, j \in 1 .. k - 1 : Complete(e, j)

\* The workgroup of task i is not past it: nothing it has done comes later.
NotPast(i, k) ==
  \A e \in Events : \A a \in arrived[e] :
    Workgroup[a[1][1]] = Workgroup[i] =>
      a[2] < k \/ (a[2] = k /\ Position[a[1][1]] <= Position[i])

\* Waves V of task i arrive together at event e, for token k.
Arrive(e, i, k, V) ==
  /\ \A v \in V : <<<<i, v>>, k>> \notin arrived[e]
  /\ Released(i, k)
  /\ NotPast(i, k)
  /\ arrived' = [arrived EXCEPT ![e] = @ \cup { <<<<i, v>>, k>> : v \in V }]

Init == arrived = [e \in Events |-> {}]

Next == \E e \in Events, i \in Tasks :
          \E V \in (SUBSET Arriving(e, i)) \ {{}}, k \in 1 .. Tokens : Arrive(e, i, k, V)

Spec == Init /\ [][Next]_arrived

=============================================================================
