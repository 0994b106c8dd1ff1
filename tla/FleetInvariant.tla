--------------------------- MODULE FleetInvariant ---------------------------
(***************************************************************************)
(* The inductive invariant behind the safety properties of FleetRuntime:   *)
(* what the counters stand for.  The kernel keeps numbers that are never   *)
(* reset; the parts below say which arrivals a number is made of (Counts), *)
(* that these are exactly the ones of the bodies already behind or under   *)
(* way (Fresh, Kept, NothingSkipped), and that no arrival of an epoch is   *)
(* made before the epochs ahead of it are settled (Gates), nor before the  *)
(* waits of its task are over (WaitsOver).                                 *)
(***************************************************************************)
EXTENDS FleetRuntime

Started == Running \cup {"publish"}

\* Task i of epoch k is behind its workgroup; its workgroup is at task i now.
Behind(i, k) ==
  LET b == Owner(i) IN
  \/ k < Epoch(b)
  \/ k = Epoch(b) /\ \E s \in DOMAIN Queue[b] : Queue[b][s] = i /\ s < slot[b]

Here(b)   == Queue[b][slot[b]]
AtTask(i) == LET b == Owner(i) IN slot[b] \in DOMAIN Queue[b] /\ Here(b) = i

\* Of a task its workgroup is at: producer p has made its arrival on e.
HasCounted(p, e) ==
  LET t == Desc[p[1]]
      b == Owner(p[1])
  IN  \/ \E c \in 0 .. Chunks(t) - 1, w \in Signallers :
           e = t.local_event + c /\ p[2] \in SignalledBy(w) /\ c < wave[b][w]
      \/ p[2] = 0 /\ CountsTopk(t) /\ t.local_event = e /\ pc[b] \in {"topk", "body", "publish"}
      \/ p[2] = 0 /\ t.signal_event = e /\ pc[b] = "publish"

\* Every arrival in the history is one of a producer of its event, made at an
\* epoch behind its workgroup or by the body the workgroup is in.
Fresh ==
  \A e \in Events :
    /\ IsFiniteSet(arrived[e])
    /\ \A a \in arrived[e] :
         /\ a[1] \in Producers[e] /\ a[2] >= 1
         /\ \/ Behind(a[1][1], a[2])
            \/ AtTask(a[1][1]) /\ a[2] = Epoch(Owner(a[1][1])) /\ HasCounted(a[1], e)

Kept ==
  \A e \in Events : \A p \in Producers[e] :
    AtTask(p[1]) /\ HasCounted(p, e) => <<p, Epoch(Owner(p[1]))>> \in arrived[e]

\* Only an abandoned wait lets a task end without its arrivals.
NothingSkipped ==
  ~abort =>
    \A e \in Events : \A p \in Producers[e] : \A k \in 1 .. Epoch(Owner(p[1])) :
      Behind(p[1], k) => <<p, k>> \in arrived[e]

\* Where a workgroup stands, and what it has done of its task there.
PlaceOK(b) ==
  /\ pc[b] # "exit" => tok[b] < n_tokens
  /\ pc[b] = "exit" /\ ~abort /\ Queue[b] # <<>> => tok[b] = n_tokens /\ slot[b] = 1
  /\ pc[b] \in {"boundary", "wait", "exit"} =>
       inner[b] = 0 /\ wave[b] = [v \in Waves |-> 0]
  /\ pc[b] = "bodywait" => inner[b] < BodyWaits(Current(b))
  /\ pc[b] \in {"arrive", "topk"} => CountsTopk(Current(b)) /\ inner[b] = 0
  /\ pc[b] \in {"body", "publish"} => inner[b] = BodyWaits(Current(b))
  /\ pc[b] = "publish" =>
       /\ Current(b).signal_event \in GlobalEvents
       /\ \A w \in Signallers : wave[b][w] = Chunks(Current(b))

Places == \A b \in Blocks : PlaceOK(b)

\* The arrivals of epoch k on e are complete, and no chiplet's share of them
\* is still on its way to the global counter.
Publishing(b, e, k) == pc[b] = "publish" /\ Current(b).signal_event = e /\ Epoch(b) = k
Delivered(e, k)     == AllArrived(e, k) /\ ~ \E b \in Blocks : Publishing(b, e, k)
Settled(m)          == \A e \in Awaited : \A k \in 1 .. m : Delivered(e, k)

\* Nothing of an epoch happens before all the epochs ahead of it are settled.
Gates ==
  /\ Settled(epoch0 - 1)
  /\ \A e \in Events : \A a \in arrived[e] : Settled(a[2] - 1)
  /\ \A b \in Blocks :
       pc[b] \in Started \/ (pc[b] = "wait" /\ Current(b).kind = "EMBED")
         => Settled(Epoch(b) - 1)

\* What has counted had waited; what runs has.
WaitsOver ==
  /\ \A e \in Events : \A a \in arrived[e] :
       \A f \in WaitsOf(Desc[a[1][1]]) : Delivered(f, a[2])
  /\ \A b \in Blocks : pc[b] \in Started =>
       LET t == Current(b)
       IN  /\ t.wait_event # NoEvent => Delivered(t.wait_event, Epoch(b))
           /\ \A n \in 1 .. inner[b] : Delivered(BodyWaitEvent(t, n), Epoch(b))

\* The arrivals a counter of a chiplet, and a global counter, stand for: all
\* those of the chiplet; and those of the complete, published chiplet shares.
ArrivedOn(x, e) == { a \in arrived[e] : Desc[a[1][1]].xcd = x }

ShareOut(x, e, k) ==
  /\ \A p \in ProducersOn[x][e] : <<p, k>> \in arrived[e]
  /\ ~ \E b \in Blocks : b[1] = x /\ Publishing(b, e, k)

Published(e) == { a \in arrived[e] : ShareOut(Desc[a[1][1]].xcd, e, a[2]) }

Counts ==
  /\ \A x \in Xcds, e \in Events : xcd_counters[x][e] = Cardinality(ArrivedOn(x, e))
  /\ \A e \in GlobalEvents : global_events[e] = Cardinality(Published(e))

\* One workgroup publishes a chiplet's share, and only once it is complete.
OnePublisher ==
  /\ \A b \in Blocks : pc[b] = "publish" =>
       \A p \in ProducersOn[b[1]][Current(b).signal_event] :
         <<p, Epoch(b)>> \in arrived[Current(b).signal_event]
  /\ \A b, c \in Blocks :
       /\ pc[b] = "publish" /\ Publishing(c, Current(b).signal_event, Epoch(b))
       /\ b[1] = c[1]
       => b = c

\* A scheduler that stops has seen the launch's last final event.
StopSeen ==
  \A x \in Xcds : sched[x] # "run" /\ ~abort => global_events[DoneEvent] >= done_target

IInv ==
  /\ TypeOK /\ MirrorsLag
  /\ Fresh /\ Kept /\ NothingSkipped /\ Places
  /\ Gates /\ WaitsOver
  /\ Counts /\ OnePublisher /\ StopSeen

=============================================================================
