------------------------------ MODULE ConnServe ------------------------------
(***************************************************************************)
(* The router's serving loop (demiurge-router, serve.rs): one acceptor     *)
(* that budgets connection slots and offers each connection round-robin to *)
(* bounded per-worker queues, the workers that run handle_conn, and the    *)
(* pump threads that copy the reverse direction of a proxied connection.   *)
(*                                                                         *)
(* What a peer or a lower layer decides (admission, the head, the route,   *)
(* prefill, connecting) is a nondeterministic outcome of the step that     *)
(* asks.                                                                   *)
(***************************************************************************)
EXTENDS Naturals, Sequences, FiniteSets, Functions

CONSTANTS
  Conns,         \* client connections, numbered in the order they are accepted
  NoConn,
  Backends,
  WorkerCount,   \* worker_thread_count()
  Backlog,       \* per_worker_backlog
  Pumps,         \* threads of the pump pool
  PumpQueueMax,  \* bound of the pump pool's channel
  MaxConns,      \* max_conns
  IoUring,       \* TRUE: the io_uring proxy path, with its own reverse threads
  ForwardFaults, \* TRUE: a try_clone or an io_uring copy may fail mid-proxy
  SpawnFaults    \* TRUE: the OS may refuse a thread, which panics the worker

ASSUME ServeAssumption ==
  /\ IsFiniteSet(Conns) /\ Conns \subseteq Nat /\ NoConn \notin Conns
  /\ WorkerCount \in Nat \ {0} /\ Backlog \in Nat \ {0}
  /\ PumpQueueMax \in Nat \ {0} /\ MaxConns \in Nat \ {0}
  /\ {IoUring, ForwardFaults, SpawnFaults} \subseteq BOOLEAN

Workers == 0..(WorkerCount - 1)

VARIABLES
  faulty,     \* mid-proxy errors happen in this behaviour
  accepting,  \* the accept loop has not broken
  live,       \* the AtomicUsize of the connection budget
  next,       \* round-robin cursor
  offer,      \* connection the acceptor is offering, and failed attempts
  queue,      \* per worker: connections sent and not yet received
  worker,     \* per worker: the connection in handle_conn
  dead,       \* workers that panicked; their receiver is gone
  at,         \* per connection: where it is
  backend,    \* per connection: the set of the backend it is proxied to
  inflight,   \* per backend
  reverse,    \* per connection: its reverse copy
  pumpq,      \* jobs in the pump pool's channel
  pump        \* per pump thread: the job it copies

vars == <<faulty, accepting, live, next, offer, queue, worker, dead, at, backend,
          inflight, reverse, pumpq, pump>>

acceptor == <<faulty, accepting, next, offer>>
pool == <<pumpq, pump>>

Proxying == {"connect", "forward", "join"}

Handled == {"admit", "head", "route", "prefill"} \union Proxying

TypeOK ==
  /\ {faulty, accepting} \subseteq BOOLEAN /\ live \in Nat /\ next \in 0..WorkerCount
  /\ offer \in [conn : Conns \union {NoConn}, attempt : 0..WorkerCount]
  /\ queue \in [Workers -> Seq(Conns)]
  /\ \A w \in Workers : Len(queue[w]) <= Backlog
  /\ worker \in [Workers -> Conns \union {NoConn}]
  /\ dead \subseteq Workers
  /\ at \in [Conns -> {"new", "offered", "queued", "closed"} \union Handled]
  /\ backend \in [Conns -> SUBSET Backends]
  /\ inflight \in [Backends -> Nat]
  /\ reverse \in [Conns -> {"none", "queued", "pumping", "thread", "acked"}]
  /\ pumpq \in Seq(Conns) /\ Len(pumpq) <= PumpQueueMax
  /\ pump \in [Pumps -> Conns \union {NoConn}]

NoOffer == [conn |-> NoConn, attempt |-> 0]

Init ==
  /\ faulty \in {FALSE, ForwardFaults}
  /\ accepting = TRUE /\ live = 0 /\ next = 0 /\ offer = NoOffer
  /\ queue = [w \in Workers |-> <<>>]
  /\ worker = [w \in Workers |-> NoConn]
  /\ dead = {}
  /\ at = [c \in Conns |-> "new"]
  /\ backend = [c \in Conns |-> {}]
  /\ inflight = [b \in Backends |-> 0]
  /\ reverse = [c \in Conns |-> "none"]
  /\ pumpq = <<>>
  /\ pump = [p \in Pumps |-> NoConn]

----------------------------------------------------------------------------
(* The acceptor: serve_std_accept, try_conn_slot, dispatch_conn.  Nothing  *)
(* but the acceptor adds to `live`, so a refused slot's add and sub are    *)
(* one step.                                                               *)

Accept(c) ==
  /\ accepting /\ offer = NoOffer /\ at[c] = "new"
  /\ \A d \in Conns : at[d] = "new" => c <= d
  /\ IF live >= MaxConns
       THEN /\ at' = [at EXCEPT ![c] = "closed"]
            /\ UNCHANGED <<live, offer>>
       ELSE /\ live' = live + 1
            /\ offer' = [conn |-> c, attempt |-> 0]
            /\ at' = [at EXCEPT ![c] = "offered"]
  /\ UNCHANGED <<faulty, accepting, next, queue, worker, dead, backend, inflight, reverse, pool>>

Candidate == (next + offer.attempt) % WorkerCount

Offering ==
  /\ offer.conn # NoConn
  /\ offer.attempt < WorkerCount
  /\ UNCHANGED <<faulty, worker, dead, backend, inflight, reverse, pool>>

Enqueue ==
  /\ Offering
  /\ Candidate \notin dead
  /\ Len(queue[Candidate]) < Backlog
  /\ queue' = [queue EXCEPT ![Candidate] = Append(@, offer.conn)]
  /\ at' = [at EXCEPT ![offer.conn] = "queued"]
  /\ next' = Candidate + 1
  /\ offer' = NoOffer
  /\ UNCHANGED <<accepting, live>>

QueueFull ==
  /\ Offering
  /\ Candidate \notin dead
  /\ Len(queue[Candidate]) >= Backlog
  /\ offer' = [offer EXCEPT !.attempt = @ + 1]
  /\ UNCHANGED <<accepting, live, next, queue, at>>

(* Disconnected: the job is dropped with its slot and the loop breaks. *)
QueueDisconnected ==
  /\ Offering
  /\ Candidate \in dead
  /\ accepting' = FALSE
  /\ live' = live - 1
  /\ at' = [at EXCEPT ![offer.conn] = "closed"]
  /\ offer' = NoOffer
  /\ UNCHANGED <<next, queue>>

(* Mutant: the slot is not dropped before the 503. *)
ShedKeepsSlot ==
  /\ offer.conn # NoConn /\ offer.attempt = WorkerCount
  /\ at' = [at EXCEPT ![offer.conn] = "closed"]
  /\ offer' = NoOffer
  /\ UNCHANGED <<faulty, accepting, live, next, queue, worker, dead, backend, inflight, reverse, pool>>

ShedAllFull ==
  /\ offer.conn # NoConn /\ offer.attempt = WorkerCount
  /\ live' = live - 1
  /\ at' = [at EXCEPT ![offer.conn] = "closed"]
  /\ offer' = NoOffer
  /\ UNCHANGED <<faulty, accepting, next, queue, worker, dead, backend, inflight, reverse, pool>>

----------------------------------------------------------------------------
(* handle_conn on worker w. *)

Take(w) ==
  /\ w \notin dead /\ worker[w] = NoConn /\ queue[w] # <<>>
  /\ worker' = [worker EXCEPT ![w] = Head(queue[w])]
  /\ queue' = [queue EXCEPT ![w] = Tail(@)]
  /\ at' = [at EXCEPT ![Head(queue[w])] = "admit"]
  /\ UNCHANGED <<acceptor, live, dead, backend, inflight, reverse, pool>>

AtStage(w, stage) ==
  /\ worker[w] # NoConn
  /\ at[worker[w]] = stage

(* Mutant: a manual decrement that early returns skip. *)
ReturnKeepsInflight(w) ==
  /\ at' = [at EXCEPT ![worker[w]] = "closed"]
  /\ worker' = [worker EXCEPT ![w] = NoConn]
  /\ live' = live - 1
  /\ inflight' = [b \in Backends |->
       IF b \in backend[worker[w]] /\ at[worker[w]] = "join" THEN inflight[b] - 1
       ELSE inflight[b]]
  /\ backend' = [backend EXCEPT ![worker[w]] = {}]
  /\ UNCHANGED <<acceptor, queue, dead, reverse, pool>>

(* handle_conn returns: the guards of the proxied backend's inflight count *)
(* and of the slot are dropped.                                            *)
Return(w) ==
  /\ at' = [at EXCEPT ![worker[w]] = "closed"]
  /\ worker' = [worker EXCEPT ![w] = NoConn]
  /\ live' = live - 1
  /\ inflight' = [b \in Backends |->
       IF b \in backend[worker[w]] THEN inflight[b] - 1 ELSE inflight[b]]
  /\ backend' = [backend EXCEPT ![worker[w]] = {}]
  /\ UNCHANGED <<acceptor, queue, dead, reverse, pool>>

(* A shed by the admit bucket, a failed read of the head, no backend, a    *)
(* failed prefill or hand-off, and a failed connect all end handle_conn.   *)
GiveUp(w) ==
  /\ \E stage \in {"admit", "head", "route", "prefill", "connect"} : AtStage(w, stage)
  /\ Return(w)

Advance(w, from, to) ==
  /\ AtStage(w, from)
  /\ at' = [at EXCEPT ![worker[w]] = to]
  /\ UNCHANGED <<acceptor, live, queue, worker, dead, backend, inflight, reverse, pool>>

Admitted(w) == Advance(w, "admit", "head")

HeadRead(w) == Advance(w, "head", "route")

DispatchPrefill(w) == Advance(w, "route", "prefill")

(* The route, or the decode placement after prefill, names a backend. *)
Placed(w, b) ==
  /\ AtStage(w, "route") \/ AtStage(w, "prefill")
  /\ at' = [at EXCEPT ![worker[w]] = "connect"]
  /\ backend' = [backend EXCEPT ![worker[w]] = {b}]
  /\ inflight' = [inflight EXCEPT ![b] = @ + 1]
  /\ UNCHANGED <<acceptor, live, queue, worker, dead, reverse, pool>>

(* Connected: hand the reverse direction to the pump pool, or to a thread  *)
(* of its own when the pool's channel is full or io_uring is in use.       *)
StartReverse(w) ==
  /\ AtStage(w, "connect")
  /\ at' = [at EXCEPT ![worker[w]] = "forward"]
  /\ IF ~IoUring /\ Len(pumpq) < PumpQueueMax
       THEN /\ pumpq' = Append(pumpq, worker[w])
            /\ reverse' = [reverse EXCEPT ![worker[w]] = "queued"]
       ELSE /\ reverse' = [reverse EXCEPT ![worker[w]] = "thread"]
            /\ UNCHANGED pumpq
  /\ UNCHANGED <<acceptor, live, queue, worker, dead, backend, inflight, pump>>

(* The client ends its half: the worker shuts the upstream's half down. *)
ForwardEnds(w) == Advance(w, "forward", "join")

(* An error after the reverse copy was started returns at once; the        *)
(* reverse copy holds its own descriptors and goes on.                     *)
ForwardFails(w) ==
  /\ faulty
  /\ AtStage(w, "forward")
  /\ Return(w)

Join(w) ==
  /\ AtStage(w, "join")
  /\ reverse[worker[w]] = "acked"
  /\ Return(w)

(* thread::spawn panics in dispatch_prefill or for a one-shot reverse      *)
(* thread: unwinding drops the job in hand and every job of the queue.     *)
SpawnPanics(w) ==
  /\ SpawnFaults
  /\ \/ AtStage(w, "route")
     \/ AtStage(w, "connect") /\ (IoUring \/ Len(pumpq) >= PumpQueueMax)
  /\ LET dropped == {worker[w]} \union Range(queue[w]) IN
       /\ at' = [c \in Conns |-> IF c \in dropped THEN "closed" ELSE at[c]]
       /\ live' = live - Cardinality(dropped)
  /\ inflight' = [b \in Backends |->
       IF b \in backend[worker[w]] THEN inflight[b] - 1 ELSE inflight[b]]
  /\ backend' = [backend EXCEPT ![worker[w]] = {}]
  /\ worker' = [worker EXCEPT ![w] = NoConn]
  /\ queue' = [queue EXCEPT ![w] = <<>>]
  /\ dead' = dead \union {w}
  /\ UNCHANGED <<acceptor, reverse, pool>>

----------------------------------------------------------------------------
(* The reverse direction: pump pool threads and one-shot threads. *)

PumpTake(p) ==
  /\ pump[p] = NoConn /\ pumpq # <<>>
  /\ pump' = [pump EXCEPT ![p] = Head(pumpq)]
  /\ pumpq' = Tail(pumpq)
  /\ reverse' = [reverse EXCEPT ![Head(pumpq)] = "pumping"]
  /\ UNCHANGED <<acceptor, live, queue, worker, dead, at, backend, inflight>>

(* Mutant: the pump forgets to send `done`. *)
PumpNoAck(p) ==
  /\ pump[p] # NoConn
  /\ pump' = [pump EXCEPT ![p] = NoConn]
  /\ UNCHANGED <<acceptor, live, queue, worker, dead, at, backend, inflight, reverse,
                 pumpq>>

(* The copy ends with the upstream: shut the client's half down and ack. *)
PumpEnds(p) ==
  /\ pump[p] # NoConn
  /\ reverse' = [reverse EXCEPT ![pump[p]] = "acked"]
  /\ pump' = [pump EXCEPT ![p] = NoConn]
  /\ UNCHANGED <<acceptor, live, queue, worker, dead, at, backend, inflight, pumpq>>

ThreadEnds(c) ==
  /\ reverse[c] = "thread"
  /\ reverse' = [reverse EXCEPT ![c] = "acked"]
  /\ UNCHANGED <<acceptor, live, queue, worker, dead, at, backend, inflight, pool>>

Next ==
  \/ \E c \in Conns : Accept(c) \/ ThreadEnds(c)
  \/ Enqueue \/ QueueFull \/ QueueDisconnected \/ ShedAllFull
  \/ \E w \in Workers :
       \/ Take(w) \/ GiveUp(w) \/ Admitted(w) \/ HeadRead(w) \/ DispatchPrefill(w)
       \/ \E b \in Backends : Placed(w, b)
       \/ StartReverse(w) \/ ForwardEnds(w) \/ ForwardFails(w) \/ Join(w)
       \/ SpawnPanics(w)
  \/ \E p \in Pumps : PumpTake(p) \/ PumpEnds(p)

Spec == Init /\ [][Next]_vars

(* The acceptor, workers and pumps run whenever they can.  Of the peers it *)
(* is assumed that each read, prefill and connect comes to an outcome (the *)
(* code sets no timeout), that a client whose response is being delivered  *)
(* ends its half, and that a backend whose half was shut down ends its own.*)
Delivered(w) ==
  worker[w] # NoConn /\ reverse[worker[w]] \in {"pumping", "thread", "acked"}

HalfShut(c) == c \in Conns /\ at[c] = "join"

Fairness ==
  /\ WF_vars(Enqueue \/ QueueFull \/ QueueDisconnected \/ ShedAllFull)
  /\ \A w \in Workers :
       /\ WF_vars(Take(w))
       /\ WF_vars(GiveUp(w) \/ Admitted(w) \/ HeadRead(w) \/ DispatchPrefill(w)
                  \/ (\E b \in Backends : Placed(w, b)) \/ StartReverse(w) \/ Join(w))
       /\ WF_vars(Delivered(w) /\ ForwardEnds(w))
  /\ \A p \in Pumps : WF_vars(PumpTake(p)) /\ WF_vars(HalfShut(pump[p]) /\ PumpEnds(p))
  /\ \A c \in Conns : WF_vars(HalfShut(c) /\ ThreadEnds(c))

FairSpec == Spec /\ Fairness

----------------------------------------------------------------------------
(* The slot budget is exact and capped: `live` counts the connections that *)
(* are being offered, queued on a living worker or handled by one, each in *)
(* exactly one place.  No exit path leaks or doubles a slot, including the *)
(* worker panic that drops a whole queue.                                  *)
SlotsOwned ==
  LET places(c) == {<<"offer", 0>> : o \in {offer.conn} \intersect {c}}
        \union {<<"queue", w>> : w \in {v \in Workers \ dead : c \in Range(queue[v])}}
        \union {<<"worker", w>> : w \in {v \in Workers \ dead : worker[v] = c}}
  IN  /\ live = Cardinality({c \in Conns : places(c) # {}})
      /\ live <= MaxConns
      /\ \A c \in Conns :
           Cardinality(places(c)) = IF at[c] \in {"new", "closed"} THEN 0 ELSE 1

(* The load signal that backend selection reads: inflight of a backend is  *)
(* the number of connections being proxied to it, on every exit path.      *)
InflightExact ==
  \A b \in Backends :
    inflight[b] = Cardinality({c \in Conns : at[c] \in Proxying /\ b \in backend[c]})

(* serve.rs on the one-shot reverse threads: "Cap concurrency via          *)
(* max_conns".  Reverse copies not yet finished never outnumber the slots. *)
ReverseCapped ==
  Cardinality({c \in Conns : reverse[c] \in {"queued", "pumping", "thread"}}) <= MaxConns

(* Every connection that takes a slot eventually gives it back: no cycle   *)
(* of workers, queues and pump threads waits on itself, even with fewer    *)
(* pump threads than workers.                                              *)
Drains == \A c \in Conns : (at[c] = "offered" /\ ~faulty) ~> at[c] = "closed"
=============================================================================
