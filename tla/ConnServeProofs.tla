---------------------------- MODULE ConnServeProofs ---------------------------
(***************************************************************************)
(* Proofs about ConnServe, for any number of connections, workers, pump    *)
(* threads and backends, any backlog and any budget of connections.        *)
(***************************************************************************)
EXTENDS ConnServe, FiniteSetTheorems, TLAPS

Stages == {"new", "offered", "queued", "closed"} \union Handled

(* No connection is twice in a queue. *)
OnceEach(s) == \A i, j \in 1..Len(s) : s[i] = s[j] => i = j

Typed ==
  /\ next \in Nat /\ offer \in [conn : Conns \union {NoConn}, attempt : Nat]
  /\ queue \in [Workers -> Seq(Conns)] /\ worker \in [Workers -> Conns \union {NoConn}]
  /\ dead \subseteq Workers /\ at \in [Conns -> Stages]
  /\ backend \in [Conns -> SUBSET Backends] /\ inflight \in [Backends -> Int]

(* A connection is where its stage says, and nowhere else. *)
Located ==
  /\ \A c \in Conns : at[c] = "offered" <=> offer.conn = c
  /\ \A c \in Conns : at[c] = "queued" <=> \E w \in Workers : c \in Range(queue[w])
  /\ \A c \in Conns : at[c] \in Handled <=> \E w \in Workers : worker[w] = c
  /\ \A v, w \in Workers : \A c \in Conns : c \in Range(queue[v]) /\ c \in Range(queue[w]) => v = w
  /\ \A v, w \in Workers : worker[v] # NoConn /\ worker[v] = worker[w] => v = w
  /\ \A w \in Workers : OnceEach(queue[w])
  /\ \A w \in dead : queue[w] = <<>> /\ worker[w] = NoConn

Taken == {c \in Conns : at[c] \notin {"new", "closed"}}
On(b) == {c \in Conns : b \in backend[c]}

(* The counters count; a backend is held only while it is proxied to. *)
Counted ==
  /\ live = Cardinality(Taken) /\ live <= MaxConns
  /\ \A c \in Conns : at[c] \notin Proxying => backend[c] = {}
  /\ \A b \in Backends : inflight[b] = Cardinality(On(b))

ServeInv == Typed /\ Located /\ Counted

-----------------------------------------------------------------------------
(* Queues as sets. *)

LEMMA SetOf ==
  ASSUME NEW s \in Seq(Conns)
  PROVE  Range(s) = {s[i] : i \in 1..Len(s)} /\ Range(s) \subseteq Conns
<1>1. DOMAIN s = 1..Len(s) /\ \A i \in 1..Len(s) : s[i] \in Conns
  OBVIOUS
<1>2. Range(s) = {s[i] : i \in 1..Len(s)}
  BY <1>1, Zenon DEF Range
<1> QED
  BY <1>1, <1>2, Zenon

LEMMA AppendSet ==
  ASSUME NEW s \in Seq(Conns), NEW e \in Conns, OnceEach(s), e \notin Range(s)
  PROVE  /\ Append(s, e) \in Seq(Conns) /\ Range(Append(s, e)) = Range(s) \union {e}
         /\ OnceEach(Append(s, e))
<1> DEFINE t == Append(s, e)
<1>1. t \in Seq(Conns) /\ Len(t) = Len(s) + 1 /\ \A i \in 1..Len(t) : t[i] = IF i = Len(s) + 1 THEN e ELSE s[i]
  OBVIOUS
<1> HIDE DEF t
<1>2. Range(s) = {s[i] : i \in 1..Len(s)} /\ Range(t) = {t[i] : i \in 1..Len(t)} /\ Len(s) \in Nat
  BY <1>1, SetOf
<1>3. Range(t) = Range(s) \union {e}
  BY <1>1, <1>2, SMTT(60)
<1>4. OnceEach(t)
  BY <1>1, <1>2, SMTT(60) DEF OnceEach
<1> QED
  BY <1>1, <1>3, <1>4, Zenon DEF t

LEMMA TailSet ==
  ASSUME NEW s \in Seq(Conns), s # <<>>, OnceEach(s)
  PROVE  /\ Tail(s) \in Seq(Conns) /\ Head(s) \in Range(s) /\ Head(s) \in Conns
         /\ Range(Tail(s)) = Range(s) \ {Head(s)} /\ OnceEach(Tail(s))
<1> DEFINE t == Tail(s)
<1>1. /\ t \in Seq(Conns) /\ Len(s) \in Nat \ {0} /\ Len(t) = Len(s) - 1 /\ Head(s) = s[1] /\ s[1] \in Conns
      /\ \A i \in 1..Len(t) : t[i] = s[i + 1]
  OBVIOUS
<1> HIDE DEF t
<1>2. Range(s) = {s[i] : i \in 1..Len(s)} /\ Range(t) = {t[i] : i \in 1..Len(t)}
  BY <1>1, SetOf, Zenon
<1>3. ASSUME NEW c \in Range(s), c # s[1] PROVE c \in Range(t)
  <2>1. PICK i \in 1..Len(s) : c = s[i]
    BY <1>2, Zenon
  <2>2. i # 1 /\ i - 1 \in 1..Len(t) /\ t[i - 1] = s[i]
    BY <1>1, <1>3, <2>1, SMTT(60)
  <2> QED
    BY <1>2, <2>1, <2>2, Zenon
<1>4. ASSUME NEW c \in Range(t) PROVE c \in Range(s) /\ c # s[1]
  <2>1. PICK i \in 1..Len(t) : c = t[i]
    BY <1>2, Zenon
  <2>2. i + 1 \in 1..Len(s) /\ c = s[i + 1] /\ 1 \in 1..Len(s) /\ i + 1 # 1
    BY <1>1, <2>1, SMTT(60)
  <2> QED
    BY <1>2, <2>2, Zenon DEF OnceEach
<1>5. s[1] \in Range(s)
  BY <1>1, <1>2
<1>6. OnceEach(t)
  <2> SUFFICES ASSUME NEW i \in 1..Len(t), NEW j \in 1..Len(t), t[i] = t[j] PROVE i = j
    BY Zenon DEF OnceEach
  <2>1. i + 1 \in 1..Len(s) /\ j + 1 \in 1..Len(s) /\ s[i + 1] = s[j + 1]
    BY <1>1, SMTT(60)
  <2> QED
    BY <1>1, <2>1, SMTT(60) DEF OnceEach
<1> QED
  BY <1>1, <1>3, <1>4, <1>5, <1>6, Zenon DEF t

LEMMA NoSet == Range(<<>>) = {} /\ OnceEach(<<>>) /\ <<>> \in Seq(Conns)
  BY DEF Range, OnceEach

-----------------------------------------------------------------------------
(* Counting. *)

LEMMA CountAdd ==
  ASSUME NEW S \in SUBSET Conns, NEW c \in Conns \ S
  PROVE  Cardinality(S \union {c}) = Cardinality(S) + 1 /\ Cardinality(S) \in Nat
  BY ServeAssumption, FS_Subset, FS_AddElement, FS_CardinalityType, Zenon

LEMMA CountRemove ==
  ASSUME NEW S \in SUBSET Conns, NEW D \in SUBSET S
  PROVE  Cardinality(S \ D) = Cardinality(S) - Cardinality(D) /\ Cardinality(D) \in Nat /\ Cardinality(S) \in Nat
<1>1. IsFiniteSet(S) /\ IsFiniteSet(D) /\ S \intersect D = D
  BY ServeAssumption, FS_Subset, Zenon
<1> QED
  <2>1. Cardinality(S \ D) = Cardinality(S) - Cardinality(S \intersect D)
    BY <1>1, FS_Difference, Zenon
  <2>2. Cardinality(D) \in Nat /\ Cardinality(S) \in Nat
    BY <1>1, FS_CardinalityType, Zenon
  <2> QED
    BY <1>1, <2>1, <2>2, Zenon

LEMMA CountOne == \A c : Cardinality({c}) = 1
  BY FS_Singleton, Zenon

(* A connection enters, stays in or leaves the taken ones. *)
LEMMA ServeStart == Init => ServeInv
<1> SUFFICES ASSUME Init PROVE ServeInv
  BY Zenon
<1>1. Typed
  BY ServeAssumption DEF Init, Typed, NoOffer, Stages
<1>2. Located
  BY ServeAssumption, NoSet, Zenon DEF Init, Located, NoOffer, Handled, Proxying
<1>3. Taken = {} /\ \A b \in Backends : On(b) = {}
  BY Zenon DEF Init, Taken, On
<1>4. Counted
  <2>1. Cardinality({}) = 0
    BY FS_EmptySet, Zenon
  <2>2. live = 0 /\ 0 <= MaxConns
    BY ServeAssumption DEF Init
  <2>3. \A b \in Backends : inflight[b] = 0
    BY Zenon DEF Init
  <2>4. \A c \in Conns : backend[c] = {}
    BY Zenon DEF Init
  <2> QED
    BY <1>3, <2>1, <2>2, <2>3, <2>4, Zenon DEF Counted
<1> QED
  BY <1>1, <1>2, <1>4, Zenon DEF ServeInv

(* Steps that move one connection between stages, by what they do to the   *)
(* taken ones and to the backends.                                         *)
LEMMA StayCounted ==
  ASSUME Typed, Counted, NEW c \in Conns, NEW z \in Stages \ {"new", "closed"}, at[c] \notin {"new", "closed"},
         at' = [at EXCEPT ![c] = z], UNCHANGED <<live, backend, inflight>>,
         z \in Proxying \/ at[c] \notin Proxying
  PROVE  Counted'
<1>1. Taken' = Taken
  BY Zenon DEF Taken, Typed
<1>2. \A b \in Backends : On(b)' = On(b)
  BY Zenon DEF On
<1> QED
  BY <1>1, <1>2, Zenon DEF Counted, Typed

LEMMA DropCounted ==
  ASSUME Typed, Counted, NEW D \in SUBSET Taken, live' = live - Cardinality(D),
         at' = [c \in Conns |-> IF c \in D THEN "closed" ELSE at[c]],
         \A c \in D : at[c] \notin Proxying, UNCHANGED <<backend, inflight>>
  PROVE  Counted'
<1>1. Taken' = Taken \ D
  BY Zenon DEF Taken, Typed
<1>2. live' = Cardinality(Taken') /\ live' <= MaxConns
  <2>1. Taken \in SUBSET Conns
    BY Zenon DEF Taken
  <2>2. Cardinality(Taken \ D) = Cardinality(Taken) - Cardinality(D) /\ Cardinality(D) \in Nat /\ Cardinality(Taken) \in Nat
    BY <2>1, CountRemove, Zenon
  <2> QED
    BY <1>1, <2>2, ServeAssumption DEF Counted
<1>3. \A b \in Backends : On(b)' = On(b)
  BY Zenon DEF On
<1> QED
  BY <1>2, <1>3, Zenon DEF Counted, Typed, Taken

(* A handler ends, and with it the connections dropped with its queue. *)
LEMMA EndCounted ==
  ASSUME Typed, Counted, NEW c \in Taken, NEW D \in SUBSET Taken, c \in D,
         \A d \in D \ {c} : at[d] \notin Proxying,
         live' = live - Cardinality(D),
         at' = [d \in Conns |-> IF d \in D THEN "closed" ELSE at[d]],
         inflight' = [b \in Backends |-> IF b \in backend[c] THEN inflight[b] - 1 ELSE inflight[b]],
         backend' = [backend EXCEPT ![c] = {}]
  PROVE  Counted'
<1>1. Taken' = Taken \ D
  BY Zenon DEF Taken, Typed
<1>2. live' = Cardinality(Taken') /\ live' <= MaxConns
  <2>1. Taken \in SUBSET Conns
    BY Zenon DEF Taken
  <2>2. Cardinality(Taken \ D) = Cardinality(Taken) - Cardinality(D) /\ Cardinality(D) \in Nat /\ Cardinality(Taken) \in Nat
    BY <2>1, CountRemove, Zenon
  <2> QED
    BY <1>1, <2>2, ServeAssumption DEF Counted
<1>3. ASSUME NEW b \in Backends PROVE inflight'[b] = Cardinality(On(b)')
  <2>1. On(b)' = On(b) \ {c} /\ On(b) \subseteq Conns
    BY Zenon DEF On, Typed, Taken
  <2>2. CASE b \in backend[c]
    <3>1. {c} \in SUBSET On(b)
      BY <2>2, Zenon DEF On, Taken
    <3>2. Cardinality(On(b) \ {c}) = Cardinality(On(b)) - 1
      BY <2>1, <3>1, CountRemove, CountOne, ZenonT(60)
    <3>3. inflight'[b] = inflight[b] - 1
      BY <2>2, Zenon
    <3> QED
      BY <2>1, <3>2, <3>3, Zenon DEF Counted
  <2>3. CASE b \notin backend[c]
    <3>1. On(b) \ {c} = On(b)
      BY <2>3, Zenon DEF On
    <3> QED
      BY <2>1, <2>3, <3>1, Zenon DEF Counted
  <2> QED
    BY <2>2, <2>3, Zenon
<1>4. ASSUME NEW d \in Conns, at'[d] \notin Proxying PROVE backend'[d] = {}
  <2>1. CASE d = c
    BY <2>1, Zenon DEF Typed
  <2>2. CASE d # c
    <3>1. at[d] \notin Proxying
      BY <1>4, <2>2, Zenon
    <3> QED
      BY <2>2, <3>1, Zenon DEF Counted, Typed
  <2> QED
    BY <2>1, <2>2, Zenon
<1> QED
  BY <1>2, <1>3, <1>4, Zenon DEF Counted

-----------------------------------------------------------------------------
(* The acceptor. *)

LEMMA AcceptKeeps ==
  ASSUME ServeInv, NEW c \in Conns, Accept(c)
  PROVE  ServeInv'
<1> USE DEF ServeInv
<1>1. at[c] = "new" /\ offer.conn = NoConn /\ UNCHANGED <<next, queue, worker, dead, backend, inflight>>
  BY Zenon DEF Accept, NoOffer
<1>2. CASE live >= MaxConns
  <2>1. at' = [at EXCEPT ![c] = "closed"] /\ UNCHANGED <<live, offer>>
    BY <1>2, Zenon DEF Accept
  <2>2. Typed'
    BY <1>1, <2>1, Zenon DEF Typed, Stages
  <2>3. Located'
    BY <1>1, <2>1, SMTT(60) DEF Located, Typed, Handled, Proxying
  <2>4. Taken' = Taken /\ \A b \in Backends : On(b)' = On(b)
    BY <1>1, <2>1, Zenon DEF Taken, On, Typed
  <2>5. Counted'
    BY <1>1, <2>1, <2>4, Zenon DEF Counted, Typed, Proxying
  <2> QED
    BY <2>2, <2>3, <2>5, Zenon
<1>3. CASE ~(live >= MaxConns)
  <2>1. live' = live + 1 /\ offer' = [conn |-> c, attempt |-> 0] /\ at' = [at EXCEPT ![c] = "offered"]
    BY <1>3, Zenon DEF Accept
  <2>2. Typed'
    BY <1>1, <2>1, Zenon DEF Typed, Stages
  <2>3. Located'
    BY <1>1, <2>1, ServeAssumption, SMTT(60) DEF Located, Typed, Handled, Proxying
  <2>4. Taken' = Taken \union {c} /\ Taken \in SUBSET Conns /\ c \in Conns \ Taken
    BY <1>1, <2>1 DEF Taken, Typed
  <2>5. \A b \in Backends : On(b)' = On(b)
    BY <1>1, Zenon DEF On
  <2>6. Cardinality(Taken \union {c}) = Cardinality(Taken) + 1 /\ Cardinality(Taken) \in Nat
    BY <2>4, CountAdd, Zenon
  <2>7. live' = Cardinality(Taken') /\ live' <= MaxConns
    BY <1>3, <2>1, <2>4, <2>6, ServeAssumption, SMTT(60) DEF Counted
  <2>8. Counted'
    BY <1>1, <2>1, <2>5, <2>7, Zenon DEF Counted, Typed, Proxying
  <2> QED
    BY <2>2, <2>3, <2>8, Zenon
<1> QED
  BY <1>2, <1>3, Zenon

LEMMA EnqueueKeeps ==
  ASSUME ServeInv, Enqueue
  PROVE  ServeInv'
<1> USE DEF ServeInv
<1> DEFINE w == Candidate
           c == offer.conn
<1>1. w \in Workers /\ c \in Conns /\ w \notin dead
  <2>1. next \in Nat /\ offer.attempt \in Nat /\ offer.conn \in Conns \union {NoConn}
    BY Zenon DEF Typed
  <2>2. offer.conn # NoConn /\ Candidate \notin dead
    BY Zenon DEF Enqueue, Offering
  <2>3. \A n \in Nat : n % WorkerCount \in 0..(WorkerCount - 1)
    BY ServeAssumption
  <2>4. Candidate \in Workers
    BY <2>1, <2>3 DEF Candidate, Workers
  <2> QED
    BY <2>1, <2>2, <2>4, Zenon
<1>2. UNCHANGED <<worker, dead, backend, inflight, live>>
  BY Zenon DEF Enqueue, Offering
<1>3. queue' = [queue EXCEPT ![w] = Append(queue[w], c)] /\ at' = [at EXCEPT ![c] = "queued"]
      /\ next' = w + 1 /\ offer' = NoOffer
  BY Zenon DEF Enqueue
<1>4. at[c] = "offered"
  BY <1>1, Zenon DEF Located
<1> HIDE DEF w, c
<1>5. c \notin Range(queue[w]) /\ queue[w] \in Seq(Conns) /\ OnceEach(queue[w])
  BY <1>1, <1>4, ZenonT(60) DEF Located, Typed
<1>6. /\ queue' \in [Workers -> Seq(Conns)]
      /\ \A v \in Workers : Range(queue'[v]) = (IF v = w THEN Range(queue[v]) \union {c} ELSE Range(queue[v]))
      /\ \A v \in Workers : OnceEach(queue'[v])
      /\ \A v \in Workers \ {w} : queue'[v] = queue[v]
  <2>1. /\ Append(queue[w], c) \in Seq(Conns) /\ Range(Append(queue[w], c)) = Range(queue[w]) \union {c}
        /\ OnceEach(Append(queue[w], c))
    BY <1>1, <1>5, AppendSet, Zenon
  <2> DEFINE q == Append(queue[w], c)
  <2> HIDE DEF q
  <2>2. queue' = [queue EXCEPT ![w] = q]
    BY <1>3, Zenon DEF q
  <2>3. queue' \in [Workers -> Seq(Conns)] /\ \A v \in Workers : queue'[v] = IF v = w THEN q ELSE queue[v]
    BY <1>1, <2>1, <2>2, Zenon DEF Typed, q
  <2>4. OnceEach(q) /\ Range(q) = Range(queue[w]) \union {c} /\ \A v \in Workers : OnceEach(queue[v])
    BY <2>1, Zenon DEF q, Located
  <2> QED
    BY <2>3, <2>4, Zenon
<1>7. Typed'
  BY <1>1, <1>2, <1>3, <1>6, SMTT(60) DEF Typed, Stages, NoOffer, Workers
<1>8. offer'.conn = NoConn
  BY <1>3, Zenon DEF NoOffer
<1>9. \A d \in Conns : at'[d] = IF d = c THEN "queued" ELSE at[d]
  BY <1>1, <1>3, Zenon DEF Typed
<1>10. Located'
  <2>1. \A d \in Conns : at'[d] = "offered" <=> offer'.conn = d
    BY <1>1, <1>4, <1>8, <1>9, ServeAssumption, SMTT(60) DEF Located, c
  <2>2. \A d \in Conns : at'[d] = "queued" <=> \E v \in Workers : d \in Range(queue'[v])
    <3>1. at'[c] = "queued" /\ c \in Range(queue'[w])
      BY <1>1, <1>6, <1>9, Zenon
    <3>2. ASSUME NEW d \in Conns, d # c
          PROVE  at'[d] = at[d] /\ \A v \in Workers : d \in Range(queue'[v]) <=> d \in Range(queue[v])
      BY <1>6, <1>9, <3>2, Zenon
    <3> QED
      BY <1>1, <3>1, <3>2, SMTT(60) DEF Located
  <2>3. \A d \in Conns : at'[d] \in Handled <=> \E v \in Workers : worker'[v] = d
    BY <1>1, <1>2, <1>4, <1>9, SMTT(60) DEF Located, Handled, Proxying
  <2>4. \A v, u \in Workers : \A d \in Conns : d \in Range(queue'[v]) /\ d \in Range(queue'[u]) => v = u
    BY <1>4, <1>6, SMTT(60) DEF Located
  <2>5. \A v \in dead' : queue'[v] = <<>> /\ worker'[v] = NoConn
    BY <1>1, <1>2, <1>6 DEF Located, Typed
  <2> QED
    BY <1>2, <1>6, <2>1, <2>2, <2>3, <2>4, <2>5, SMTT(60) DEF Located
<1>11. Counted'
  BY <1>1, <1>2, <1>3, <1>4, StayCounted, Zenon DEF Stages, Proxying
<1> QED
  BY <1>7, <1>10, <1>11, Zenon

(* An offer that fails everywhere, or meets a dead worker. *)
LEMMA RefuseKeeps ==
  ASSUME ServeInv, QueueDisconnected \/ ShedAllFull
  PROVE  ServeInv'
<1> USE DEF ServeInv
<1> DEFINE c == offer.conn
<1>1. c \in Conns /\ at[c] = "offered"
  BY Zenon DEF QueueDisconnected, ShedAllFull, Offering, Typed, Located
<1>2. UNCHANGED <<worker, dead, backend, inflight, next, queue>>
  BY Zenon DEF QueueDisconnected, ShedAllFull, Offering
<1>3. live' = live - 1 /\ at' = [at EXCEPT ![c] = "closed"] /\ offer' = NoOffer
  BY Zenon DEF QueueDisconnected, ShedAllFull
<1>4. \A d \in Conns : at'[d] = IF d = c THEN "closed" ELSE at[d]
  BY <1>3, Zenon DEF Typed
<1>5. Typed'
  BY <1>1, <1>2, <1>3, Zenon DEF Typed, Stages, NoOffer
<1>6. offer'.conn = NoConn
  BY <1>3, Zenon DEF NoOffer
<1>7. \A d \in Conns : at'[d] = "offered" <=> offer'.conn = d
  <2>1. ASSUME NEW d \in Conns PROVE offer'.conn # d
    BY <1>6, ServeAssumption, Zenon
  <2>2. ASSUME NEW d \in Conns PROVE at'[d] # "offered"
    <3>1. CASE d = c
      BY <1>4, <3>1, Zenon
    <3>2. CASE d # c
      <4>1. at[d] # "offered"
        BY <3>2, Zenon DEF Located
      <4> QED
        BY <1>4, <3>2, <4>1, Zenon
    <3> QED
      BY <3>1, <3>2, Zenon
  <2> QED
    BY <2>1, <2>2, Zenon
<1> HIDE DEF c
<1>8. Located'
  BY <1>1, <1>2, <1>4, <1>7, SMTT(60) DEF Located, Handled, Proxying
<1>9. Counted'
  <2>1. {c} \in SUBSET Taken /\ at' = [d \in Conns |-> IF d \in {c} THEN "closed" ELSE at[d]]
    BY <1>1, <1>3, Zenon DEF Taken, Typed
  <2>2. live' = live - Cardinality({c})
    <3>1. Cardinality({c}) = 1
      BY CountOne, Zenon
    <3> QED
      BY <1>3, <3>1, Zenon
  <2>3. \A d \in {c} : at[d] \notin Proxying
    BY <1>1, Zenon DEF Proxying
  <2> QED
    BY <1>2, <2>1, <2>2, <2>3, DropCounted, Zenon
<1> QED
  BY <1>5, <1>8, <1>9, Zenon

-----------------------------------------------------------------------------
(* The workers. *)

LEMMA TakeKeeps ==
  ASSUME ServeInv, NEW w \in Workers, Take(w)
  PROVE  ServeInv'
<1> USE DEF ServeInv
<1> DEFINE c == Head(queue[w])
           q == Tail(queue[w])
<1>1. queue[w] \in Seq(Conns) /\ queue[w] # <<>> /\ OnceEach(queue[w]) /\ w \notin dead /\ worker[w] = NoConn
  BY Zenon DEF Take, Typed, Located
<1>2. q \in Seq(Conns) /\ c \in Range(queue[w]) /\ c \in Conns /\ Range(q) = Range(queue[w]) \ {c} /\ OnceEach(q)
  BY <1>1, TailSet, Zenon
<1>3. UNCHANGED <<dead, backend, inflight, live, next, offer>>
  BY Zenon DEF Take, acceptor
<1>4. worker' = [worker EXCEPT ![w] = c] /\ queue' = [queue EXCEPT ![w] = q] /\ at' = [at EXCEPT ![c] = "admit"]
  BY Zenon DEF Take
<1> HIDE DEF c, q
<1>5. at[c] = "queued"
  BY <1>2, Zenon DEF Located
<1>6. queue' \in [Workers -> Seq(Conns)] /\ \A v \in Workers : queue'[v] = IF v = w THEN q ELSE queue[v]
  BY <1>2, <1>4, Zenon DEF Typed
<1>7. \A d \in Conns : at'[d] = IF d = c THEN "admit" ELSE at[d]
  BY <1>2, <1>4, Zenon DEF Typed
<1>8. worker' \in [Workers -> Conns \union {NoConn}] /\ \A v \in Workers : worker'[v] = IF v = w THEN c ELSE worker[v]
  BY <1>2, <1>4, Zenon DEF Typed
<1>9. Typed'
  BY <1>2, <1>3, <1>4, <1>6, <1>8, Zenon DEF Typed, Stages, Handled
<1>10. Located'
  <2>1. \A d \in Conns : at'[d] = "offered" <=> offer'.conn = d
    BY <1>2, <1>3, <1>5, <1>7, SMTT(60) DEF Located
  <2>2. ASSUME NEW d \in Conns PROVE at'[d] = "queued" <=> \E v \in Workers : d \in Range(queue'[v])
    <3>1. CASE d = c
      <4>1. ASSUME NEW v \in Workers PROVE c \notin Range(queue'[v])
        BY <1>2, <1>6, Zenon DEF Located
      <4> QED
        BY <1>7, <3>1, <4>1, Zenon
    <3>2. CASE d # c
      <4>1. at'[d] = at[d] /\ \A v \in Workers : d \in Range(queue'[v]) <=> d \in Range(queue[v])
        BY <1>2, <1>6, <1>7, <3>2, Zenon
      <4> QED
        BY <4>1, SMTT(60) DEF Located
    <3> QED
      BY <3>1, <3>2, Zenon
  <2>3. ASSUME NEW d \in Conns PROVE at'[d] \in Handled <=> \E v \in Workers : worker'[v] = d
    <3>1. CASE d = c
      BY <1>7, <1>8, <3>1, Zenon DEF Handled
    <3>2. CASE d # c
      <4>1. at'[d] = at[d] /\ \A v \in Workers : worker'[v] = d <=> worker[v] = d
        BY <1>1, <1>7, <1>8, <3>2, ServeAssumption, ZenonT(60)
      <4> QED
        BY <4>1, SMTT(60) DEF Located
    <3> QED
      BY <3>1, <3>2, Zenon
  <2>4. \A v \in Workers : Range(queue'[v]) \subseteq Range(queue[v]) /\ OnceEach(queue'[v])
    BY <1>2, <1>6, SMTT(60) DEF Located
  <2>5. \A v \in Workers : worker[v] # c
    BY <1>2, <1>5, Zenon DEF Located, Handled, Proxying
  <2>6. \A v, u \in Workers : worker'[v] # NoConn /\ worker'[v] = worker'[u] => v = u
    BY <1>8, <2>5, SMTT(60) DEF Located
  <2>7. \A v \in dead' : queue'[v] = <<>> /\ worker'[v] = NoConn
    BY <1>1, <1>3, <1>6, <1>8, SMTT(60) DEF Located, Typed
  <2>8. \A v, u \in Workers : \A d \in Conns : d \in Range(queue'[v]) /\ d \in Range(queue'[u]) => v = u
    BY <2>4, SMTT(60) DEF Located
  <2> QED
    BY <2>1, <2>2, <2>3, <2>4, <2>6, <2>7, <2>8, Zenon DEF Located
<1>11. Counted'
  BY <1>2, <1>3, <1>4, <1>5, StayCounted, Zenon DEF Stages, Handled, Proxying
<1> QED
  BY <1>9, <1>10, <1>11, Zenon

(* A handler goes from one stage to another. *)
LEMMA StageLocated ==
  ASSUME Typed, Located, NEW w \in Workers, worker[w] # NoConn, NEW z \in Handled,
         at' = [at EXCEPT ![worker[w]] = z], UNCHANGED <<offer, queue, worker, dead>>
  PROVE  Located' /\ at' \in [Conns -> Stages] /\ worker[w] \in Taken
<1> DEFINE c == worker[w]
<1>1. c \in Conns /\ at[c] \in Handled
  BY DEF Typed, Located
<1>2. \A d \in Conns : at'[d] = IF d = c THEN z ELSE at[d]
  BY <1>1, Zenon DEF Typed
<1>3. at' \in [Conns -> Stages]
  BY <1>1, Zenon DEF Typed, Stages
<1>4. {"offered", "queued", "new", "closed"} \intersect Handled = {}
  BY Zenon DEF Handled, Proxying
<1> HIDE DEF c
<1>5. \A d \in Conns : (at'[d] = "offered" <=> at[d] = "offered") /\ (at'[d] = "queued" <=> at[d] = "queued")
                       /\ (at'[d] \in Handled <=> at[d] \in Handled)
  BY <1>1, <1>2, <1>4, Zenon
<1>6. Located'
  BY <1>5, SMTT(60) DEF Located
<1> QED
  BY <1>1, <1>3, <1>4, <1>6, Zenon DEF Taken, c

LEMMA AdvanceKeeps ==
  ASSUME ServeInv, NEW w \in Workers, Admitted(w) \/ HeadRead(w) \/ DispatchPrefill(w) \/ ForwardEnds(w) \/ StartReverse(w)
  PROVE  ServeInv'
<1> USE DEF ServeInv
<1> DEFINE c == worker[w]
<1>1. UNCHANGED <<next, offer, live, queue, worker, dead, backend, inflight>> /\ worker[w] # NoConn
  BY Zenon DEF Admitted, HeadRead, DispatchPrefill, ForwardEnds, StartReverse, Advance, AtStage, acceptor
<1>2. PICK z \in Handled : at' = [at EXCEPT ![c] = z] /\ (z \in Proxying \/ at[c] \notin Proxying)
  BY Zenon DEF Admitted, HeadRead, DispatchPrefill, ForwardEnds, StartReverse, Advance, AtStage, Handled, Proxying
<1>3. Located' /\ at' \in [Conns -> Stages] /\ c \in Taken
  BY <1>1, <1>2, StageLocated, Zenon
<1>4. Typed'
  BY <1>1, <1>3, Zenon DEF Typed
<1>5. z \in Stages \ {"new", "closed"}
  BY Zenon DEF Stages, Handled, Proxying
<1>6. Counted'
  BY <1>1, <1>2, <1>3, <1>5, StayCounted, Zenon DEF Taken
<1> QED
  BY <1>3, <1>4, <1>6, Zenon

(* A backend is named: the connection is proxied to it from now on. *)
LEMMA PlacedKeeps ==
  ASSUME ServeInv, NEW w \in Workers, NEW b \in Backends, Placed(w, b)
  PROVE  ServeInv'
<1> USE DEF ServeInv
<1> DEFINE c == worker[w]
<1>1. UNCHANGED <<next, offer, live, queue, worker, dead>> /\ c # NoConn /\ at[c] \in {"route", "prefill"}
  BY Zenon DEF Placed, AtStage, acceptor
<1>2. /\ at' = [at EXCEPT ![c] = "connect"] /\ backend' = [backend EXCEPT ![c] = {b}]
      /\ inflight' = [inflight EXCEPT ![b] = @ + 1]
  BY Zenon DEF Placed
<1>3. Located' /\ at' \in [Conns -> Stages] /\ c \in Taken
  BY <1>1, <1>2, StageLocated, Zenon DEF Handled, Proxying
<1>4. c \in Conns /\ backend[c] = {}
  BY <1>1, <1>3, Zenon DEF Taken, Counted, Proxying
<1> HIDE DEF c
<1>5. Typed'
  BY <1>1, <1>2, <1>3, <1>4, SMTT(60) DEF Typed
<1>6. Taken' = Taken
  BY <1>2, <1>3, Zenon DEF Taken, Typed
<1>7. ASSUME NEW a \in Backends PROVE inflight'[a] = Cardinality(On(a)')
  <2>1. \A d \in Conns : backend'[d] = IF d = c THEN {b} ELSE backend[d]
    BY <1>2, <1>4, Zenon DEF Typed
  <2>2. CASE a = b
    <3>1. On(a)' = On(a) \union {c} /\ On(a) \in SUBSET Conns /\ c \in Conns \ On(a)
      BY <1>4, <2>1, <2>2, Zenon DEF On
    <3>2. Cardinality(On(a) \union {c}) = Cardinality(On(a)) + 1
      BY <3>1, CountAdd, Zenon
    <3>3. inflight'[a] = inflight[a] + 1
      BY <1>2, <2>2, Zenon DEF Typed
    <3> QED
      BY <3>1, <3>2, <3>3, Zenon DEF Counted
  <2>3. CASE a # b
    <3>1. On(a)' = On(a)
      BY <1>4, <2>1, <2>3, Zenon DEF On
    <3>2. inflight'[a] = inflight[a]
      BY <1>2, <2>3, Zenon DEF Typed
    <3> QED
      BY <3>1, <3>2, Zenon DEF Counted
  <2> QED
    BY <2>2, <2>3, Zenon
<1>8. ASSUME NEW d \in Conns, at'[d] \notin Proxying PROVE backend'[d] = {}
  <2>1. d # c /\ at'[d] = at[d]
    BY <1>2, <1>4, <1>8, Zenon DEF Typed, Proxying
  <2> QED
    BY <1>2, <1>8, <2>1, Zenon DEF Counted, Typed
<1>9. Counted'
  BY <1>1, <1>6, <1>7, <1>8, Zenon DEF Counted
<1> QED
  BY <1>3, <1>5, <1>9, Zenon

(* handle_conn returns from any of its stages. *)
LEMMA ReturnKeeps ==
  ASSUME ServeInv, NEW w \in Workers, worker[w] # NoConn, Return(w)
  PROVE  ServeInv'
<1> USE DEF ServeInv
<1> DEFINE c == worker[w]
<1>1. c \in Conns /\ at[c] \in Handled
  BY SMTT(60) DEF Typed, Located
<1>2. UNCHANGED <<next, offer, queue, dead>>
  BY Zenon DEF Return, acceptor
<1>3. /\ at' = [at EXCEPT ![c] = "closed"] /\ worker' = [worker EXCEPT ![w] = NoConn] /\ live' = live - 1
      /\ inflight' = [b \in Backends |-> IF b \in backend[c] THEN inflight[b] - 1 ELSE inflight[b]]
      /\ backend' = [backend EXCEPT ![c] = {}]
  BY Zenon DEF Return
<1>4. c \in Taken
  BY <1>1, Zenon DEF Taken, Handled, Proxying
<1>5. \A v \in Workers : worker[v] = c => v = w
  BY Zenon DEF Located
<1> HIDE DEF c
<1>6. Typed'
  BY <1>1, <1>2, <1>3, SMTT(60) DEF Typed, Stages
<1>7. \A d \in Conns : at'[d] = IF d = c THEN "closed" ELSE at[d]
  BY <1>3, Zenon DEF Typed
<1>8. \A v \in Workers : worker'[v] = IF v = w THEN NoConn ELSE worker[v]
  BY <1>3, Zenon DEF Typed
<1>9. Located'
  <2>1. ASSUME NEW d \in Conns PROVE at'[d] \in Handled <=> \E v \in Workers : worker'[v] = d
    <3>1. CASE d = c
      <4>1. at'[d] \notin Handled
        BY <1>7, <3>1, Zenon DEF Handled, Proxying
      <4>2. \A v \in Workers : worker'[v] # d
        BY <1>5, <1>8, <3>1, ServeAssumption, Zenon
      <4> QED
        BY <4>1, <4>2, Zenon
    <3>2. CASE d # c
      <4>1. at'[d] = at[d] /\ \A v \in Workers : worker'[v] = d <=> worker[v] = d
        BY <1>7, <1>8, <3>2, ServeAssumption, Zenon DEF c
      <4> QED
        BY <4>1, SMTT(60) DEF Located
    <3> QED
      BY <3>1, <3>2, Zenon
  <2>2. \A d \in Conns : (at'[d] = "offered" <=> at[d] = "offered") /\ (at'[d] = "queued" <=> at[d] = "queued")
    BY <1>1, <1>7, Zenon DEF Handled, Proxying
  <2>3. \A v, u \in Workers : worker'[v] # NoConn /\ worker'[v] = worker'[u] => v = u
    BY <1>8, SMTT(60) DEF Located
  <2>4. \A v \in dead' : queue'[v] = <<>> /\ worker'[v] = NoConn
    BY <1>2, <1>8, Zenon DEF Located, Typed
  <2> QED
    BY <1>2, <2>1, <2>2, <2>3, <2>4, Zenon DEF Located
<1>10. Counted'
  <2>1. {c} \in SUBSET Taken /\ at' = [d \in Conns |-> IF d \in {c} THEN "closed" ELSE at[d]]
    BY <1>3, <1>4, Zenon DEF Typed
  <2>2. live' = live - Cardinality({c})
    BY <1>3, CountOne, Zenon
  <2> QED
    BY <1>3, <1>4, <2>1, <2>2, EndCounted, Zenon
<1> QED
  BY <1>6, <1>9, <1>10, Zenon

(* A worker that panics drops what it handles and what it had queued. *)
LEMMA PanicKeeps ==
  ASSUME ServeInv, NEW w \in Workers, SpawnPanics(w)
  PROVE  ServeInv'
<1> USE DEF ServeInv
<1> DEFINE c == worker[w]
           D == {c} \union Range(queue[w])
<1>1. c \in Conns /\ c # NoConn /\ at[c] \in Handled
  BY SMTT(60) DEF SpawnPanics, AtStage, Typed, Located, Handled, Proxying
<1>2. UNCHANGED <<next, offer>>
  BY Zenon DEF SpawnPanics, acceptor
<1>3. /\ at' = [d \in Conns |-> IF d \in D THEN "closed" ELSE at[d]] /\ live' = live - Cardinality(D)
      /\ inflight' = [b \in Backends |-> IF b \in backend[c] THEN inflight[b] - 1 ELSE inflight[b]]
      /\ backend' = [backend EXCEPT ![c] = {}] /\ worker' = [worker EXCEPT ![w] = NoConn]
      /\ queue' = [queue EXCEPT ![w] = <<>>] /\ dead' = dead \union {w}
  BY Zenon DEF SpawnPanics
<1>4. \A d \in Range(queue[w]) : d \in Conns /\ at[d] = "queued"
  <2>1. queue[w] \in Seq(Conns)
    BY Zenon DEF Typed
  <2>2. Range(queue[w]) \subseteq Conns
    BY <2>1, SetOf, Zenon
  <2> QED
    BY <2>2, Zenon DEF Located
<1>5. \A v \in Workers : worker[v] = c => v = w
  BY <1>1, Zenon DEF Located
<1>6. D \in SUBSET Taken /\ c \in D /\ c \in Taken /\ \A d \in D \ {c} : at[d] \notin Proxying
  BY <1>1, <1>4, Zenon DEF Taken, Handled, Proxying
<1>7. Counted'
  <2> HIDE DEF c, D
  <2> QED
    BY <1>3, <1>6, EndCounted, Zenon
<1>8. Typed'
  BY <1>1, <1>2, <1>3, NoSet, SMTT(60) DEF Typed, Stages
<1>9. \A d \in Conns : at'[d] = IF d \in D THEN "closed" ELSE at[d]
  BY <1>3, Zenon
<1>10. \A v \in Workers : worker'[v] = (IF v = w THEN NoConn ELSE worker[v]) /\ queue'[v] = (IF v = w THEN <<>> ELSE queue[v])
  BY <1>3, Zenon DEF Typed
<1>11. ASSUME NEW d \in Conns PROVE (d \in D => at[d] \in Handled \union {"queued"}) /\ (at[d] \in Handled /\ d \in D => d = c)
  BY <1>1, <1>4, Zenon DEF Handled, Proxying
<1>12. Located'
  <2>1. ASSUME NEW d \in Conns PROVE at'[d] \in Handled <=> \E v \in Workers : worker'[v] = d
    <3>1. (\E v \in Workers : worker'[v] = d) <=> d # c /\ \E v \in Workers : worker[v] = d
      BY <1>1, <1>5, <1>10, ServeAssumption, Zenon
    <3>2. at'[d] \in Handled <=> at[d] \in Handled /\ d # c
      BY <1>9, <1>11, Zenon DEF Handled, Proxying
    <3> QED
      BY <3>1, <3>2, Zenon DEF Located
  <2>2. ASSUME NEW d \in Conns PROVE at'[d] = "queued" <=> \E v \in Workers : d \in Range(queue'[v])
    <3>1. (\E v \in Workers : d \in Range(queue'[v])) <=> d \notin Range(queue[w]) /\ \E v \in Workers : d \in Range(queue[v])
      BY <1>10, NoSet, Zenon DEF Located
    <3>2. at'[d] = "queued" <=> at[d] = "queued" /\ d \notin Range(queue[w])
      BY <1>1, <1>9, <1>11, Zenon DEF Handled, Proxying
    <3> QED
      BY <3>1, <3>2, Zenon DEF Located
  <2>3. ASSUME NEW d \in Conns PROVE at'[d] = "offered" <=> offer'.conn = d
    <3>1. at'[d] = "offered" <=> at[d] = "offered"
      BY <1>9, <1>11, Zenon DEF Handled, Proxying
    <3> QED
      BY <1>2, <3>1, Zenon DEF Located
  <2>4. \A v \in Workers : OnceEach(queue'[v]) /\ Range(queue'[v]) \subseteq Range(queue[v])
    BY <1>10, NoSet, SMTT(60) DEF Located
  <2>5. \A v, u \in Workers : worker'[v] # NoConn /\ worker'[v] = worker'[u] => v = u
    BY <1>10, SMTT(60) DEF Located
  <2>6. \A v \in dead' : queue'[v] = <<>> /\ worker'[v] = NoConn
    BY <1>3, <1>10, SMTT(60) DEF Located, Typed
  <2>7. \A v, u \in Workers : \A d \in Conns : d \in Range(queue'[v]) /\ d \in Range(queue'[u]) => v = u
    BY <2>4, ZenonT(60) DEF Located
  <2>8. \A v \in Workers : OnceEach(queue'[v])
    BY <2>4, Zenon
  <2> HIDE DEF ServeInv
  <2> QED
    BY <2>1, <2>2, <2>3, <2>5, <2>6, <2>7, <2>8, Zenon DEF Located
<1> QED
  BY <1>7, <1>8, <1>12, Zenon

-----------------------------------------------------------------------------
(* Every step keeps the invariant. *)
LEMMA ServeStep == ServeInv /\ [Next]_vars => ServeInv'
<1> SUFFICES ASSUME ServeInv, [Next]_vars PROVE ServeInv'
  BY Zenon
<1>1. ASSUME UNCHANGED <<next, queue, worker, dead, at, backend, inflight, live>>,
             offer' = offer \/ (offer'.conn = offer.conn /\ offer' \in [conn : Conns \union {NoConn}, attempt : Nat])
      PROVE  ServeInv'
  <2>1. Typed'
    BY <1>1, Zenon DEF ServeInv, Typed
  <2>2. Located'
    BY <1>1, SMTT(60) DEF ServeInv, Located
  <2>3. Counted'
    BY <1>1, Zenon DEF ServeInv, Counted, Taken, On
  <2> QED
    BY <2>1, <2>2, <2>3, Zenon DEF ServeInv
<1>2. CASE QueueFull
  <2>1. offer'.conn = offer.conn /\ offer' \in [conn : Conns \union {NoConn}, attempt : Nat]
    <3>1. offer' = [offer EXCEPT !.attempt = offer.attempt + 1]
      BY <1>2, Zenon DEF QueueFull
    <3>2. offer \in [conn : Conns \union {NoConn}, attempt : Nat]
      BY Zenon DEF ServeInv, Typed
    <3>3. offer.attempt + 1 \in Nat
      BY <3>2
    <3> QED
      BY <3>1, <3>2, <3>3, Zenon
  <2> QED
    BY <1>1, <1>2, <2>1, Zenon DEF QueueFull, Offering
<1>3. ASSUME (\E c \in Conns : ThreadEnds(c)) \/ (\E p \in Pumps : PumpTake(p) \/ PumpEnds(p)) \/ UNCHANGED vars
      PROVE  UNCHANGED <<next, queue, worker, dead, at, backend, inflight, live, offer>>
  BY <1>3, Zenon DEF ThreadEnds, PumpTake, PumpEnds, vars, acceptor
<1>4. ASSUME NEW w \in Workers, GiveUp(w) \/ ForwardFails(w) \/ Join(w) PROVE ServeInv'
  BY <1>4, ReturnKeeps, Zenon DEF GiveUp, ForwardFails, Join, AtStage
<1> QED
  BY <1>1, <1>2, <1>3, <1>4, AcceptKeeps, EnqueueKeeps, RefuseKeeps, TakeKeeps, AdvanceKeeps, PlacedKeeps, PanicKeeps, Zenon
  DEF Next

(* The load signal of a backend is exact on every exit path, the panic of  *)
(* a worker among them.                                                    *)
THEOREM LoadExact == Spec => []InflightExact
<1>1. ServeInv => InflightExact
  <2> SUFFICES ASSUME ServeInv, NEW b \in Backends
               PROVE  inflight[b] = Cardinality({c \in Conns : at[c] \in Proxying /\ b \in backend[c]})
    BY Zenon DEF InflightExact
  <2>1. \A c \in Conns : b \in backend[c] => at[c] \in Proxying
    BY Zenon DEF ServeInv, Counted
  <2>2. On(b) = {c \in Conns : at[c] \in Proxying /\ b \in backend[c]}
    BY <2>1, Zenon DEF On
  <2> QED
    BY <2>2, Zenon DEF ServeInv, Counted
<1> QED
  BY <1>1, ServeStart, ServeStep, PTL DEF Spec

(* A slot of the budget has one owner, is counted once, and goes back on   *)
(* every path.                                                             *)
THEOREM SlotsExact == Spec => []SlotsOwned
<1>1. ServeInv => SlotsOwned
  <2> SUFFICES ASSUME ServeInv PROVE SlotsOwned
    BY Zenon
  <2> DEFINE places(c) == {<<"offer", 0>> : o \in {offer.conn} \intersect {c}}
               \union {<<"queue", w>> : w \in {v \in Workers \ dead : c \in Range(queue[v])}}
               \union {<<"worker", w>> : w \in {v \in Workers \ dead : worker[v] = c}}
  <2>0. \A w \in dead : Range(queue[w]) = {} /\ worker[w] = NoConn
    BY NoSet, Zenon DEF ServeInv, Located
  <2>1. ASSUME NEW c \in Conns, at[c] \in {"new", "closed"} PROVE places(c) = {}
    <3>1. offer.conn # c /\ (\A w \in Workers : c \notin Range(queue[w])) /\ \A w \in Workers : worker[w] # c
      BY <2>1, Zenon DEF ServeInv, Located, Handled, Proxying
    <3> QED
      BY <3>1, Zenon
  <2>2. ASSUME NEW c \in Conns, at[c] \notin {"new", "closed"} PROVE \E x : places(c) = {x}
    <3>1. CASE at[c] = "offered"
      <4>1. offer.conn = c /\ (\A w \in Workers : c \notin Range(queue[w])) /\ \A w \in Workers : worker[w] # c
        BY <3>1, Zenon DEF ServeInv, Located, Handled, Proxying
      <4>2. places(c) = {<<"offer", 0>>}
        BY <4>1, Zenon
      <4> QED
        BY <4>2, Zenon
    <3>2. CASE at[c] = "queued"
      <4>1. offer.conn # c /\ \A w \in Workers : worker[w] # c
        BY <3>2, Zenon DEF ServeInv, Located, Handled, Proxying
      <4>2. PICK w \in Workers : c \in Range(queue[w])
        BY <3>2, Zenon DEF ServeInv, Located
      <4>3. w \notin dead /\ \A v \in Workers : c \in Range(queue[v]) => v = w
        BY <2>0, <4>2, Zenon DEF ServeInv, Located
      <4>4. places(c) = {<<"queue", w>>}
        BY <4>1, <4>2, <4>3, Zenon
      <4> QED
        BY <4>4, Zenon
    <3>3. CASE at[c] \in Handled
      <4>1. offer.conn # c /\ \A w \in Workers : c \notin Range(queue[w])
        BY <3>3, Zenon DEF ServeInv, Located, Handled, Proxying
      <4>2. PICK w \in Workers : worker[w] = c
        BY <3>3, Zenon DEF ServeInv, Located
      <4>3. w \notin dead /\ \A v \in Workers : worker[v] = c => v = w
        BY <2>0, <4>2, ServeAssumption, SMTT(60) DEF ServeInv, Located
      <4>4. places(c) = {<<"worker", w>>}
        BY <4>1, <4>2, <4>3, Zenon
      <4> QED
        BY <4>4, Zenon
    <3> QED
      BY <2>2, <3>1, <3>2, <3>3, Zenon DEF ServeInv, Typed, Stages
  <2> HIDE DEF places
  <2>3. {c \in Conns : places(c) # {}} = Taken
    BY <2>1, <2>2, Zenon DEF Taken
  <2>4. ASSUME NEW c \in Conns PROVE Cardinality(places(c)) = IF at[c] \in {"new", "closed"} THEN 0 ELSE 1
    <3>1. CASE at[c] \in {"new", "closed"}
      BY <2>1, <3>1, FS_EmptySet, Zenon
    <3>2. CASE at[c] \notin {"new", "closed"}
      <4>1. PICK x : places(c) = {x}
        BY <2>2, <3>2, Zenon
      <4> QED
        BY <3>2, <4>1, CountOne, Zenon
    <3> QED
      BY <3>1, <3>2, Zenon
  <2>5. live = Cardinality({c \in Conns : places(c) # {}}) /\ live <= MaxConns
    BY <2>3, Zenon DEF ServeInv, Counted
  <2> QED
    BY <2>4, <2>5, Zenon DEF SlotsOwned, places
<1> QED
  BY <1>1, ServeStart, ServeStep, PTL DEF Spec
=============================================================================
