--------------------------- MODULE AdmissionProofs ---------------------------
(***************************************************************************)
(* Proofs about the two admission buckets: AdmitBucket for every number of *)
(* connections and reseeders and every capacity, XdpAdmit for every number *)
(* of CPUs, every capacity and every refill rate.                          *)
(***************************************************************************)
EXTENDS AdmitBucket, XdpAdmit, FiniteSetTheorems, TLAPS

(* The steps that change neither tokens nor who holds one. *)
Quiet ==
  /\ UNCHANGED tokens
  /\ \A c \in Conns : pc'[c] \in HoldingStates <=> pc[c] \in HoldingStates

(* What each operation does to the tokens and to the set of holders. *)
LEMMA StepShapes ==
  ASSUME TypeOK, Next
  PROVE  \/ Quiet
         \/ \E c \in Conns : /\ c \notin Held /\ Held' = Held \union {c}
                             /\ tokens # 0 /\ tokens' = tokens - 1
                             /\ UNCHANGED <<capacity, reseeds>>
         \/ \E c \in Conns : /\ c \in Held /\ Held' = Held \ {c}
                             /\ pc[c] = "release_cas"
                             /\ tokens' = Lesser(tokens + 1, cap[c])
                             /\ UNCHANGED <<capacity, reseeds>>
         \/ \E r \in Reseeders : ReseedTokens(r)
<1>1. ASSUME NEW c \in Conns,
             \/ Arrive(c) \/ AdmitLoad(c) \/ Shed(c) \/ AdmitCasFails(c)
             \/ Finish(c) \/ ReleaseLoad(c) \/ ReleaseLoadCap(c) \/ ReleaseCasFails(c)
      PROVE  Quiet
  BY <1>1 DEF TypeOK, Quiet, HoldingStates, Arrive, AdmitLoad, Shed,
     AdmitCasFails, Finish, ReleaseLoad, ReleaseLoadCap, ReleaseCasFails
<1>2. ASSUME NEW c \in Conns, AdmitCas(c)
      PROVE  /\ c \notin Held /\ Held' = Held \union {c}
             /\ tokens # 0 /\ tokens' = tokens - 1
             /\ UNCHANGED <<capacity, reseeds>>
  BY <1>2, Zenon DEF TypeOK, Held, HoldingStates, AdmitCas
<1>3. ASSUME NEW c \in Conns, ReleaseCas(c)
      PROVE  /\ c \in Held /\ Held' = Held \ {c} /\ pc[c] = "release_cas"
             /\ tokens' = Lesser(tokens + 1, cap[c])
             /\ UNCHANGED <<capacity, reseeds>>
  BY <1>3, Zenon DEF TypeOK, Held, HoldingStates, ReleaseCas
<1>4. ASSUME NEW r \in Reseeders, NEW seed \in Seeds, ReseedCapacity(r, seed)
      PROVE  Quiet
  BY <1>4, Zenon DEF ReseedCapacity, Quiet
<1> QED
  BY <1>1, <1>2, <1>3, <1>4, Zenon DEF Next

(* Loaded values are of the right kind, and a loaded capacity is never 0. *)
BucketType ==
  /\ TypeOK
  /\ \A c \in Conns : pc[c] = "release_cas" => cap[c] # 0

(* A new bucket is well typed, whatever capacity it is created with. *)
LEMMA TypeInit == Init => BucketType
BY BucketAssumption DEF Init, BucketType, TypeOK, AtLeastOne

(* Each load, exchange and store keeps the bucket well typed: no exchange  *)
(* takes a token below zero.                                               *)
LEMMA TypeStep == BucketType /\ [Next]_vars => BucketType'
<1> SUFFICES ASSUME BucketType, [Next]_vars PROVE BucketType'
  BY Zenon
<1> USE DEF BucketType, TypeOK, HoldingStates
<1>1. ASSUME NEW c \in Conns, Arrive(c) \/ Shed(c) \/ Finish(c) PROVE BucketType'
  BY <1>1 DEF Arrive, Shed, Finish
<1>2. ASSUME NEW c \in Conns, AdmitLoad(c) PROVE BucketType'
  BY <1>2, Zenon DEF AdmitLoad
<1>3. ASSUME NEW c \in Conns, AdmitCas(c) PROVE BucketType'
  BY <1>3 DEF AdmitCas
<1>4. ASSUME NEW c \in Conns, AdmitCasFails(c) PROVE BucketType'
  BY <1>4, Zenon DEF AdmitCasFails
<1>5. ASSUME NEW c \in Conns, ReleaseLoad(c) \/ ReleaseLoadCap(c) PROVE BucketType'
  BY <1>5 DEF ReleaseLoad, ReleaseLoadCap
<1>6. ASSUME NEW c \in Conns, ReleaseCas(c) PROVE BucketType'
  BY <1>6 DEF ReleaseCas, Lesser
<1>7. ASSUME NEW c \in Conns, ReleaseCasFails(c) PROVE BucketType'
  BY <1>7, Zenon DEF ReleaseCasFails
<1>8. ASSUME NEW r \in Reseeders, NEW seed \in Seeds, ReseedCapacity(r, seed)
      PROVE  BucketType'
  BY <1>8, BucketAssumption DEF ReseedCapacity, AtLeastOne
<1>9. ASSUME NEW r \in Reseeders, ReseedTokens(r) PROVE BucketType'
  BY <1>9, Zenon DEF ReseedTokens
<1>10. CASE UNCHANGED vars
  BY <1>10, Zenon DEF vars
<1> QED
  BY <1>1, <1>2, <1>3, <1>4, <1>5, <1>6, <1>7, <1>8, <1>9, <1>10, Zenon DEF Next

(* The strengthened type invariant holds in every reachable state. *)
LEMMA TypeAlways == Spec => []BucketType
BY TypeInit, TypeStep, PTL DEF Spec

(* Every reachable state of the bucket and its callers is well typed. *)
THEOREM TypeCorrect == Spec => []TypeOK
<1>1. BucketType => TypeOK
  BY Zenon DEF BucketType
<1> QED
  BY <1>1, TypeAlways, PTL

-----------------------------------------------------------------------------

(* A step that empties the bucket leaves its own connection as a holder. *)
LEMMA NotWedgedStep == BucketType /\ NotWedged /\ [Next]_vars => NotWedged'
<1> SUFFICES ASSUME BucketType, NotWedged, [Next]_vars PROVE NotWedged'
  BY Zenon
<1>1. CASE Quiet
  BY <1>1, Zenon DEF Quiet, NotWedged, Held
<1>2. ASSUME NEW c \in Conns, Held' = Held \union {c} PROVE NotWedged'
  BY <1>2, Zenon DEF NotWedged
<1>3. ASSUME NEW c \in Conns, pc[c] = "release_cas", tokens' = Lesser(tokens + 1, cap[c])
      PROVE  NotWedged'
  BY <1>3 DEF NotWedged, BucketType, TypeOK, Lesser
<1>4. ASSUME NEW r \in Reseeders, ReseedTokens(r) PROVE NotWedged'
  BY <1>4, Zenon DEF ReseedTokens, NotWedged
<1>5. CASE UNCHANGED vars
  BY <1>5, Zenon DEF vars, NotWedged, Held
<1> QED
  BY <1>1, <1>2, <1>3, <1>4, <1>5, StepShapes, Zenon DEF BucketType

(* An empty bucket always has a holder that will put a token back, for any *)
(* number of connections and any sequence of reseeds.                      *)
THEOREM NeverWedged == Spec => []NotWedged
<1>1. Init => NotWedged
  BY BucketAssumption DEF Init, NotWedged, AtLeastOne
<1> QED
  BY <1>1, NotWedgedStep, TypeAlways, PTL DEF Spec

-----------------------------------------------------------------------------
(* Until the first reseed the capacity a release loaded is still the       *)
(* capacity when its exchange succeeds, so its clamp never bites: the      *)
(* releasing connection is itself one of the holders.                      *)

CapFresh ==
  reseeds = 0 =>
    /\ seeding = [r \in Reseeders |-> 0]
    /\ \A c \in Conns : pc[c] = "release_cas" => cap[c] = capacity
    /\ tokens + Cardinality(Held) = capacity

(* Finitely many connections hold a token, so they can be counted. *)
LEMMA HeldFinite ==
  IsFiniteSet(Held) /\ Cardinality(Held) \in Nat
<1>1. Held \in SUBSET Conns
  BY Zenon DEF Held
<1>2. IsFiniteSet(Held)
  BY <1>1, FS_Subset, BucketAssumption, Zenon
<1> QED
  BY <1>2, FS_CardinalityType, Zenon

(* Until the first reseed, each step keeps the token count exact and       *)
(* loaded capacities current.                                              *)
LEMMA CapFreshStep ==
  ASSUME BucketType, CapFresh, [Next]_vars
  PROVE  CapFresh'
<1> SUFFICES ASSUME reseeds' = 0
             PROVE  /\ seeding' = [r \in Reseeders |-> 0]
                    /\ \A c \in Conns : pc'[c] = "release_cas" => cap'[c] = capacity'
                    /\ tokens' + Cardinality(Held') = capacity'
  BY Zenon DEF CapFresh
<1> USE DEF CapFresh
<1>0. \A r \in Reseeders : ~ReseedTokens(r) /\ \A seed \in Seeds : ~ReseedCapacity(r, seed)
  <2>1. \A r \in Reseeders, seed \in Seeds : ~ReseedCapacity(r, seed)
    BY DEF ReseedCapacity, BucketType, TypeOK
  <2>2. ASSUME NEW r \in Reseeders, ReseedTokens(r) PROVE FALSE
    BY <2>2, Zenon DEF ReseedTokens
  <2> QED
    BY <2>1, <2>2, Zenon
<1>1. reseeds = 0 /\ capacity' = capacity /\ seeding' = seeding
  BY <1>0, ZenonT(60) DEF Next, vars, Arrive, AdmitLoad, Shed, AdmitCas, AdmitCasFails, Finish,
     ReleaseLoad, ReleaseLoadCap, ReleaseCas, ReleaseCasFails
<1>2. \A c \in Conns : pc'[c] = "release_cas" => cap'[c] = capacity'
  BY <1>0, <1>1 DEF Next, vars, Arrive, AdmitLoad, Shed, AdmitCas, AdmitCasFails, Finish,
     ReleaseLoad, ReleaseLoadCap, ReleaseCas, ReleaseCasFails, BucketType, TypeOK
<1>3. tokens' + Cardinality(Held') = capacity
  <2>1. CASE UNCHANGED vars
    BY <1>1, <2>1, Zenon DEF vars, Held
  <2>2. CASE Quiet
    <3>1. Held' = Held
      BY <2>2, Zenon DEF Quiet, Held
    <3> QED
      BY <1>1, <2>2, <3>1, Zenon DEF Quiet
  <2>3. ASSUME NEW c \in Conns, c \notin Held, Held' = Held \union {c},
               tokens # 0, tokens' = tokens - 1
        PROVE  tokens' + Cardinality(Held') = capacity
    <3>1. Cardinality(Held') = Cardinality(Held) + 1
      BY <2>3, HeldFinite, FS_AddElement, Zenon
    <3> QED
      BY <1>1, <2>3, <3>1, HeldFinite DEF BucketType, TypeOK
  <2>4. ASSUME NEW c \in Conns, c \in Held, Held' = Held \ {c},
               pc[c] = "release_cas", tokens' = Lesser(tokens + 1, cap[c])
        PROVE  tokens' + Cardinality(Held') = capacity
    <3>1. Cardinality(Held') = Cardinality(Held) - 1
      BY <2>4, HeldFinite, FS_RemoveElement, Zenon
    <3>2. Cardinality(Held) # 0
      BY <2>4, HeldFinite, FS_EmptySet, Zenon
    <3>3. cap[c] = capacity
      BY <1>1, <2>4, Zenon
    <3> QED
      BY <1>1, <2>4, <3>1, <3>2, <3>3, HeldFinite DEF Lesser, BucketType, TypeOK
  <2> QED
    BY <1>0, <2>1, <2>2, <2>3, <2>4, StepShapes, Zenon DEF BucketType
<1> QED
  BY <1>1, <1>2, <1>3, Zenon

(* Until the first reseed, the token count is exact in every reachable     *)
(* state.                                                                  *)
LEMMA CapFreshAlways == Spec => []CapFresh
<1>1. Init => CapFresh
  <2> SUFFICES ASSUME Init PROVE CapFresh
    BY Zenon
  <2>1. Held = {}
    BY Zenon DEF Init, Held, HoldingStates
  <2>2. Cardinality(Held) = 0
    BY <2>1, FS_EmptySet, Zenon
  <2>3. capacity \in Nat
    BY BucketAssumption, Zenon DEF Init, AtLeastOne
  <2> QED
    BY <2>2, <2>3 DEF Init, CapFresh
<1>2. BucketType /\ CapFresh /\ [Next]_vars => CapFresh'
  BY CapFreshStep, Zenon
<1> QED
  BY <1>1, <1>2, TypeAlways, PTL DEF Spec

(* Tokens are conserved by every interleaving of try_admit and release: at *)
(* most `capacity` connections are admitted at once before a reseed.       *)
THEOREM TokensConserved == Spec => []Conservation
<1>1. CapFresh => Conservation
  BY Zenon DEF CapFresh, Conservation
<1> QED
  BY <1>1, CapFreshAlways, PTL

(* Until the first reseed, a connection is shed only while every token is  *)
(* held by another.                                                        *)
THEOREM ShedsOnlyWhenFull == Spec => NoEarlyShed
<1> DEFINE A == reseeds = 0 /\ shed_total' # shed_total
                  => Cardinality(Held) = capacity
<1>1. BucketType /\ CapFresh /\ [Next]_vars => [A]_vars
  <2> SUFFICES ASSUME BucketType, CapFresh, Next, reseeds = 0, shed_total' # shed_total
               PROVE  Cardinality(Held) = capacity
    BY Zenon
  <2>1. tokens = 0
    BY Zenon DEF Next, Arrive, AdmitLoad, Shed, AdmitCas, AdmitCasFails, Finish,
       ReleaseLoad, ReleaseLoadCap, ReleaseCas, ReleaseCasFails,
       ReseedCapacity, ReseedTokens
  <2> QED
    BY <2>1, HeldFinite DEF CapFresh
<1> QED
  BY <1>1, TypeAlways, CapFreshAlways, PTL DEF Spec, NoEarlyShed

-----------------------------------------------------------------------------
(* Every reseed under way is a bucket still to be handed out, so the bound *)
(* that is inductive counts them on the side of what is already out.       *)

Pending == {r \in Reseeders : seeding[r] # 0}

SeedLimit(most) ==
  /\ most \in Nat /\ most >= 1
  /\ \A seed \in Seeds : AtLeastOne(seed) <= most

OutBound(most) ==
  /\ \A r \in Reseeders : seeding[r] <= most
  /\ tokens + Cardinality(Held) + Cardinality(Pending) * most
       <= AtLeastOne(BaseBurst) + reseeds * most

(* Finitely many reseeds are under way at a time. *)
LEMMA PendingFinite ==
  IsFiniteSet(Pending) /\ Cardinality(Pending) \in Nat
<1>1. Pending \in SUBSET Reseeders
  BY Zenon DEF Pending
<1>2. IsFiniteSet(Pending)
  BY <1>1, FS_Subset, BucketAssumption, Zenon
<1> QED
  BY <1>2, FS_CardinalityType, Zenon

(* A step of a connection raises neither the tokens nor the holders without *)
(* lowering the other by as much.                                          *)
LEMMA ConnectionsMakeNothingUp ==
  ASSUME BucketType, Next, \A r \in Reseeders : ~ReseedTokens(r)
  PROVE  tokens' + Cardinality(Held') <= tokens + Cardinality(Held)
<1> USE DEF BucketType, TypeOK
<1>1. CASE Quiet
  <2>1. Held' = Held
    BY <1>1, Zenon DEF Quiet, Held
  <2> QED
    BY <1>1, <2>1, HeldFinite DEF Quiet
<1>2. ASSUME NEW c \in Conns, c \notin Held, Held' = Held \union {c}, tokens' = tokens - 1
      PROVE  tokens' + Cardinality(Held') <= tokens + Cardinality(Held)
  <2>1. Cardinality(Held') = Cardinality(Held) + 1
    BY <1>2, HeldFinite, FS_AddElement, Zenon
  <2> QED
    BY <1>2, <2>1, HeldFinite
<1>3. ASSUME NEW c \in Conns, c \in Held, Held' = Held \ {c},
             tokens' = Lesser(tokens + 1, cap[c])
      PROVE  tokens' + Cardinality(Held') <= tokens + Cardinality(Held)
  <2>1. Cardinality(Held') = Cardinality(Held) - 1
    BY <1>3, HeldFinite, FS_RemoveElement, Zenon
  <2>2. tokens' <= tokens + 1 /\ tokens' \in Nat
    BY <1>3 DEF Lesser
  <2> QED
    BY <2>1, <2>2, HeldFinite
<1> QED
  BY <1>1, <1>2, <1>3, StepShapes, Zenon

(* Each step keeps the bound: only the first store of a reseed raises its  *)
(* right side, and by as much as it announces.                             *)
LEMMA OutBoundStep ==
  ASSUME NEW most, SeedLimit(most), BucketType, OutBound(most), [Next]_vars
  PROVE  OutBound(most)'
<1> USE DEF BucketType, TypeOK, SeedLimit
<1>0. AtLeastOne(BaseBurst) \in Nat
  BY BucketAssumption, Zenon DEF AtLeastOne
<1>1. ASSUME NEW r \in Reseeders, NEW seed \in Seeds, ReseedCapacity(r, seed)
      PROVE  OutBound(most)'
  <2>1. Pending' = Pending \union {r} /\ r \notin Pending
    BY <1>1, BucketAssumption DEF ReseedCapacity, Pending, AtLeastOne
  <2>2. Cardinality(Pending') = Cardinality(Pending) + 1
    BY <2>1, PendingFinite, FS_AddElement, Zenon
  <2>3. Held' = Held /\ tokens' = tokens /\ reseeds' = reseeds + 1
    BY <1>1, Zenon DEF ReseedCapacity, Held
  <2>4. \A s \in Reseeders : seeding'[s] <= most
    BY <1>1, BucketAssumption, Zenon DEF ReseedCapacity, OutBound, AtLeastOne
  <2>5. /\ (Cardinality(Pending) + 1) * most = Cardinality(Pending) * most + most
        /\ (reseeds + 1) * most = reseeds * most + most
        /\ Cardinality(Pending) * most \in Nat /\ reseeds * most \in Nat
    BY PendingFinite
  <2> QED
    BY <1>0, <2>2, <2>3, <2>4, <2>5, HeldFinite DEF OutBound
<1>2. ASSUME NEW r \in Reseeders, ReseedTokens(r) PROVE OutBound(most)'
  <2>1. Pending' = Pending \ {r} /\ r \in Pending
    BY <1>2, Zenon DEF ReseedTokens, Pending
  <2>2. Cardinality(Pending') = Cardinality(Pending) - 1
    BY <2>1, PendingFinite, FS_RemoveElement, Zenon
  <2>3. Held' = Held /\ tokens' <= most /\ tokens' \in Nat /\ reseeds' = reseeds
    BY <1>2, Zenon DEF ReseedTokens, Held, OutBound
  <2>4. \A s \in Reseeders : seeding'[s] <= most
    BY <1>2 DEF ReseedTokens, OutBound
  <2>5. /\ (Cardinality(Pending) - 1) * most = Cardinality(Pending) * most - most
        /\ Cardinality(Pending) * most \in Nat /\ reseeds * most \in Nat
    BY PendingFinite
  <2> QED
    BY <1>0, <2>2, <2>3, <2>4, <2>5, HeldFinite DEF OutBound
<1>3. CASE /\ Next /\ \A r \in Reseeders : ~ReseedTokens(r)
           /\ \A r \in Reseeders, seed \in Seeds : ~ReseedCapacity(r, seed)
  <2>1. seeding' = seeding /\ reseeds' = reseeds
    BY <1>3, Zenon DEF Next, Arrive, AdmitLoad, Shed, AdmitCas, AdmitCasFails, Finish,
       ReleaseLoad, ReleaseLoadCap, ReleaseCas, ReleaseCasFails
  <2>2. Pending' = Pending
    BY <2>1, Zenon DEF Pending
  <2>3. tokens' + Cardinality(Held') <= tokens + Cardinality(Held)
    BY <1>3, ConnectionsMakeNothingUp, Zenon
  <2>4. tokens' \in Nat /\ Cardinality(Held') \in Nat
    <3>1. Held' \in SUBSET Conns
      BY Zenon DEF Held
    <3>2. IsFiniteSet(Held')
      BY <3>1, FS_Subset, BucketAssumption, Zenon
    <3>3. tokens' \in Nat
      <4>1. BucketType'
        BY TypeStep, Zenon
      <4> QED
        BY <4>1, Zenon DEF BucketType, TypeOK
    <3> QED
      BY <3>1, <3>2, <3>3, FS_CardinalityType, Zenon
  <2>5. Cardinality(Pending) * most \in Nat /\ reseeds * most \in Nat
    BY PendingFinite
  <2> QED
    BY <1>0, <2>1, <2>2, <2>3, <2>4, <2>5, HeldFinite DEF OutBound
<1>4. CASE UNCHANGED vars
  BY <1>4, Zenon DEF vars, OutBound, Held, Pending
<1> QED
  BY <1>1, <1>2, <1>3, <1>4, Zenon DEF Next

(* However connections and reseeds interleave, the tokens left and the     *)
(* connections admitted never exceed the first burst and one largest       *)
(* capacity per call of reseed.                                            *)
THEOREM OverAdmitLimited == Spec => []OverAdmitBound
<1>1. PICK largest \in Seeds : \A seed \in Seeds : seed <= largest
  BY BucketAssumption, Zenon
<1> DEFINE most == AtLeastOne(largest)
<1>2. SeedLimit(most) /\ most \in {AtLeastOne(seed) : seed \in Seeds}
  BY <1>1, BucketAssumption DEF SeedLimit, AtLeastOne
<1> HIDE DEF most
<1>3. Init => OutBound(most)
  <2> SUFFICES ASSUME Init PROVE OutBound(most)
    BY Zenon
  <2>1. Held = {} /\ Pending = {}
    BY Zenon DEF Init, Held, HoldingStates, Pending
  <2>2. Cardinality(Held) = 0 /\ Cardinality(Pending) = 0
    BY <2>1, FS_EmptySet, Zenon
  <2>3. tokens = AtLeastOne(BaseBurst) /\ AtLeastOne(BaseBurst) \in Nat
    BY BucketAssumption, Zenon DEF Init, AtLeastOne
  <2> QED
    BY <1>2, <2>2, <2>3 DEF Init, OutBound, SeedLimit
<1>4. BucketType /\ OutBound(most) /\ [Next]_vars => OutBound(most)'
  BY <1>2, OutBoundStep, Zenon
<1>5. BucketType /\ OutBound(most) => OverAdmitBound
  <2> SUFFICES ASSUME BucketType, OutBound(most) PROVE OverAdmitBound
    BY Zenon
  <2>1. Cardinality(Pending) * most \in Nat /\ reseeds * most \in Nat
    BY <1>2, PendingFinite DEF SeedLimit, BucketType, TypeOK
  <2>2. tokens + Cardinality(Held) <= AtLeastOne(BaseBurst) + reseeds * most
    BY <2>1, HeldFinite, BucketAssumption DEF OutBound, BucketType, TypeOK, AtLeastOne
  <2> QED
    BY <1>2, <2>2, Zenon DEF OverAdmitBound, SeedLimit
<1> QED
  BY <1>3, <1>4, <1>5, TypeAlways, PTL DEF Spec

-----------------------------------------------------------------------------
(* The bucket in the kernel map. *)

(* CPUs that took from an empty bucket and still have to put the token     *)
(* back.                                                                   *)
Dipping == {c \in Cpus : cpu[c].at = "compensate"}

(* The credits CPUs have won and not yet added, token by token: CPU c owes *)
(* the map the tokens <<c, 1>> .. <<c, credit>>.                           *)
Crediting == {"capacity", "room", "add"}

Share(c, n) == {c} \X (1..n)

OwedIn(frames) ==
  {x \in Cpus \X Nat : /\ frames[x[1]].at \in Crediting
                       /\ 1 <= x[2] /\ x[2] <= frames[x[1]].credit}

Owed == OwedIn(cpu)

(* The time at which a CPU that is about to exchange last_refill_ns would  *)
(* set it has passed, as has the time userspace is going to write.         *)
ClockSound ==
  /\ map_last_refill <= now
  /\ writer.stamp <= now
  /\ \A c \in Cpus : cpu[c].at = "cas" => cpu[c].seen + cpu[c].credit * NsPerToken <= now

Issued == map_tokens + Cardinality(Dipping) + xdp_pass_total + Cardinality(Owed)

RateInv ==
  /\ IsFiniteSet(Owed)
  /\ writer.at # "idle" => map_reseeds # 0
  /\ map_reseeds = 0 =>
       Issued * NsPerToken <= Clamped(Capacity) * NsPerToken + map_last_refill

(* The frames the program moves through are frames. *)
LEMMA FrameTypes ==
  /\ \A label \in {"idle", "refill", "clock", "cas", "capacity", "room", "add", "take",
                   "compensate"} : At(label) \in Frame
  /\ \A n \in Nat : /\ [At("clock") EXCEPT !.seen = n] \in Frame
                    /\ [At("capacity") EXCEPT !.credit = n] \in Frame
                   /\ [At("add") EXCEPT !.credit = n] \in Frame
  /\ \A f \in Frame, n \in Nat : /\ [f EXCEPT !.at = "cas", !.credit = n] \in Frame
                                 /\ [f EXCEPT !.at = "room", !.seen = n] \in Frame
BY ZenonT(60) DEF Frame, At

(* The length of a token in clock ticks is positive. *)
LEMMA TickType == RefillPerSec # 0 => NsPerToken \in Nat \ {0}
BY XdpAssumption DEF NsPerToken, Clamped

(* Well typed; refill is entered only when it is not disabled, and the     *)
(* capacity userspace writes is never zero.                                *)
XdpType ==
  /\ XdpTypeOK
  /\ \A c \in Cpus : cpu[c].at \in {"refill", "clock", "cas"} => RefillPerSec # 0
  /\ writer.at # "idle" => writer.cap # 0

(* What a CPU credits is a whole number of tokens, of time that has passed. *)
LEMMA AccruedType ==
  ASSUME XdpTypeOK, RefillPerSec # 0, NEW last \in Nat
  PROVE  /\ Accrued(last) \in Nat
         /\ Accrued(last) # 0 => last + Accrued(last) * NsPerToken <= now
<1> DEFINE n == NsPerToken
<1>1. n \in Nat \ {0}
  BY TickType, Zenon
<1>2. CASE now <= last
  BY <1>2, Zenon DEF Accrued
<1>3. CASE ~(now <= last)
  <2> HIDE DEF n
  <2>1. now - last \in Nat
    BY <1>3 DEF XdpTypeOK
  <2> DEFINE d == now - last
  <2>2. \A x \in Nat : (x \div n) \in Nat /\ (x \div n) * n <= x
    BY <1>1
  <2>3. (d \div n) \in Nat /\ (d \div n) * n <= d /\ (d \div n) * n \in Nat
    BY <1>1, <2>1, <2>2
  <2>4. Accrued(last) = d \div n
    BY <1>3, Zenon DEF Accrued, n
  <2> QED
    BY <2>3, <2>4 DEF XdpTypeOK, n
<1> QED
  BY <1>2, <1>3, Zenon

(* Every step of the program, the clock and userspace keeps the map value, *)
(* the statistics and the frames well typed.                               *)
LEMMA XdpTypeStep == XdpType /\ [XdpNext]_xdpVars => XdpType'
<1> SUFFICES ASSUME XdpType, [XdpNext]_xdpVars PROVE XdpType'
  BY Zenon
<1> USE DEF XdpType, XdpTypeOK
<1>1. \A c \in Cpus : cpu[c].seen \in Nat /\ cpu[c].credit \in Nat
  BY Zenon DEF Frame
<1>2. ASSUME NEW c \in Cpus, NEW label, NEW f \in Frame, Step(c, label, f),
             f.at \in {"refill", "clock", "cas"} => RefillPerSec # 0
      PROVE  /\ cpu' \in [Cpus -> Frame]
             /\ \A d \in Cpus : cpu'[d].at \in {"refill", "clock", "cas"} => RefillPerSec # 0
             /\ map_capacity' \in Nat \ {0} /\ now' \in Nat /\ map_reseeds' \in Nat
             /\ writer' \in [at : {"idle", "tokens", "capacity", "last"}, cap : Nat, stamp : Nat]
             /\ writer'.at # "idle" => writer'.cap # 0
  BY <1>2, Zenon DEF Step
<1>3. CASE Tick
  BY <1>3 DEF Tick
<1>4. ASSUME NEW c \in Cpus, Syn(c) PROVE XdpType'
  <2> DEFINE f == At(IF RefillPerSec = 0 THEN "take" ELSE "refill")
  <2>1. f \in Frame /\ f.at \in {"refill", "take"} /\ (f.at = "refill" => RefillPerSec # 0)
    BY FrameTypes, Zenon DEF At
  <2> HIDE DEF f
  <2>2. Step(c, "idle", f)
    BY <1>4, Zenon DEF Syn, f
  <2> QED
    BY <1>2, <1>4, <2>1, <2>2, Zenon DEF Syn
<1>5. ASSUME NEW c \in Cpus, Admit(c) \/ TakeFromEmpty(c) \/ Compensate(c) PROVE XdpType'
  <2>1. At("idle") \in Frame /\ At("compensate") \in Frame
        /\ At("idle").at = "idle" /\ At("compensate").at = "compensate"
    BY FrameTypes, Zenon DEF At
  <2>2. CASE Admit(c)
    BY <1>2, <2>1, <2>2 DEF Admit
  <2>3. CASE TakeFromEmpty(c)
    BY <1>2, <2>1, <2>3 DEF TakeFromEmpty
  <2>4. CASE Compensate(c)
    BY <1>2, <2>1, <2>4 DEF Compensate
  <2> QED
    BY <1>5, <2>2, <2>3, <2>4, Zenon
<1>6. ASSUME NEW c \in Cpus, RefillLast(c) PROVE XdpType'
  <2> DEFINE f == [At("clock") EXCEPT !.seen = map_last_refill]
  <2>1. f \in Frame /\ f.at = "clock"
    BY FrameTypes, Zenon DEF At
  <2> HIDE DEF f
  <2>2. Step(c, "refill", f) /\ RefillPerSec # 0
    BY <1>6, Zenon DEF RefillLast, f, Step
  <2> QED
    BY <1>2, <1>6, <2>1, <2>2, Zenon DEF RefillLast
<1>7. ASSUME NEW c \in Cpus, Accrue(c) PROVE XdpType'
  <2> DEFINE n == Accrued(cpu[c].seen)
             f == IF n = 0 THEN At("take") ELSE [cpu[c] EXCEPT !.at = "cas", !.credit = n]
  <2>1. RefillPerSec # 0 /\ Step(c, "clock", f)
    BY <1>7, Zenon DEF Accrue, Step
  <2>2. n \in Nat
    BY <1>1, <2>1, AccruedType, Zenon
  <2> HIDE DEF n
  <2>3. f \in Frame
    BY <2>2, FrameTypes, Zenon
  <2> HIDE DEF f
  <2> QED
    BY <1>2, <1>7, <2>1, <2>3, Zenon DEF Accrue
<1>8. ASSUME NEW c \in Cpus, RefillCas(c) \/ RefillCasLost(c) PROVE XdpType'
  <2> DEFINE f == [At("capacity") EXCEPT !.credit = cpu[c].credit]
  <2>1. f \in Frame /\ f.at = "capacity" /\ At("take") \in Frame /\ At("take").at = "take"
    BY <1>1, FrameTypes, Zenon DEF At
  <2> HIDE DEF f
  <2>2. CASE RefillCas(c)
    <3>1. Step(c, "cas", f) /\ RefillPerSec # 0
      BY <2>2, Zenon DEF RefillCas, f, Step
    <3>2. NsPerToken \in Nat
      BY <3>1, TickType, Zenon
    <3>3. cpu[c].seen + cpu[c].credit * NsPerToken \in Nat
      BY <1>1, <3>2
    <3> QED
      BY <1>2, <2>1, <2>2, <3>1, <3>3, Zenon DEF RefillCas
  <2>3. CASE RefillCasLost(c)
    BY <1>2, <2>1, <2>3, Zenon DEF RefillCasLost
  <2> QED
    BY <1>8, <2>2, <2>3, Zenon
<1>9. ASSUME NEW c \in Cpus, RefillCapacity(c) PROVE XdpType'
  <2> DEFINE f == [cpu[c] EXCEPT !.at = "room", !.seen = map_capacity]
  <2>1. f \in Frame /\ f.at = "room"
    <3>1. cpu[c] \in Frame /\ map_capacity \in Nat
      BY Zenon
    <3>2. f \in Frame
      BY <3>1, FrameTypes, Zenon
    <3>3. f.at = "room"
      BY <3>1, Zenon DEF Frame
    <3> QED
      BY <3>2, <3>3, Zenon
  <2> HIDE DEF f
  <2>2. Step(c, "capacity", f)
    BY <1>9, Zenon DEF RefillCapacity, f
  <2> QED
    BY <1>2, <1>9, <2>1, <2>2, Zenon DEF RefillCapacity
<1>10. ASSUME NEW c \in Cpus, RefillRoom(c) PROVE XdpType'
  <2> DEFINE room == cpu[c].seen - map_tokens
             f == IF room <= 0 THEN At("take")
                  ELSE [At("add") EXCEPT !.credit = Smaller(cpu[c].credit, room)]
  <2>1. room > 0 => Smaller(cpu[c].credit, room) \in Nat
    BY <1>1 DEF Smaller
  <2>2. f \in Frame /\ f.at \in {"take", "add"}
    <3>1. CASE room <= 0
      BY <3>1, FrameTypes, Zenon DEF At
    <3>2. CASE ~(room <= 0)
      <4> DEFINE n == Smaller(cpu[c].credit, room)
      <4>1. n \in Nat
        BY <1>1, <2>1, <3>2
      <4> HIDE DEF n
      <4>2. [At("add") EXCEPT !.credit = n] \in Frame
            /\ [At("add") EXCEPT !.credit = n].at = "add"
        BY <4>1, FrameTypes, Zenon DEF At
      <4> QED
        BY <3>2, <4>2, Zenon DEF n
    <3> QED
      BY <3>1, <3>2, Zenon
  <2>3. Step(c, "room", f)
    BY <1>10, Zenon DEF RefillRoom
  <2> HIDE DEF f
  <2> QED
    BY <1>2, <1>10, <2>2, <2>3, Zenon DEF RefillRoom
<1>11. ASSUME NEW c \in Cpus, RefillAdd(c) PROVE XdpType'
  <2>1. At("take") \in Frame /\ At("take").at = "take"
    BY FrameTypes, Zenon DEF At
  <2> QED
    BY <1>1, <1>2, <1>11, <2>1 DEF RefillAdd
<1>12. ASSUME NEW cp \in MapSeeds, Reseed(cp) PROVE XdpType'
  BY <1>12, XdpAssumption DEF Reseed, Clamped
<1>13. CASE WriteTokens \/ WriteCapacity \/ WriteLast
  BY <1>13 DEF WriteTokens, WriteCapacity, WriteLast
<1>14. CASE UNCHANGED xdpVars
  BY <1>14, Zenon DEF xdpVars
<1> QED
  BY <1>3, <1>4, <1>5, <1>6, <1>7, <1>8, <1>9, <1>10, <1>11, <1>12, <1>13, <1>14, Zenon DEF XdpNext

(* The map value seed_admit_state writes is well typed. *)
LEMMA XdpTypeInit == XdpInit => XdpType
<1>1. At("idle") \in Frame /\ At("idle").at = "idle"
  BY FrameTypes, Zenon DEF At
<1>2. Clamped(Capacity) \in Nat \ {0}
  BY XdpAssumption DEF Clamped
<1> QED
  BY <1>1, <1>2 DEF XdpInit, XdpType, XdpTypeOK

(* The strengthened type invariant holds in every reachable state. *)
LEMMA XdpTypeAlways == XdpSpec => []XdpType
BY XdpTypeInit, XdpTypeStep, PTL DEF XdpSpec

(* Finitely many CPUs have a token to put back. *)
LEMMA DippingFinite == IsFiniteSet(Dipping) /\ Cardinality(Dipping) \in Nat
<1>1. Dipping \in SUBSET Cpus
  BY Zenon DEF Dipping
<1>2. IsFiniteSet(Dipping)
  BY <1>1, FS_Subset, XdpAssumption, Zenon
<1> QED
  BY <1>2, FS_CardinalityType, Zenon

(* How a step of CPU c changes the CPUs that have a token to put back. *)
LEMMA DippingMoves ==
  ASSUME XdpTypeOK, NEW c \in Cpus, NEW label, NEW f \in Frame, Step(c, label, f)
  PROVE  /\ label # "compensate" /\ f.at # "compensate" => Dipping' = Dipping
         /\ label # "compensate" /\ f.at = "compensate" =>
              Cardinality(Dipping') = Cardinality(Dipping) + 1
         /\ label = "compensate" /\ f.at # "compensate" =>
              Cardinality(Dipping') = Cardinality(Dipping) - 1
<1>1. /\ label # "compensate" /\ f.at # "compensate" => Dipping' = Dipping
      /\ label # "compensate" /\ f.at = "compensate" =>
           Dipping' = Dipping \union {c} /\ c \notin Dipping
      /\ label = "compensate" /\ f.at # "compensate" =>
           Dipping' = Dipping \ {c} /\ c \in Dipping
  BY Zenon DEF Step, Dipping, XdpTypeOK
<1>2. ASSUME Dipping' = Dipping \union {c}, c \notin Dipping
      PROVE  Cardinality(Dipping') = Cardinality(Dipping) + 1
  BY <1>2, DippingFinite, FS_AddElement, Zenon
<1>3. ASSUME Dipping' = Dipping \ {c}, c \in Dipping
      PROVE  Cardinality(Dipping') = Cardinality(Dipping) - 1
  BY <1>3, DippingFinite, FS_RemoveElement, Zenon
<1> QED
  BY <1>1, <1>2, <1>3, Zenon

(* A share of n tokens has n tokens. *)
LEMMA ShareSize ==
  ASSUME NEW c, NEW n \in Nat
  PROVE  IsFiniteSet(Share(c, n)) /\ Cardinality(Share(c, n)) = n
<1>1. IsFiniteSet({c}) /\ Cardinality({c}) = 1
  BY FS_Singleton, Zenon
<1>2. IsFiniteSet(1..n) /\ Cardinality(1..n) = n
  BY FS_Interval
<1>3. IsFiniteSet({c} \X (1..n)) /\ Cardinality({c} \X (1..n)) = Cardinality({c}) * Cardinality(1..n)
  BY <1>1, <1>2, FS_Product, Zenon
<1> QED
  BY <1>1, <1>2, <1>3 DEF Share

(* The tokens owed to the map are the ones of the other CPUs and the share *)
(* of CPU c.                                                               *)
OwedByOthers(frames, c) == {x \in OwedIn(frames) : x[1] # c}

LEMMA OwedSplits ==
  ASSUME NEW frames \in [Cpus -> Frame], IsFiniteSet(OwedIn(frames)), NEW c \in Cpus
  PROVE  /\ IsFiniteSet(OwedByOthers(frames, c))
         /\ Cardinality(OwedByOthers(frames, c)) \in Nat
         /\ Cardinality(OwedIn(frames)) = Cardinality(OwedByOthers(frames, c))
               + IF frames[c].at \in Crediting THEN frames[c].credit ELSE 0
<1> DEFINE All == OwedIn(frames)
           Others == OwedByOthers(frames, c)
           Mine == Share(c, frames[c].credit)
<1>0. frames[c].credit \in Nat
  BY Zenon DEF Frame
<1>1. Others \in SUBSET All
  BY Zenon DEF OwedByOthers
<1>2. IsFiniteSet(Others) /\ Cardinality(Others) \in Nat
  BY <1>1, FS_Subset, FS_CardinalityType, Zenon
<1>3. IsFiniteSet(Mine) /\ Cardinality(Mine) = frames[c].credit
  BY <1>0, ShareSize, Zenon
<1>4. CASE frames[c].at \in Crediting
  <2>1. ASSUME NEW d \in Cpus, NEW n \in Nat
        PROVE  <<d, n>> \in All <=> <<d, n>> \in Others \/ <<d, n>> \in Mine
    BY <1>0, <1>4 DEF OwedIn, OwedByOthers, Share
  <2>2. All \subseteq Cpus \X Nat /\ Mine \subseteq Cpus \X Nat
    BY <1>0 DEF OwedIn, Share
  <2>3. Others \cap Mine = {}
    BY Zenon DEF OwedByOthers, Share
  <2> HIDE DEF All, Others, Mine
  <2>4. All = Others \union Mine
    BY <1>1, <2>1, <2>2
  <2>5. Cardinality(Others \union Mine)
          = Cardinality(Others) + Cardinality(Mine) - Cardinality(Others \cap Mine)
    BY <1>2, <1>3, FS_Union, Zenon
  <2>6. Cardinality(Others \cap Mine) = 0
    BY <2>3, FS_EmptySet, Zenon
  <2>7. Cardinality(All) = Cardinality(Others) + frames[c].credit
    BY <1>0, <1>2, <1>3, <2>4, <2>5, <2>6
  <2> QED
    BY <1>2, <1>4, <2>7, Zenon DEF All, Others
<1>5. CASE frames[c].at \notin Crediting
  <2>1. All = Others
    BY <1>5, Zenon DEF OwedIn, OwedByOthers
  <2> QED
    BY <1>2, <1>5, <2>1
<1> QED
  BY <1>4, <1>5, Zenon

(* How a step of CPU c changes the tokens that are owed to the map. *)
LEMMA OwedMoves ==
  ASSUME XdpTypeOK, IsFiniteSet(Owed),
         NEW c \in Cpus, NEW label, NEW f \in Frame, Step(c, label, f)
  PROVE  /\ IsFiniteSet(Owed') /\ Cardinality(Owed) \in Nat /\ Cardinality(Owed') \in Nat
         /\ Cardinality(Owed') - (IF f.at \in Crediting THEN f.credit ELSE 0)
              = Cardinality(Owed) - (IF label \in Crediting THEN cpu[c].credit ELSE 0)
<1>0. /\ cpu[c].credit \in Nat /\ f.credit \in Nat
      /\ cpu[c].at = label /\ cpu'[c] = f
      /\ cpu \in [Cpus -> Frame] /\ cpu' \in [Cpus -> Frame]
  BY Zenon DEF XdpTypeOK, Frame, Step
<1> DEFINE Others == OwedByOthers(cpu, c)
<1>1. OwedByOthers(cpu', c) = Others
  <2>1. ASSUME NEW d \in Cpus, NEW n \in Nat
        PROVE  <<d, n>> \in OwedByOthers(cpu', c) <=> <<d, n>> \in Others
    <3>1. d # c => cpu'[d] = cpu[d]
      BY Zenon DEF Step, XdpTypeOK
    <3> QED
      BY <3>1, Zenon DEF OwedByOthers, OwedIn
  <2>2. Others \subseteq Cpus \X Nat /\ OwedByOthers(cpu', c) \subseteq Cpus \X Nat
    BY Zenon DEF OwedByOthers, OwedIn
  <2>3. ASSUME NEW x \in Cpus \X Nat PROVE x \in OwedByOthers(cpu', c) <=> x \in Others
    <3>1. PICK d \in Cpus, n \in Nat : x = <<d, n>>
      OBVIOUS
    <3> QED
      BY <2>1, <3>1, Zenon
  <2> QED
    BY <2>2, <2>3, Zenon
<1>2. /\ IsFiniteSet(Others) /\ Cardinality(Others) \in Nat
      /\ Cardinality(Owed) = Cardinality(Others)
           + IF label \in Crediting THEN cpu[c].credit ELSE 0
  BY <1>0, OwedSplits, Zenon DEF Owed
<1>3. IsFiniteSet(OwedIn(cpu'))
  <2>1. OwedIn(cpu') \subseteq OwedByOthers(cpu', c) \union Share(c, f.credit)
    <3>1. ASSUME NEW d \in Cpus, NEW n \in Nat, <<d, n>> \in OwedIn(cpu')
          PROVE  <<d, n>> \in OwedByOthers(cpu', c) \union Share(c, f.credit)
      BY <1>0, <3>1 DEF OwedByOthers, OwedIn, Share
    <3>2. OwedIn(cpu') \subseteq Cpus \X Nat
      BY Zenon DEF OwedIn
    <3> QED
      BY <3>1, <3>2
  <2>2. IsFiniteSet(Others \union Share(c, f.credit))
    BY <1>0, <1>2, ShareSize, FS_Union, Zenon
  <2> QED
    BY <1>1, <2>1, <2>2, FS_Subset, Zenon
<1>4. Cardinality(OwedIn(cpu')) = Cardinality(Others)
        + IF f.at \in Crediting THEN f.credit ELSE 0
  BY <1>0, <1>1, <1>3, OwedSplits, Zenon
<1>5. Owed' = OwedIn(cpu')
  BY Zenon DEF Owed
<1> HIDE DEF Others
<1> QED
  BY <1>0, <1>2, <1>3, <1>4, <1>5

-----------------------------------------------------------------------------

(* Only a CPU that then has a token to put back takes from an empty bucket, *)
(* and the value userspace writes is not negative.                         *)
LEMMA DipStep == XdpType /\ DipBound /\ [XdpNext]_xdpVars => DipBound'
<1> SUFFICES ASSUME XdpType, DipBound, [XdpNext]_xdpVars PROVE DipBound'
  BY Zenon
<1> DEFINE Dips == map_tokens >= 0 - Cardinality(Dipping)
<1>0. Dips /\ (Dips' <=> DipBound')
  BY Zenon DEF DipBound, Dipping
<1> USE DEF XdpType, XdpTypeOK
<1>1. \A c \in Cpus : cpu[c].seen \in Nat /\ cpu[c].credit \in Nat
  BY Zenon DEF Frame
<1>2. /\ At("idle") \in Frame /\ At("compensate") \in Frame /\ At("take") \in Frame
      /\ At("idle").at = "idle" /\ At("compensate").at = "compensate" /\ At("take").at = "take"
  BY FrameTypes, Zenon DEF At
<1>3. ASSUME NEW c \in Cpus, Admit(c) PROVE Dips'
  <2>1. Dipping' = Dipping
    BY <1>2, <1>3, DippingMoves, Zenon DEF Admit
  <2> QED
    BY <1>3, <2>1, DippingFinite DEF Admit
<1>4. ASSUME NEW c \in Cpus, TakeFromEmpty(c) PROVE Dips'
  <2>1. Cardinality(Dipping') = Cardinality(Dipping) + 1
    BY <1>2, <1>4, DippingMoves, Zenon DEF TakeFromEmpty
  <2> QED
    BY <1>0, <1>4, <2>1, DippingFinite DEF TakeFromEmpty
<1>5. ASSUME NEW c \in Cpus, Compensate(c) PROVE Dips'
  <2>1. Cardinality(Dipping') = Cardinality(Dipping) - 1
    BY <1>2, <1>5, DippingMoves, Zenon DEF Compensate
  <2> QED
    BY <1>0, <1>5, <2>1, DippingFinite DEF Compensate
<1>6. ASSUME NEW c \in Cpus, RefillAdd(c) PROVE Dips'
  <2>1. Dipping' = Dipping
    BY <1>2, <1>6, DippingMoves DEF RefillAdd
  <2> QED
    BY <1>0, <1>1, <1>6, <2>1, DippingFinite DEF RefillAdd
<1>7. ASSUME NEW c \in Cpus,
             \/ Syn(c) \/ RefillLast(c) \/ Accrue(c) \/ RefillCas(c) \/ RefillCasLost(c)
             \/ RefillCapacity(c) \/ RefillRoom(c)
      PROVE  Dips'
  <2>1. \A d \in Cpus : cpu'[d].at = "compensate" <=> cpu[d].at = "compensate"
    <3>1. CASE Syn(c) \/ RefillCasLost(c) \/ RefillLast(c) \/ RefillCas(c)
      BY <3>1 DEF Syn, RefillCasLost, RefillLast, RefillCas, Step, At
    <3>2. CASE Accrue(c)
      BY <3>2, ZenonT(60) DEF Accrue, Step, At, Frame
    <3>3. CASE RefillCapacity(c)
      BY <3>3, ZenonT(60) DEF RefillCapacity, Step, Frame
    <3>4. CASE RefillRoom(c)
      BY <3>4, Zenon DEF RefillRoom, Step, At
    <3> QED
      BY <1>7, <3>1, <3>2, <3>3, <3>4, Zenon
  <2>2. Dipping' = Dipping
    BY <2>1, Zenon DEF Dipping
  <2>3. map_tokens' = map_tokens
    BY <1>7, Zenon DEF Syn, RefillCasLost, RefillLast, RefillCas, Accrue, RefillCapacity, RefillRoom
  <2> QED
    BY <1>0, <2>2, <2>3, Zenon
<1>8. CASE WriteTokens
  <2>1. Dipping' = Dipping
    BY <1>8, Zenon DEF WriteTokens, Dipping
  <2>2. map_tokens' \in Nat
    BY <1>8, Zenon DEF WriteTokens
  <2>3. Cardinality(Dipping') \in Nat
    BY <2>1, DippingFinite, Zenon
  <2> QED
    BY <1>0, <2>2, <2>3
<1>9. CASE Tick \/ (\E cp \in MapSeeds : Reseed(cp)) \/ WriteCapacity \/ WriteLast
           \/ UNCHANGED xdpVars
  <2>1. cpu' = cpu /\ map_tokens' = map_tokens
    BY <1>9, Zenon DEF Tick, Reseed, WriteCapacity, WriteLast, xdpVars
  <2> QED
    BY <1>0, <2>1, Zenon DEF Dipping
<1> HIDE DEF Dips
<1> QED
  BY <1>0, <1>3, <1>4, <1>5, <1>6, <1>7, <1>8, <1>9, Zenon DEF XdpNext

(* The signed counter never dips below zero by more than the CPUs that     *)
(* have a token to put back, whatever races in the program or with         *)
(* userspace's write.                                                      *)
THEOREM DipsBounded == XdpSpec => []DipBound
<1>1. XdpInit => DipBound
  <2> SUFFICES ASSUME XdpInit PROVE DipBound
    BY Zenon
  <2>1. map_tokens \in Nat
    BY XdpAssumption, Zenon DEF XdpInit, Clamped
  <2>2. Cardinality({c \in Cpus : cpu[c].at = "compensate"}) \in Nat
    BY DippingFinite, Zenon DEF Dipping
  <2> QED
    BY <2>1, <2>2 DEF DipBound
<1> QED
  BY <1>1, DipStep, XdpTypeAlways, PTL DEF XdpSpec

(* No time is credited before it has passed: an exchange that was computed *)
(* from an old clock, and a stamp userspace read before its last write,    *)
(* are both behind the clock.                                              *)
LEMMA ClockStep ==
  RefillPerSec # 0 /\ XdpType /\ ClockSound /\ [XdpNext]_xdpVars => ClockSound'
<1> SUFFICES ASSUME RefillPerSec # 0, XdpType, ClockSound, [XdpNext]_xdpVars PROVE ClockSound'
  BY Zenon
<1> USE DEF XdpType, XdpTypeOK
<1> DEFINE tick == NsPerToken
           Due(frame) == frame.at = "cas" => frame.seen + frame.credit * tick <= now
<1>0. tick \in Nat /\ \A c \in Cpus : Due(cpu[c])
  BY TickType, Zenon DEF ClockSound
<1>1. \A c \in Cpus : cpu[c].seen \in Nat /\ cpu[c].credit \in Nat /\ cpu[c].credit * tick \in Nat
  BY <1>0 DEF Frame
<1>2. CASE Tick
  BY <1>0, <1>1, <1>2 DEF Tick, ClockSound
<1>3. ASSUME NEW c \in Cpus, NEW label, NEW f, Step(c, label, f), Due(f)
      PROVE  writer'.stamp <= now' /\ now' = now /\ \A d \in Cpus : Due(cpu[d])'
  BY <1>0, <1>3, Zenon DEF Step, ClockSound
<1>4. ASSUME NEW c \in Cpus, Accrue(c) PROVE ClockSound'
  <2> DEFINE n == Accrued(cpu[c].seen)
             f == IF n = 0 THEN At("take") ELSE [cpu[c] EXCEPT !.at = "cas", !.credit = n]
  <2>1. n \in Nat /\ (n # 0 => cpu[c].seen + n * tick <= now)
    BY <1>1, AccruedType, Zenon
  <2>2. Step(c, "clock", f)
    BY <1>4, Zenon DEF Accrue
  <2> HIDE DEF n, tick
  <2>3. Due(f)
    BY <2>1 DEF At, Frame
  <2> HIDE DEF f
  <2> QED
    BY <1>3, <1>4, <2>2, <2>3, Zenon DEF Accrue, ClockSound, tick
<1>5. ASSUME NEW c \in Cpus, RefillCas(c) PROVE ClockSound'
  <2> DEFINE f == [At("capacity") EXCEPT !.credit = cpu[c].credit]
  <2>1. f.at = "capacity" /\ Step(c, "cas", f)
    BY <1>5, Zenon DEF RefillCas, At
  <2> HIDE DEF f
  <2>2. map_last_refill' <= now
    BY <1>0, <1>5, Zenon DEF RefillCas, Step
  <2> QED
    BY <1>3, <2>1, <2>2, Zenon DEF ClockSound
<1>6. ASSUME NEW c \in Cpus,
             \/ Syn(c) \/ Admit(c) \/ TakeFromEmpty(c) \/ Compensate(c) \/ RefillLast(c)
             \/ RefillCasLost(c) \/ RefillCapacity(c) \/ RefillRoom(c) \/ RefillAdd(c)
      PROVE  ClockSound'
  <2>1. \E label, f : Step(c, label, f) /\ f.at # "cas"
    <3>1. CASE Syn(c) \/ Admit(c) \/ TakeFromEmpty(c) \/ Compensate(c)
      BY <3>1 DEF Syn, Admit, TakeFromEmpty, Compensate, At
    <3>2. CASE RefillLast(c) \/ RefillCasLost(c) \/ RefillAdd(c)
      BY <3>2 DEF RefillLast, RefillCasLost, RefillAdd, At
    <3>3. CASE RefillCapacity(c)
      <4> DEFINE f == [cpu[c] EXCEPT !.at = "room", !.seen = map_capacity]
      <4>1. Step(c, "capacity", f) /\ f.at # "cas"
        BY <3>3, ZenonT(60) DEF RefillCapacity, Frame
      <4> HIDE DEF f
      <4> QED
        BY <4>1, Zenon
    <3>4. CASE RefillRoom(c)
      <4> DEFINE room == cpu[c].seen - map_tokens
                 f == IF room <= 0 THEN At("take")
                      ELSE [At("add") EXCEPT !.credit = Smaller(cpu[c].credit, room)]
      <4>1. Step(c, "room", f) /\ f.at # "cas"
        BY <3>4, Zenon DEF RefillRoom, At
      <4> HIDE DEF f
      <4> QED
        BY <4>1, Zenon
    <3> QED
      BY <1>6, <3>1, <3>2, <3>3, <3>4, Zenon
  <2>2. map_last_refill' = map_last_refill
    BY <1>6, Zenon DEF Syn, Admit, TakeFromEmpty, Compensate, RefillLast, RefillCasLost,
       RefillCapacity, RefillRoom, RefillAdd
  <2> QED
    BY <1>3, <2>1, <2>2, Zenon DEF ClockSound
<1>7. CASE \/ \E cp \in MapSeeds : Reseed(cp)
           \/ WriteTokens \/ WriteCapacity \/ WriteLast \/ UNCHANGED xdpVars
  BY <1>7 DEF Reseed, WriteTokens, WriteCapacity, WriteLast, xdpVars, ClockSound
<1> QED
  BY <1>2, <1>4, <1>5, <1>6, <1>7, Zenon DEF XdpNext

(* Tokens that are let through, lent to a dip and given back. *)
LEMMA TokenMoves ==
  ASSUME NEW m \in Int, NEW d \in Nat, NEW p \in Nat
  PROVE  /\ m - 1 \in Int /\ m + 1 \in Int /\ p + 1 \in Nat /\ d + 1 \in Nat
         /\ (m - 1) + d + (p + 1) = m + d + p
         /\ (m - 1) + (d + 1) + p = m + d + p
         /\ (m + 1) + (d - 1) + p = m + d + p
  OBVIOUS

(* The tokens handed out, in hand and owed are covered by the first burst  *)
(* and the time credited so far.                                           *)
LEMMA RateStep ==
  RefillPerSec # 0 /\ XdpType /\ RateInv /\ [XdpNext]_xdpVars => RateInv'
<1> SUFFICES ASSUME RefillPerSec # 0, XdpType, RateInv, [XdpNext]_xdpVars PROVE RateInv'
  BY Zenon
<1> DEFINE tick == NsPerToken
           burst == Clamped(Capacity) * tick
<1>0. tick \in Nat /\ burst \in Nat
  BY TickType, XdpAssumption DEF Clamped
<1>1. /\ map_tokens \in Int /\ xdp_pass_total \in Nat /\ map_last_refill \in Nat
      /\ Cardinality(Dipping) \in Nat /\ IsFiniteSet(Owed) /\ Cardinality(Owed) \in Nat
      /\ Issued \in Int /\ XdpTypeOK
      /\ \A c \in Cpus : cpu[c].seen \in Nat /\ cpu[c].credit \in Nat
  BY DippingFinite, FS_CardinalityType, SMTT(30) DEF XdpType, XdpTypeOK, RateInv, Issued, Frame
(* A step that hands out nothing new keeps the bound. *)
<1>2. ASSUME IsFiniteSet(Owed'), Issued' \in Int, Issued' <= Issued,
             writer' = writer, map_reseeds' = map_reseeds, map_last_refill' = map_last_refill
      PROVE  RateInv'
  <2>1. \A m, n \in Int : m <= n => m * tick <= n * tick
    BY <1>0
  <2>2. Issued' * tick <= Issued * tick /\ Issued' * tick \in Int /\ Issued * tick \in Int
    BY <1>0, <1>1, <1>2, <2>1
  <2>3. map_reseeds = 0 => Issued' * tick <= burst + map_last_refill
    BY <1>0, <1>1, <2>2 DEF RateInv
  <2> QED
    BY <1>2, <2>3, Zenon DEF RateInv
<1>3. ASSUME NEW c \in Cpus, NEW label, NEW f \in Frame, Step(c, label, f)
      PROVE  /\ writer' = writer /\ map_reseeds' = map_reseeds
             /\ IsFiniteSet(Owed') /\ Cardinality(Owed') \in Nat
             /\ Cardinality(Owed') - (IF f.at \in Crediting THEN f.credit ELSE 0)
                  = Cardinality(Owed) - (IF label \in Crediting THEN cpu[c].credit ELSE 0)
             /\ label # "compensate" /\ f.at # "compensate" => Dipping' = Dipping
             /\ label # "compensate" /\ f.at = "compensate" =>
                  Cardinality(Dipping') = Cardinality(Dipping) + 1
             /\ label = "compensate" /\ f.at # "compensate" =>
                  Cardinality(Dipping') = Cardinality(Dipping) - 1
  <2>1. writer' = writer /\ map_reseeds' = map_reseeds
    BY <1>3, Zenon DEF Step
  <2>2. /\ IsFiniteSet(Owed') /\ Cardinality(Owed') \in Nat
        /\ Cardinality(Owed') - (IF f.at \in Crediting THEN f.credit ELSE 0)
             = Cardinality(Owed) - (IF label \in Crediting THEN cpu[c].credit ELSE 0)
    BY <1>1, <1>3, OwedMoves, Zenon
  <2>3. /\ label # "compensate" /\ f.at # "compensate" => Dipping' = Dipping
        /\ label # "compensate" /\ f.at = "compensate" =>
             Cardinality(Dipping') = Cardinality(Dipping) + 1
        /\ label = "compensate" /\ f.at # "compensate" =>
             Cardinality(Dipping') = Cardinality(Dipping) - 1
    BY <1>1, <1>3, DippingMoves, Zenon
  <2> QED
    BY <2>1, <2>2, <2>3, Zenon
<1>4. \A label \in {"idle", "refill", "take", "compensate"} :
        At(label) \in Frame /\ At(label).at = label /\ label \notin Crediting
  <2>1. \A label \in {"idle", "refill", "take", "compensate"} : At(label) \in Frame
    BY FrameTypes, Zenon
  <2> QED
    BY <2>1, Zenon DEF At, Crediting
(* A step of admit_or_shed: the tokens move between the map, the packets   *)
(* let through and the CPUs with a token to put back.                      *)
<1>5. ASSUME NEW c \in Cpus, NEW label \in {"idle", "refill", "take", "compensate"},
             NEW then \in {"idle", "refill", "take", "compensate"}, Step(c, label, At(then)),
             map_last_refill' = map_last_refill,
             xdp_pass_total' \in Nat, map_tokens' \in Int,
             Cardinality(Dipping') \in Nat,
             map_tokens' + Cardinality(Dipping') + xdp_pass_total'
               = map_tokens + Cardinality(Dipping) + xdp_pass_total
      PROVE  RateInv'
  <2>1. At(then) \in Frame /\ At(then).at \notin Crediting /\ label \notin Crediting
    BY <1>4, Zenon
  <2> DEFINE f == At(then)
  <2> HIDE DEF f
  <2>2. /\ writer' = writer /\ map_reseeds' = map_reseeds
        /\ IsFiniteSet(Owed') /\ Cardinality(Owed') \in Nat
        /\ Cardinality(Owed') - (IF f.at \in Crediting THEN f.credit ELSE 0)
                  = Cardinality(Owed) - (IF label \in Crediting THEN cpu[c].credit ELSE 0)
    BY <1>3, <1>5, <2>1, Zenon DEF f
  <2>3. Cardinality(Owed') = Cardinality(Owed)
    <3>1. f.at \notin Crediting /\ label \notin Crediting
      BY <2>1, Zenon DEF f
    <3>2. Cardinality(Owed') - 0 = Cardinality(Owed) - 0
      BY <2>2, <3>1, Zenon
    <3>3. \A m, n \in Nat : m - 0 = n - 0 => m = n
      OBVIOUS
    <3> QED
      BY <1>1, <2>2, <3>2, <3>3, Zenon
  <2>4. Issued' = Issued
    BY <1>1, <1>5, <2>3, Zenon DEF Issued
  <2> QED
    BY <1>1, <1>2, <1>5, <2>2, <2>4
<1>6. ASSUME NEW c \in Cpus, Admit(c) \/ TakeFromEmpty(c) \/ Compensate(c) PROVE RateInv'
  <2>1. /\ At("idle") \in Frame /\ At("compensate") \in Frame
        /\ At("idle").at = "idle" /\ At("compensate").at = "compensate"
    BY <1>4, Zenon
  <2> DEFINE idle == At("idle")
             dip == At("compensate")
  <2>0. idle \in Frame /\ dip \in Frame /\ idle.at # "compensate" /\ dip.at = "compensate"
        /\ "take" # "compensate"
    BY <2>1, Zenon
  <2> DEFINE m == map_tokens
             d == Cardinality(Dipping)
             p == xdp_pass_total
  <2>m. m \in Int /\ d \in Nat /\ p \in Nat
    BY <1>1, Zenon
  <2> HIDE DEF idle, dip, m, d, p
  <2>n. /\ m - 1 \in Int /\ m + 1 \in Int /\ p + 1 \in Nat /\ d + 1 \in Nat
        /\ (m - 1) + d + (p + 1) = m + d + p
        /\ (m - 1) + (d + 1) + p = m + d + p
        /\ (m + 1) + (d - 1) + p = m + d + p
    BY <2>m, TokenMoves, ZenonT(60)
  <2>2. CASE Admit(c)
    <3>1. Step(c, "take", At("idle"))
      BY <2>2, Zenon DEF Admit
    <3>2. Dipping' = Dipping
      BY <1>3, <2>0, <3>1, Zenon DEF idle
    <3>3. /\ map_tokens' = map_tokens - 1 /\ xdp_pass_total' = xdp_pass_total + 1
          /\ map_last_refill' = map_last_refill
      BY <2>2, Zenon DEF Admit
    <3>5. /\ xdp_pass_total' \in Nat /\ map_tokens' \in Int /\ Cardinality(Dipping') \in Nat
          /\ map_tokens' + Cardinality(Dipping') + xdp_pass_total'
               = map_tokens + Cardinality(Dipping) + xdp_pass_total
      BY <2>m, <2>n, <3>2, <3>3, Zenon DEF m, d, p
    <3> QED
      BY <1>5, <3>1, <3>3, <3>5, Zenon
  <2>3. CASE TakeFromEmpty(c)
    <3>1. Step(c, "take", At("compensate"))
      BY <2>3, Zenon DEF TakeFromEmpty
    <3>2. Cardinality(Dipping') = Cardinality(Dipping) + 1
      BY <1>3, <2>0, <3>1, Zenon DEF dip
    <3>3. /\ map_tokens' = map_tokens - 1 /\ xdp_pass_total' = xdp_pass_total
          /\ map_last_refill' = map_last_refill
      BY <2>3, Zenon DEF TakeFromEmpty
    <3>5. /\ xdp_pass_total' \in Nat /\ map_tokens' \in Int /\ Cardinality(Dipping') \in Nat
          /\ map_tokens' + Cardinality(Dipping') + xdp_pass_total'
               = map_tokens + Cardinality(Dipping) + xdp_pass_total
      BY <2>m, <2>n, <3>2, <3>3, Zenon DEF m, d, p
    <3> QED
      BY <1>5, <3>1, <3>3, <3>5, Zenon
  <2>4. CASE Compensate(c)
    <3>1. Step(c, "compensate", At("idle"))
      BY <2>4, Zenon DEF Compensate
    <3>2. Cardinality(Dipping') = Cardinality(Dipping) - 1
      BY <1>3, <2>0, <3>1, Zenon DEF idle
    <3>3. Cardinality(Dipping') \in Nat
      <4>1. Dipping' \in SUBSET Cpus
        BY Zenon DEF Dipping
      <4> QED
        BY <4>1, FS_Subset, FS_CardinalityType, XdpAssumption, Zenon
    <3>4. /\ map_tokens' = map_tokens + 1 /\ xdp_pass_total' = xdp_pass_total
          /\ map_last_refill' = map_last_refill
      BY <2>4, Zenon DEF Compensate
    <3>5. /\ xdp_pass_total' \in Nat /\ map_tokens' \in Int /\ Cardinality(Dipping') \in Nat
          /\ map_tokens' + Cardinality(Dipping') + xdp_pass_total'
               = map_tokens + Cardinality(Dipping) + xdp_pass_total
      BY <2>m, <2>n, <3>2, <3>3, <3>4, Zenon DEF m, d, p
    <3> QED
      BY <1>5, <3>1, <3>3, <3>4, <3>5, Zenon
  <2> QED
    BY <1>6, <2>2, <2>3, <2>4, Zenon
(* A step of refill that changes no word of the map. *)
<1>8. ASSUME NEW c \in Cpus, NEW label, NEW f \in Frame, Step(c, label, f),
             label # "compensate", f.at # "compensate",
             UNCHANGED <<map_tokens, map_last_refill, xdp_pass_total>>,
             f.at \in Crediting => label \in Crediting /\ f.credit <= cpu[c].credit
      PROVE  RateInv'
  <2>1. f.credit \in Nat
    BY Zenon DEF Frame
  <2>2. Dipping' = Dipping
    BY <1>3, <1>8, Zenon
  <2>3. Cardinality(Owed') \in Nat /\ Cardinality(Owed') <= Cardinality(Owed)
    BY <1>1, <1>3, <1>8, <2>1
  <2>4. Issued' \in Int /\ Issued' <= Issued
    BY <1>1, <1>8, <2>2, <2>3 DEF Issued
  <2> QED
    BY <1>2, <1>3, <1>8, <2>4, Zenon
<1>9. ASSUME NEW c \in Cpus, Syn(c) \/ RefillLast(c) \/ Accrue(c) \/ RefillCasLost(c)
      PROVE  RateInv'
  <2>1. \E label, f : /\ Step(c, label, f) /\ label # "compensate"
                      /\ f \in Frame /\ f.at \notin Crediting \union {"compensate"}
    <3>1. CASE Syn(c)
      BY <1>4, <3>1, Zenon DEF Syn
    <3>2. CASE RefillLast(c)
      <4> DEFINE f == [At("clock") EXCEPT !.seen = map_last_refill]
      <4>1. f \in Frame /\ f.at = "clock" /\ f.at \notin Crediting
        BY <1>1, FrameTypes, Zenon DEF At, Crediting
      <4>2. Step(c, "refill", f)
        BY <3>2, Zenon DEF RefillLast
      <4> HIDE DEF f
      <4> QED
        BY <4>1, <4>2, Zenon
    <3>3. CASE Accrue(c)
      <4> DEFINE n == Accrued(cpu[c].seen)
                 f == IF n = 0 THEN At("take") ELSE [cpu[c] EXCEPT !.at = "cas", !.credit = n]
      <4>1. Step(c, "clock", f)
        BY <3>3, Zenon DEF Accrue
      <4>2. n \in Nat /\ cpu[c] \in Frame
        BY <1>1, AccruedType, Zenon DEF XdpTypeOK
      <4> HIDE DEF n
      <4>3. f \in Frame
        BY <4>2, FrameTypes, Zenon
      <4>4. f.at \in {"take", "cas"}
        BY <4>2, Zenon DEF At, Frame
      <4> HIDE DEF f
      <4> QED
        BY <4>1, <4>3, <4>4, Zenon DEF Crediting
    <3>4. CASE RefillCasLost(c)
      BY <1>4, <3>4, Zenon DEF RefillCasLost
    <3> QED
      BY <1>9, <3>1, <3>2, <3>3, <3>4, Zenon
  <2>2. UNCHANGED <<map_tokens, map_last_refill, xdp_pass_total>>
    BY <1>9, Zenon DEF Syn, RefillLast, Accrue, RefillCasLost
  <2> QED
    BY <1>8, <2>1, <2>2, Zenon
<1>10. ASSUME NEW c \in Cpus, RefillCapacity(c) PROVE RateInv'
  <2> DEFINE f == [cpu[c] EXCEPT !.at = "room", !.seen = map_capacity]
  <2>1. cpu[c] \in Frame /\ map_capacity \in Nat
    BY <1>1, Zenon DEF XdpTypeOK
  <2>2. f \in Frame
    BY <2>1, FrameTypes, Zenon
  <2>3. f.at = "room" /\ f.credit = cpu[c].credit
    BY <2>1, Zenon DEF Frame
  <2>4. Step(c, "capacity", f) /\ UNCHANGED <<map_tokens, map_last_refill, xdp_pass_total>>
    BY <1>10, Zenon DEF RefillCapacity
  <2> HIDE DEF f
  <2> QED
    BY <1>1, <1>8, <2>2, <2>3, <2>4 DEF Crediting
<1>11. ASSUME NEW c \in Cpus, RefillRoom(c) PROVE RateInv'
  <2> DEFINE room == cpu[c].seen - map_tokens
             n == Smaller(cpu[c].credit, room)
             f == IF room <= 0 THEN At("take") ELSE [At("add") EXCEPT !.credit = n]
  <2>1. Step(c, "room", f) /\ UNCHANGED <<map_tokens, map_last_refill, xdp_pass_total>>
    BY <1>11, Zenon DEF RefillRoom
  <2>2. ~(room <= 0) => n \in Nat /\ n <= cpu[c].credit
    BY <1>1 DEF Smaller
  <2> HIDE DEF n, room
  <2>3. f \in Frame /\ f.at # "compensate"
    BY <1>4, <2>2, FrameTypes, Zenon DEF At
  <2>4. f.at \in Crediting => f.credit <= cpu[c].credit
    BY <1>4, <2>2, Zenon DEF At
  <2> HIDE DEF f
  <2> QED
    BY <1>8, <2>1, <2>3, <2>4, Zenon DEF Crediting
<1>12. ASSUME NEW c \in Cpus, RefillAdd(c) PROVE RateInv'
  <2>1. /\ Step(c, "add", At("take")) /\ At("take") \in Frame
        /\ At("take").at \notin Crediting /\ At("take").at # "compensate" /\ "add" # "compensate"
        /\ map_tokens' = map_tokens + cpu[c].credit
        /\ xdp_pass_total' = xdp_pass_total /\ map_last_refill' = map_last_refill
    BY <1>4, <1>12, Zenon DEF RefillAdd
  <2> DEFINE f == At("take")
  <2> HIDE DEF f
  <2>2. /\ writer' = writer /\ map_reseeds' = map_reseeds
        /\ IsFiniteSet(Owed') /\ Cardinality(Owed') \in Nat /\ Dipping' = Dipping
        /\ Cardinality(Owed') - (IF f.at \in Crediting THEN f.credit ELSE 0)
             = Cardinality(Owed) - (IF "add" \in Crediting THEN cpu[c].credit ELSE 0)
    BY <1>3, <2>1, Zenon DEF f
  <2>3. Cardinality(Owed') = Cardinality(Owed) - cpu[c].credit
    <3>1. f.at \notin Crediting /\ "add" \in Crediting
      BY <2>1, Zenon DEF f, Crediting
    <3>2. Cardinality(Owed') - 0 = Cardinality(Owed) - cpu[c].credit
      BY <2>2, <3>1, Zenon
    <3>3. \A n \in Nat : n - 0 = n
      OBVIOUS
    <3> QED
      BY <2>2, <3>2, <3>3, Zenon
  <2>4. Issued' = Issued
    BY <1>1, <2>1, <2>2, <2>3 DEF Issued
  <2> QED
    BY <1>1, <1>2, <2>1, <2>2, <2>4
<1>13. ASSUME NEW c \in Cpus, RefillCas(c) PROVE RateInv'
  <2> DEFINE f == [At("capacity") EXCEPT !.credit = cpu[c].credit]
             n == cpu[c].credit
  <2>1. n \in Nat /\ f \in Frame /\ f.at = "capacity" /\ f.credit = n
    BY <1>1, FrameTypes, Zenon DEF At
  <2>2. /\ Step(c, "cas", f) /\ map_last_refill' = map_last_refill + n * tick
        /\ map_tokens' = map_tokens /\ xdp_pass_total' = xdp_pass_total
    BY <1>13, Zenon DEF RefillCas
  <2> HIDE DEF f, n
  <2>0. f.at # "compensate" /\ "cas" # "compensate"
    BY <2>1, Zenon
  <2>3. /\ Dipping' = Dipping /\ Cardinality(Owed') = Cardinality(Owed) + n
        /\ IsFiniteSet(Owed') /\ writer' = writer /\ map_reseeds' = map_reseeds
    <3>1. /\ Dipping' = Dipping /\ IsFiniteSet(Owed') /\ Cardinality(Owed') \in Nat
          /\ writer' = writer /\ map_reseeds' = map_reseeds
          /\ Cardinality(Owed') - (IF f.at \in Crediting THEN f.credit ELSE 0)
               = Cardinality(Owed) - (IF "cas" \in Crediting THEN cpu[c].credit ELSE 0)
      BY <1>3, <2>0, <2>1, <2>2, Zenon
    <3> QED
      BY <1>1, <2>1, <3>1 DEF Crediting, n
  <2>4. Issued' = Issued + n
    BY <1>1, <2>1, <2>2, <2>3 DEF Issued
  <2>5. \A m \in Int : (m + n) * tick = m * tick + n * tick /\ m * tick \in Int /\ n * tick \in Nat
    BY <1>0, <2>1
  <2>6. map_reseeds = 0 => Issued' * tick <= burst + map_last_refill'
    BY <1>0, <1>1, <2>2, <2>4, <2>5 DEF RateInv
  <2> QED
    BY <2>3, <2>6, Zenon DEF RateInv
<1>14. CASE Tick \/ UNCHANGED xdpVars
  <2>1. cpu' = cpu /\ writer' = writer /\ map_reseeds' = map_reseeds
        /\ UNCHANGED <<map_tokens, map_last_refill, xdp_pass_total>>
    BY <1>14, Zenon DEF Tick, xdpVars
  <2>2. Owed' = Owed /\ Dipping' = Dipping
    BY <2>1, Zenon DEF Owed, OwedIn, Dipping
  <2> QED
    BY <2>1, <2>2, Zenon DEF RateInv, Issued
<1>15. CASE (\E cp \in MapSeeds : Reseed(cp)) \/ WriteTokens \/ WriteCapacity \/ WriteLast
  <2>1. Owed' = Owed
    BY <1>15, Zenon DEF Reseed, WriteTokens, WriteCapacity, WriteLast, Owed, OwedIn
  <2>2. map_reseeds' # 0
    BY <1>1, <1>15 DEF Reseed, WriteTokens, WriteCapacity, WriteLast, RateInv, XdpTypeOK
  <2> QED
    BY <1>1, <2>1, <2>2, Zenon DEF RateInv
<1> QED
  BY <1>6, <1>9, <1>10, <1>11, <1>12, <1>13, <1>14, <1>15, Zenon DEF XdpNext

(* Until the first reseed the SYNs let through never exceed one burst and  *)
(* the time credited, and never is time credited before it has passed: for *)
(* every number of CPUs, every capacity and every refill rate.             *)
THEOREM RateLimited ==
  ASSUME RefillPerSec # 0
  PROVE  XdpSpec => []RateLimit
<1>1. XdpInit => ClockSound /\ RateInv
  <2> SUFFICES ASSUME XdpInit PROVE ClockSound /\ RateInv
    BY Zenon
  <2>1. \A c \in Cpus : cpu[c].at = "idle"
    BY Zenon DEF XdpInit, At
  <2>2. Dipping = {} /\ Owed = {}
    BY <2>1, Zenon DEF Dipping, Owed, OwedIn, Crediting
  <2>3. Cardinality(Dipping) = 0 /\ Cardinality(Owed) = 0 /\ IsFiniteSet(Owed)
    BY <2>2, FS_EmptySet, Zenon
  <2>4. NsPerToken \in Nat /\ Clamped(Capacity) \in Nat
    BY TickType, XdpAssumption, Zenon DEF Clamped
  <2>5. Issued = Clamped(Capacity)
    BY <2>3, <2>4 DEF XdpInit, Issued
  <2>6. Clamped(Capacity) * NsPerToken \in Nat
    BY <2>4
  <2>7. ClockSound
    BY <2>1 DEF XdpInit, ClockSound
  <2> QED
    BY <2>3, <2>5, <2>6, <2>7 DEF XdpInit, RateInv
<1>2. XdpType /\ ClockSound /\ DipBound /\ RateInv => RateLimit
  <2> SUFFICES ASSUME XdpType, ClockSound, DipBound, RateInv PROVE RateLimit
    BY Zenon
  <2> DEFINE tick == NsPerToken
  <2>1. tick \in Nat /\ Clamped(Capacity) * tick \in Nat
    BY TickType, XdpAssumption DEF Clamped
  <2>2. /\ map_tokens \in Int /\ xdp_pass_total \in Nat /\ map_last_refill \in Nat
        /\ Cardinality(Dipping) \in Nat /\ Cardinality(Owed) \in Nat
    BY DippingFinite, FS_CardinalityType, Zenon DEF XdpType, XdpTypeOK, RateInv
  <2>3. xdp_pass_total <= Issued /\ Issued \in Int
    BY <2>2 DEF DipBound, Dipping, Issued
  <2>4. \A m, n \in Int : m <= n => m * tick <= n * tick /\ m * tick \in Int /\ n * tick \in Int
    BY <2>1
  <2>5. map_reseeds = 0 =>
          xdp_pass_total * tick <= Clamped(Capacity) * tick + map_last_refill
    BY <2>1, <2>2, <2>3, <2>4 DEF RateInv
  <2> QED
    BY <2>5, Zenon DEF RateLimit, ClockSound
<1>3. /\ RefillPerSec # 0 /\ XdpType /\ ClockSound /\ [XdpNext]_xdpVars => ClockSound'
      /\ RefillPerSec # 0 /\ XdpType /\ RateInv /\ [XdpNext]_xdpVars => RateInv'
  BY ClockStep, RateStep, Zenon
<1>4. /\ XdpType /\ ClockSound /\ [XdpNext]_xdpVars => ClockSound'
      /\ XdpType /\ RateInv /\ [XdpNext]_xdpVars => RateInv'
  BY <1>3, Zenon
<1> QED
  BY <1>1, <1>2, <1>4, XdpTypeAlways, DipsBounded, PTL DEF XdpSpec
=============================================================================
