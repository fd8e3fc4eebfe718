---------------------------- MODULE PlaneProofs -----------------------------
(***************************************************************************)
(* Proofs about ControlPlane, the interface below it and StatePlane: for   *)
(* every number of threads, every burst, heartbeat and cooldown and any    *)
(* number of processes one after the other; for any number of backends,    *)
(* publishers, tenants and groups, any gossip and any remote snapshot.     *)
(***************************************************************************)
EXTENDS ControlPlane, StatePlane, FiniteSetTheorems, TLAPS

(* Control plane *)

(* The interface holds programs of processes that have been started, or    *)
(* somebody else's; a driver without a hook holds none.  While nothing was *)
(* left behind, a program of ours has a handle for the interface's index.  *)
LinkInv ==
  /\ LinkTypeOK
  /\ \A m \in Modes : slots[m] \in Ours \union {0, Other}
  /\ ~nic.native => slots["drv"] = 0
  /\ (\E m \in Modes : slots[m] \in Ours) =>
       orphan \/ (shed # NoShed /\ shed.index = ifindex /\ ifindex # 0)

(* A fresh interface is empty. *)
LEMMA LinkStart == LinkInit => LinkInv
<1> SUFFICES ASSUME LinkInit PROVE LinkInv
  BY Zenon
<1>1. slots \in [Modes -> Progs] /\ \A m \in Modes : slots[m] = 0
  BY LinkAssumption DEF LinkInit, Progs, Other
<1>2. LinkTypeOK
  <2>1. NoShed \in Shed
    BY LinkAssumption DEF NoShed, Shed
  <2>2. 0 \in 0..MaxLives
    BY LinkAssumption
  <2>3. orphan \in BOOLEAN
    BY Zenon DEF LinkInit
  <2>4. 1 \in 0..2
    OBVIOUS
  <2> QED
    BY <1>1, <2>1, <2>2, <2>3, <2>4, Zenon DEF LinkInit, LinkTypeOK
<1>3. 0 \notin Ours
  BY LinkAssumption DEF Ours
<1> QED
  BY <1>1, <1>2, <1>3, Zenon DEF LinkInv, Modes

(* An attach puts the program into the only mode in use, and a handle that *)
(* is built knows the index it was attached at.                            *)
LEMMA AttachKeeps ==
  ASSUME LinkInv, NEW pinned \in BOOLEAN, attach_at(pinned)
  PROVE  LinkInv'
<1> USE LinkAssumption DEF LinkInv, LinkTypeOK
<1> DEFINE s == SlotOf(AttachMode)
<1>1. s \in Modes /\ ifindex # 0 /\ slots[OtherMode(s)] = 0 /\ (s = "drv" => nic.native)
  BY DEF attach_at, AttachMode, SlotOf, CanSet, XDP_FLAGS, Modes, OtherMode, Nics
<1>2. AttachMode \in {"driver", "skb", "skb-fallback"}
  BY Zenon DEF attach_at, AttachMode
<1>3. life' \in 1..MaxLives /\ life' = life + 1
  BY DEF attach_at
<1>4. LinkTypeOK'
  BY <1>1, <1>2, <1>3 DEF attach_at, Nics, Shed, NoShed, Modes, Progs, Other
<1>5. \A m \in Modes : slots'[m] \in Ours' \union {0, Other}
  BY <1>1, <1>3 DEF attach_at, Modes, Ours, Other, Progs
<1>6. ~nic'.native => slots'["drv"] = 0
  BY <1>1, Zenon DEF attach_at, Modes
<1>7. orphan' \/ (shed' # NoShed /\ shed'.index = ifindex' /\ ifindex' # 0)
  BY <1>1, <1>2, Zenon DEF attach_at, NoShed
<1> QED
  BY <1>4, <1>5, <1>6, <1>7, Zenon

(* Dropping a handle clears both modes of its interface. *)
LEMMA DropKeeps ==
  ASSUME LinkInv, DropShed
  PROVE  LinkInv'
<1> USE LinkAssumption DEF LinkInv, LinkTypeOK
<1> DEFINE m1 == xdp_detach_flags(shed.mode)
           m2 == OtherMode(m1)
           s1 == netlink_xdp_set(shed.index, m1, 0, slots)
<1>1. m1 \in Modes /\ m2 \in Modes /\ Modes = {m1, m2} /\ m1 # m2
  BY Zenon DEF xdp_detach_flags, OtherMode, Modes
<1>2. s1 \in [Modes -> Progs] /\ \A m \in Modes : s1[m] \in {slots[m], 0}
  BY <1>1 DEF netlink_xdp_set, Progs, Other
<1>3. slots' \in [Modes -> Progs] /\ \A m \in Modes : slots'[m] \in {s1[m], 0}
  BY <1>1, <1>2, SMTT(60) DEF DropShed, Dropped, netlink_xdp_set, Progs, Other
<1>4. ASSUME shed.index = ifindex, ifindex # 0
      PROVE  \A m \in Modes : slots'[m] = 0
  <2>1. \A m \in Modes : CanSet(shed.index, m, 0) \/ (m = "drv" /\ slots[m] = 0)
    BY <1>4, Zenon DEF CanSet, Modes
  <2>2. s1[m1] = 0
    BY <1>1, <2>1, Zenon DEF netlink_xdp_set
  <2>3. slots'[m2] = 0
    BY <1>1, <1>2, <2>1, Zenon DEF DropShed, Dropped, netlink_xdp_set
  <2> QED
    BY <1>1, <1>3, <2>2, <2>3, Zenon
<1>5. Ours' = Ours /\ UNCHANGED <<nic, ifindex, life, orphan>> /\ shed' = NoShed
  BY Zenon DEF DropShed, Ours
<1>6. LinkTypeOK'
  BY <1>3, <1>5 DEF Shed, NoShed
<1>7. \A m \in Modes : slots'[m] \in {slots[m], 0}
  BY <1>2, <1>3, Zenon
<1>8. (\E m \in Modes : slots'[m] \in Ours') => orphan'
  BY <1>4, <1>5, <1>7 DEF Ours
<1> QED
  BY <1>5, <1>6, <1>7, <1>8, Zenon DEF Modes

(* A process that attaches nothing owns nothing on the interface. *)
LEMMA LifeKeeps ==
  ASSUME LinkInv, life < MaxLives, life' = life + 1, UNCHANGED <<kernel, shed, orphan>>
  PROVE  LinkInv'
<1>1. \A m \in Modes : slots[m] \in Ours <=> slots[m] \in Ours'
  BY LinkAssumption DEF LinkInv, LinkTypeOK, Ours, Other
<1>2. UNCHANGED <<nic, ifindex, slots, shed, orphan>> /\ life' \in 0..MaxLives
  BY LinkAssumption DEF LinkInv, LinkTypeOK, kernel
<1> QED
  BY <1>1, <1>2 DEF LinkInv, LinkTypeOK

(* What an administrator, the kernel or a killed process does. *)
LEMMA OthersKeep ==
  ASSUME LinkInv, External \/ AbandonShed \/ AttachFails
  PROVE  LinkInv'
<1> USE LinkAssumption DEF LinkInv, LinkTypeOK
<1>0. {0, Other} \subseteq Progs /\ 0 \notin Ours /\ Other \notin Ours
  BY DEF Progs, Other, Ours
<1>1. ASSUME NEW m \in Modes, AdminDetach(m) PROVE LinkInv'
  <2>1. \A k \in Modes : slots'[k] = IF k = m THEN 0 ELSE slots[k]
    BY <1>1, Zenon DEF AdminDetach
  <2>2. slots' \in [Modes -> Progs] /\ Ours' = Ours /\ UNCHANGED <<nic, ifindex, shed, life, orphan>>
    BY <1>0, <1>1, Zenon DEF AdminDetach, Ours
  <2> QED
    BY <1>0, <2>1, <2>2, Zenon DEF Modes
<1>2. ASSUME NEW m \in Modes, AdminReplace(m) PROVE LinkInv'
  <2>1. \A k \in Modes : slots'[k] = IF k = m THEN Other ELSE slots[k]
    BY <1>2, Zenon DEF AdminReplace
  <2>2. slots' \in [Modes -> Progs] /\ Ours' = Ours /\ UNCHANGED <<nic, ifindex, shed, life, orphan>>
    BY <1>0, <1>2, Zenon DEF AdminReplace, Ours
  <2>3. ~nic.native => m # "drv"
    BY <1>0, <1>2, Zenon DEF AdminReplace
  <2> QED
    BY <1>0, <2>1, <2>2, <2>3, Zenon DEF Modes, Other
<1>3. CASE IfaceGone
  BY <1>3 DEF IfaceGone, Ours, Modes, Progs, Other
<1>4. CASE IfaceBack
  BY <1>4 DEF IfaceBack, Ours
<1>5. CASE AbandonShed
  <2>1. orphan' \in BOOLEAN
    BY <1>5, Zenon DEF AbandonShed
  <2>2. UNCHANGED <<nic, ifindex, slots, life>> /\ shed' = NoShed /\ Ours' = Ours
    BY <1>5, Zenon DEF AbandonShed, kernel, Ours
  <2>3. NoShed \in Shed
    BY DEF NoShed, Shed
  <2>4. (\E m \in Modes : slots'[m] \in Ours') => orphan'
    BY <1>5, <2>2, Zenon DEF AbandonShed
  <2> QED
    BY <2>1, <2>2, <2>3, <2>4, Zenon
<1>6. CASE AttachFails
  BY <1>6, LifeKeeps, Zenon DEF AttachFails
<1> QED
  BY <1>1, <1>2, <1>3, <1>4, <1>5, <1>6, Zenon DEF External

(* Every step of the router and of its surroundings keeps LinkInv. *)
LEMMA LinkStep == LinkInv /\ [Next]_vars => LinkInv'
<1> SUFFICES ASSUME LinkInv, [Next]_vars PROVE LinkInv'
  BY Zenon
<1>1. ASSUME UNCHANGED link PROVE LinkInv'
  BY <1>1, Zenon DEF link, LinkInv, LinkTypeOK, Ours
<1>2. CASE ConfigureUserspace
  BY <1>2, LifeKeeps, Zenon DEF ConfigureUserspace
<1>3. CASE ConfigureKernel
  BY <1>3, AttachKeeps, Zenon DEF ConfigureKernel
<1>4. CASE ConfigureFails
  BY <1>4, AttachKeeps, OthersKeep, Zenon DEF ConfigureFails
<1>5. CASE Exit \/ Kernel
  BY <1>5, OthersKeep, Zenon DEF Exit, Kernel
<1>6. ASSUME NEW t \in Threads, CheckLink(t) PROVE LinkInv'
  BY <1>6, <1>1, DropKeeps, Zenon DEF CheckLink
<1>7. ASSUME NEW t \in Threads, Step(t), ~CheckLink(t) PROVE UNCHANGED link
  BY <1>7, Zenon DEF Step, TickDropped, TickLight, Stamp, Publish, SyncCompare, SyncSave, SeedUser, SeedKernel,
     Beat, TickEnd, TickLock
<1>8. ASSUME Pass \/ (\E t \in Tickers : Arrive(t)) \/ (\E t \in Replayers, s \in Signals : Actuate(t, s))
      PROVE  UNCHANGED link
  BY <1>8, ZenonT(60) DEF Pass, Arrive, Request, Actuate
<1>9. CASE UNCHANGED vars
  BY <1>9, <1>1, Zenon DEF vars
<1> QED
  BY <1>1, <1>2, <1>3, <1>4, <1>5, <1>6, <1>7, <1>8, <1>9, Zenon DEF Next, Configure

(* A program of the router is on the interface only with a handle for it   *)
(* or after a process left it behind, on every kind of driver and under    *)
(* every interference with the interface.                                  *)
THEOREM ProgramsOwned == Spec => []NoStrayProgram
<1>1. Init => LinkInv
  BY LinkStart, Zenon DEF Init
<1>2. LinkInv => NoStrayProgram
  BY Zenon DEF LinkInv, NoStrayProgram
<1> QED
  BY <1>1, <1>2, LinkStep, PTL DEF Spec

-----------------------------------------------------------------------------
(* The tick.  Without a replay the control lock orders everything between  *)
(* the rebalancer's decision and the seeding of the buckets.               *)

Stages == {"idle", "try", "stamp", "store", "sync", "save", "user", "kern", "beat", "link", "end"}
Outside == {"idle", "try"}
SnapType == [gen : Nat, pi : Int, age : Nat]
ThreadType ==
  [at : Stages, leg : {"tick", "beat", "replay"}, need : BOOLEAN, snap : SnapType, pi : Int, left : Int]

TickType ==
  /\ thr \in [Threads -> ThreadType]
  /\ reb \in [pi : Int, age : Nat] /\ table \in SnapType

(* Who is past the lock holds it, and replays do not run. *)
Locked ==
  /\ \A t \in Threads : thr[t].at \notin Outside <=> lock = t
  /\ \A t \in Threads : thr[t].leg # "replay"

(* The holder works with the rebalancer's share; what it has stamped is    *)
(* the table's successor; and only it keeps the table from being current.  *)
Follows ==
  /\ \A t \in Threads : lock = t => thr[t].pi = reb.pi
  /\ \A t \in Threads : thr[t].at = "store" =>
       thr[t].snap.pi = reb.pi /\ thr[t].snap.gen = Upto(table.gen + 1, MaxGen)
  /\ (\A t \in Threads : thr[t].at \notin {"stamp", "store"}) => table.pi = reb.pi

(* A thread that has yet to note the capacity of the share it was given. *)
Unnoted(t) == thr[t].leg = "tick" /\ thr[t].at \in {"stamp", "store", "sync", "save"}

(* Only the holder keeps a bucket from the capacity that was noted last,   *)
(* and that from the share, once there is one.                             *)
Seeded ==
  /\ \A t \in Threads : thr[t].at \in {"user", "kern"} => lastCap = CapFor(thr[t].pi) /\ ~primed
  /\ (\A t \in Threads : thr[t].at # "user") => userCap = Seed
  /\ ((\A t \in Threads : thr[t].at \notin {"user", "kern"}) /\ shed # NoShed /\ ~kernLost) => kernCap = Seed
  /\ (\A t \in Threads : ~Unnoted(t)) => reb.pi = 5 \/ lastCap = CapFor(reb.pi)

(* The inductive invariant: the three facts hold while a process serves    *)
(* without a replay, and a process that does not serve is in no tick and   *)
(* has no handle of a program.                                             *)
TickInv ==
  /\ TickType
  /\ ~replay /\ serving => Locked /\ Follows /\ Seeded
  /\ ~serving => shed = NoShed /\ \A t \in Threads : thr[t].at = "idle" /\ thr[t].leg = "tick"
  /\ ~replay => \A t \in Replayers : thr[t].at = "idle"

(* The rebalancer's target is a number. *)
LEMMA StarType ==
  ASSUME NEW s \in Signals, NEW pi \in Int
  PROVE  compute_pi_star(s, pi, 10) \in Int
<1> DEFINE a == s.q_prefill
           b == s.slo_prefill
           c == 10 - s.fp_share
           prefill == 35 * a * 10 + 35 * b * c
           decode == (35 * s.q_decode + 30 * s.kv_decode + 35 * s.slo_decode) * 10
<1>1. a \in 0..10 /\ b \in 0..10 /\ c \in 0..10 /\ s.q_decode \in 0..10 /\ s.kv_decode \in 0..10 /\ s.slo_decode \in 0..10
  BY ControlAssumption
<1>2. prefill \in Nat /\ decode \in Nat
  <2>1. \A x, y \in Nat : x * y \in Nat /\ x + y \in Nat
    OBVIOUS
  <2>2. 35 * a * 10 \in Nat /\ 35 * b \in Nat /\ c \in Nat
    BY <1>1
  <2>3. 35 * b * c \in Nat
    BY <2>1, <2>2, Zenon
  <2>4. prefill \in Nat
    BY <2>1, <2>2, <2>3, Zenon
  <2>5. decode \in Nat
    <3> DEFINE q == 35 * s.q_decode
               k == 30 * s.kv_decode
               l == 35 * s.slo_decode
    <3>1. q \in Nat /\ k \in Nat /\ l \in Nat /\ 10 \in Nat
      BY <1>1
    <3> HIDE DEF q, k, l
    <3>2. (q + k + l) * 10 \in Nat
      BY <2>1, <3>1, Zenon
    <3> QED
      BY <3>2, Zenon DEF q, k, l
  <2> QED
    BY <2>4, <2>5, Zenon
<1>3. compute_pi_star(s, pi, 10) = IF prefill + decode = 0 THEN pi ELSE (10 * prefill) \div (prefill + decode)
  BY Zenon DEF compute_pi_star
<1> HIDE DEF prefill, decode
<1> QED
  BY <1>2, <1>3

(* A thread that is not in a tick. *)
LEMMA RestType ==
  ASSUME NEW n \in Int
  PROVE  /\ [Idle EXCEPT !.left = n] \in ThreadType
         /\ [Idle EXCEPT !.left = n].at = "idle" /\ [Idle EXCEPT !.left = n].leg = "tick"
<1> DEFINE sn == [gen |-> 0, pi |-> 5, age |-> 0]
           r == [at |-> "idle", leg |-> "tick", need |-> FALSE, snap |-> sn, pi |-> 5, left |-> n]
<1>1. sn \in SnapType /\ 5 \in Int
  BY DEF SnapType
<1>2. [Idle EXCEPT !.left = n] = r
  <2>1. ASSUME NEW f, NEW g
        PROVE  [[at |-> "idle", leg |-> "tick", need |-> f, snap |-> g, pi |-> 5, left |-> 0] EXCEPT !.left = n]
                 = [at |-> "idle", leg |-> "tick", need |-> f, snap |-> g, pi |-> 5, left |-> n]
    OBVIOUS
  <2> QED
    BY <2>1, Zenon DEF Idle
<1> HIDE DEF sn
<1>3. FALSE \in BOOLEAN
  BY Zenon
<1>4. r \in ThreadType
  BY <1>1, <1>3, Zenon DEF ThreadType, Stages
<1> QED
  BY <1>2, <1>4, Zenon

(* Initially nobody is in a tick. *)
LEMMA TickStart == Init => TickInv
<1> SUFFICES ASSUME Init PROVE TickInv
  BY Zenon
<1>1. thr \in [Threads -> ThreadType] /\ \A t \in Threads : thr[t].at = "idle" /\ thr[t].leg = "tick"
  <2>1. Windows \in Int
    BY ControlAssumption
  <2>2. thr = [t \in Threads |-> [Idle EXCEPT !.left = Windows]]
    BY Zenon DEF Init, ControlInit
  <2> QED
    BY <2>1, <2>2, RestType, Zenon
<1>2. reb \in [pi : Int, age : Nat] /\ table \in SnapType
  BY ControlAssumption DEF Init, ControlInit, SnapType
<1>3. serving = FALSE /\ shed = NoShed
  BY Zenon DEF Init, ControlInit, LinkInit
<1> QED
  BY <1>1, <1>2, <1>3, Zenon DEF TickInv, TickType, Threads

(* Steps of a thread that is in a tick. *)
LEMMA TickKeeps ==
  ASSUME TickInv, NEW t \in Threads, Step(t)
  PROVE  TickInv'
<1> USE DEF TickInv, TickType, Frame, replay
<1>0. thr[t] \in ThreadType /\ Rest(t) \in ThreadType /\ Rest(t).at = "idle" /\ Rest(t).leg = "tick"
  BY RestType, Zenon DEF Rest, ThreadType
<1>1. CASE TickDropped(t) \/ TickLight(t)
  <2>1. thr' = [thr EXCEPT ![t] = Rest(t)] /\ thr[t].at = "try"
    BY <1>1, Zenon DEF TickDropped, TickLight
  <2>2. UNCHANGED <<link, lock, reb, table, lastCap, userCap, kernCap, kernLost, primed, serving, mode, actuate, armed, cast, upsets>>
    BY <1>1, Zenon DEF TickDropped, TickLight
  <2> QED
    BY <1>0, <2>1, <2>2, ZenonT(60) DEF Locked, Follows, Seeded, Seed, Unnoted, Outside, link, Threads
<1>2. CASE Stamp(t)
  <2> DEFINE sn == [gen |-> Upto(table.gen + 1, MaxGen), pi |-> thr[t].pi, age |-> 0]
  <2>1. sn \in SnapType /\ sn.gen = Upto(table.gen + 1, MaxGen) /\ sn.pi = thr[t].pi
    BY <1>0, ControlAssumption, SMTT(60) DEF SnapType, ThreadType, Upto
  <2>2. thr[t].at = "stamp" /\ thr' = [thr EXCEPT ![t].at = "store", ![t].snap = sn]
    BY <1>2, Zenon DEF Stamp
  <2>3. UNCHANGED <<link, lock, reb, table, lastCap, userCap, kernCap, kernLost, primed, serving, cast>>
    BY <1>2, Zenon DEF Stamp
  <2> HIDE DEF sn
  <2>4. TickType'
    BY <1>0, <2>1, <2>2, <2>3, ZenonT(60) DEF ThreadType, Stages
  <2>5. /\ \A k \in Threads \ {t} : thr'[k] = thr[k]
        /\ thr'[t].at = "store" /\ thr'[t].snap = sn /\ thr'[t].pi = thr[t].pi /\ thr'[t].leg = thr[t].leg
    BY <1>0, <2>2, Zenon DEF ThreadType
  <2>6. ASSUME ~replay, serving PROVE Follows'
    BY <2>1, <2>2, <2>3, <2>5, <2>6, SMTT(60) DEF Locked, Follows, Outside
  <2>7. ASSUME ~replay, serving PROVE Locked' /\ Seeded'
    BY <2>2, <2>3, <2>5, <2>7, SMTT(60) DEF Locked, Seeded, Seed, Unnoted, Outside, link
  <2> QED
    BY <2>2, <2>3, <2>4, <2>5, <2>6, <2>7, Zenon DEF Threads
<1>3. CASE Publish(t)
  <2>0. Idle.snap \in SnapType
    BY SMTT(60) DEF Idle, SnapType
  <2> DEFINE nx == IF thr[t].leg = "beat" THEN "link" ELSE "sync"
  <2>1. nx \in {"link", "sync"} /\ (nx = "link" <=> thr[t].leg = "beat")
    BY Zenon
  <2>2. thr[t].at = "store" /\ table' = thr[t].snap /\ thr' = [thr EXCEPT ![t].at = nx, ![t].snap = Idle.snap]
    BY <1>3, Zenon DEF Publish
  <2>3. UNCHANGED <<link, lock, reb, lastCap, userCap, kernCap, kernLost, primed, serving, cast>>
    BY <1>3, Zenon DEF Publish
  <2> HIDE DEF nx
  <2>4. TickType'
    BY <1>0, <2>0, <2>1, <2>2, <2>3, ZenonT(60) DEF ThreadType, Stages
  <2>5. /\ \A k \in Threads \ {t} : thr'[k] = thr[k]
        /\ thr'[t].at = nx /\ thr'[t].pi = thr[t].pi /\ thr'[t].leg = thr[t].leg
    BY <1>0, <2>2, Zenon DEF ThreadType
  <2>6. ASSUME ~replay, serving PROVE Follows'
    BY <2>1, <2>2, <2>3, <2>5, <2>6 DEF Locked, Follows, Outside
  <2>7. ASSUME ~replay, serving PROVE Locked' /\ Seeded'
    <3>1. Locked'
      BY <2>1, <2>2, <2>3, <2>5, <2>7, SMTT(60) DEF Locked, Outside
    <3>2. UNCHANGED <<lastCap, userCap, kernCap, kernLost, primed, shed, reb>> /\ Seed' = Seed
      BY <2>3, Zenon DEF link, Seed
    <3>3. /\ thr'[t].at \notin {"user", "kern"} /\ thr[t].at \notin {"user", "kern"}
          /\ Unnoted(t)' <=> Unnoted(t)
      BY <1>0, <2>1, <2>2, <2>5, <2>7, SMTT(60) DEF Unnoted, Locked, ThreadType
    <3>4. \A k \in Threads : Unnoted(k)' <=> Unnoted(k)
      BY <2>5, <3>3, Zenon DEF Unnoted
    <3>5. Seeded'
      BY <2>5, <2>7, <3>2, <3>3, <3>4, ZenonT(60) DEF Seeded
    <3> QED
      BY <3>1, <3>5, Zenon
  <2> QED
    BY <2>1, <2>2, <2>3, <2>4, <2>5, <2>6, <2>7, Zenon DEF Threads
<1>4. CASE SyncCompare(t)
  BY <1>0, <1>4, SMTT(60) DEF SyncCompare, AfterSync, Goto, Locked, Follows, Seeded, Seed, Unnoted, Outside, link, Threads, ThreadType, Stages
<1>5. CASE SyncSave(t)
  BY <1>0, <1>5, SMTT(60) DEF SyncSave, Goto, Locked, Follows, Seeded, Seed, Unnoted, Outside, link, Threads, ThreadType, Stages
<1>6. CASE SeedUser(t)
  BY <1>0, <1>6, SMTT(60) DEF SeedUser, Goto, Locked, Follows, Seeded, Seed, Unnoted, Outside, link, Threads, ThreadType, Stages
<1>7. CASE SeedKernel(t)
  BY <1>0, <1>7, SMTT(60) DEF SeedKernel, AfterSync, Goto, Locked, Follows, Seeded, Seed, Unnoted, Outside, link, Threads, ThreadType, Stages
<1>8. CASE Beat(t)
  BY <1>0, <1>8, SMTT(60) DEF Beat, Goto, Locked, Follows, Seeded, Seed, Unnoted, Outside, link, Threads, ThreadType, Stages
<1>9. CASE CheckLink(t)
  BY <1>0, <1>9, SMTT(60) DEF CheckLink, DropShed, Goto, Locked, Follows, Seeded, Seed, Unnoted, Outside, link, Threads, ThreadType, Stages
<1>10. CASE TickEnd(t)
  <2>1. thr[t].at = "end" /\ lock' = NoThread /\ thr' = [thr EXCEPT ![t] = Rest(t)]
    BY <1>10, Zenon DEF TickEnd
  <2>2. UNCHANGED <<link, reb, table, lastCap, userCap, kernCap, kernLost, primed, serving, cast>>
    BY <1>10, Zenon DEF TickEnd
  <2>3. TickType'
    BY <1>0, <2>1, <2>2, Zenon
  <2>4. /\ \A k \in Threads \ {t} : thr'[k] = thr[k]
        /\ thr'[t].at = "idle" /\ thr'[t].leg = "tick"
    BY <1>0, <2>1, Zenon
  <2>5. NoThread \notin Threads
    BY ControlAssumption, Zenon DEF Threads
  <2>6. ASSUME ~replay, serving PROVE \A k \in Threads \ {t} : thr[k].at \in Outside
    BY <2>1, <2>6, Zenon DEF Locked, Outside
  <2>7. ASSUME ~replay, serving PROVE Locked'
    BY <2>1, <2>4, <2>5, <2>6, <2>7 DEF Locked, Outside
  <2>8. ASSUME ~replay, serving PROVE Follows'
    BY <2>1, <2>2, <2>4, <2>5, <2>6, <2>8 DEF Follows, Outside
  <2>9. ASSUME ~replay, serving PROVE Seeded'
    BY <2>1, <2>2, <2>4, <2>6, <2>9, Zenon DEF Seeded, Seed, Unnoted, Outside, link
  <2>10. ~serving' => shed' = NoShed /\ \A k \in Threads : thr'[k].at = "idle" /\ thr'[k].leg = "tick"
    BY <2>2, <2>4, Zenon DEF link
  <2>11. ~replay' => \A k \in Replayers : thr'[k].at = "idle"
    BY <2>2, <2>4, Zenon DEF Threads
  <2> QED
    BY <2>2, <2>3, <2>7, <2>8, <2>9, <2>10, <2>11, Zenon
<1>11. ASSUME NEW s \in Signals, TickLock(t, s) PROVE TickInv'
  <2> DEFINE star == compute_pi_star(s, reb.pi, 10)
             up == MayUpdate(star)
             nx == IF up THEN "stamp" ELSE IF actuate THEN "sync" ELSE "beat"
  <2>1. star \in Int /\ nx \in {"stamp", "sync", "beat"} /\ (up <=> nx = "stamp")
    BY StarType, Zenon
  <2>2. thr[t].at = "try" /\ lock = NoThread /\ lock' = t
    BY <1>11, Zenon DEF TickLock
  <2>3. reb' = [pi |-> IF up THEN star ELSE reb.pi, age |-> IF up THEN 0 ELSE reb.age]
    BY <1>11, Zenon DEF TickLock
  <2>4. thr' = [thr EXCEPT ![t].leg = "tick", ![t].pi = reb'.pi, ![t].at = nx]
    BY <1>11, Zenon DEF TickLock
  <2>5. UNCHANGED <<link, table, lastCap, userCap, kernCap, kernLost, primed, serving, cast>>
    BY <1>11, Zenon DEF TickLock
  <2> HIDE DEF star, up, nx
  <2>6. reb' \in [pi : Int, age : Nat] /\ (nx # "stamp" => reb'.pi = reb.pi)
    BY <2>1, <2>3, Zenon
  <2>7. TickType'
    BY <1>0, <2>1, <2>4, <2>5, <2>6, ZenonT(60) DEF ThreadType, Stages
  <2>8. /\ \A k \in Threads \ {t} : thr'[k] = thr[k]
        /\ thr'[t].at = nx /\ thr'[t].pi = reb'.pi /\ thr'[t].leg = "tick"
    BY <1>0, <2>4, Zenon DEF ThreadType
  <2>9. ASSUME ~replay, serving PROVE \A k \in Threads : thr[k].at \in Outside
    BY <2>2, <2>9, ControlAssumption, Zenon DEF Locked, Threads
  <2>10. ASSUME ~replay, serving PROVE Follows'
    BY <2>1, <2>2, <2>5, <2>6, <2>8, <2>9, <2>10, ZenonT(60) DEF Locked, Follows, Outside
  <2>11. ASSUME ~replay, serving PROVE Locked'
    BY <2>1, <2>2, <2>8, <2>9, <2>11 DEF Locked, Outside
  <2>12. ASSUME ~replay, serving PROVE Seeded'
    <3>1. UNCHANGED <<lastCap, userCap, kernCap, kernLost, primed, shed>> /\ Seed' = Seed
      BY <2>5, Zenon DEF link, Seed
    <3>2. \A k \in Threads : thr'[k].at \notin {"user", "kern"} /\ thr[k].at \notin {"user", "kern"} /\ ~Unnoted(k)
      BY <2>1, <2>8, <2>9, <2>12, Zenon DEF Outside, Unnoted
    <3>3. ~Unnoted(t)' => reb'.pi = reb.pi
      BY <2>1, <2>6, <2>8, Zenon DEF Unnoted
    <3> QED
      BY <2>12, <3>1, <3>2, <3>3, ZenonT(60) DEF Seeded
  <2>13. serving /\ UNCHANGED serving
    BY <2>2, <2>5, Zenon
  <2>14. ~replay' => \A k \in Replayers : thr'[k].at = "idle"
    BY <2>2, <2>5, <2>8, Zenon DEF Threads
  <2> QED
    BY <2>5, <2>7, <2>10, <2>11, <2>12, <2>13, <2>14
<1> QED
  BY <1>1, <1>2, <1>3, <1>4, <1>5, <1>6, <1>7, <1>8, <1>9, <1>10, <1>11, Zenon DEF Step

(* A process that starts, or ends, is in no tick. *)
LEMMA ProcessKeeps ==
  ASSUME TickInv, ConfigureUserspace \/ ConfigureKernel \/ Exit
  PROVE  TickInv'
<1> USE DEF TickInv, TickType, replay
<1>1. thr' = [t \in Threads |-> [Idle EXCEPT !.left = thr[t].left]] /\ lock' = NoThread /\ cast' = cast
  BY Zenon DEF ConfigureUserspace, ConfigureKernel, Fresh, Exit
<1>2. /\ thr' \in [Threads -> ThreadType]
      /\ \A t \in Threads : thr'[t].at = "idle" /\ thr'[t].leg = "tick"
  <2>1. \A t \in Threads : thr[t].left \in Int
    BY Zenon DEF ThreadType
  <2> QED
    BY <1>1, <2>1, RestType, Zenon
<1>3. reb' \in [pi : Int, age : Nat] /\ table' \in SnapType
  <2>1. Fresh \/ Exit
    BY Zenon DEF ConfigureUserspace, ConfigureKernel
  <2> QED
    BY <2>1, ControlAssumption DEF Fresh, Exit, SnapType
<1>4. CASE Exit
  BY <1>1, <1>2, <1>3, <1>4, Zenon DEF Exit, AbandonShed, Threads
<1>5. CASE ConfigureUserspace \/ ConfigureKernel
  <2>1. serving' /\ ~serving /\ table'.pi = reb'.pi /\ reb'.pi = 5 /\ lastCap' = Burst
    <3>1. Fresh /\ ~serving
      BY <1>5, Zenon DEF ConfigureUserspace, ConfigureKernel
    <3> QED
      BY <3>1 DEF Fresh
  <2>2. ASSUME ConfigureUserspace PROVE Seeded'
    <3>1. userCap' = Burst /\ primed' = FALSE /\ shed' = NoShed
      BY <2>1, <2>2, Zenon DEF ConfigureUserspace
    <3> QED
      BY <1>2, <2>1, <3>1, ZenonT(60) DEF Seeded, Seed
  <2>3. ASSUME ConfigureKernel PROVE Seeded'
    <3>1. userCap' = CapFor(5) /\ kernCap' = CapFor(5) /\ primed' = TRUE
      BY <2>3, Zenon DEF ConfigureKernel
    <3> QED
      BY <1>2, <2>1, <3>1, ZenonT(60) DEF Seeded, Seed
  <2>4. Locked' /\ Follows'
    BY <1>1, <1>2, <2>1, ControlAssumption, ZenonT(60) DEF Locked, Follows, Outside, Threads
  <2> QED
    BY <1>1, <1>2, <1>3, <1>5, <2>1, <2>2, <2>3, <2>4, Zenon DEF Threads
<1> QED
  BY <1>4, <1>5, Zenon

(* A request that arrives notes whether the rebalancer is needed. *)
LEMMA TryType ==
  ASSUME NEW r \in ThreadType, NEW n \in BOOLEAN
  PROVE  [r EXCEPT !.at = "try", !.need = n] \in ThreadType
  BY Zenon DEF ThreadType, Stages

(* A request that arrives stays outside the lock. *)
LEMMA ArrivalKeeps ==
  ASSUME TickInv, NEW t \in Tickers, NEW regret \in BOOLEAN, Request(t, regret)
  PROVE  TickInv'
<1> USE DEF TickInv, TickType, replay, Frame
<1> DEFINE n == regret \/ actuate \/ table.age >= Heartbeat
<1>1. n \in BOOLEAN
  BY Zenon
<1>2. t \in Threads /\ thr[t].at = "idle" /\ thr' = [thr EXCEPT ![t].at = "try", ![t].need = n]
  BY Zenon DEF Request, Threads
<1>3. UNCHANGED <<link, lock, reb, table, lastCap, userCap, kernCap, kernLost, primed, serving, cast>> /\ serving
  BY Zenon DEF Request
<1> HIDE DEF n
<1>4. TickType'
  BY <1>1, <1>2, <1>3, TryType, ZenonT(60)
<1>5. /\ \A k \in Threads \ {t} : thr'[k] = thr[k]
      /\ thr'[t].at = "try" /\ thr'[t].pi = thr[t].pi /\ thr'[t].leg = thr[t].leg
  BY <1>2 DEF ThreadType
<1>6. ASSUME ~replay PROVE Locked' /\ Follows' /\ Seeded'
  BY <1>2, <1>3, <1>5, <1>6, SMTT(60) DEF Locked, Follows, Seeded, Seed, Unnoted, Outside, link
<1> QED
  BY <1>3, <1>4, <1>5, <1>6, ControlAssumption, SMTT(60) DEF Threads

(* Time that passes changes ages only. *)
LEMMA PassKeeps ==
  ASSUME TickInv, Pass
  PROVE  TickInv'
<1> USE DEF TickInv, TickType, replay, Frame
<1>1. /\ UNCHANGED <<link, lock, lastCap, userCap, kernCap, kernLost, primed, serving, cast>> /\ serving
      /\ reb' \in [pi : Int, age : Nat] /\ reb'.pi = reb.pi
      /\ table' \in SnapType /\ table'.pi = table.pi /\ table'.gen = table.gen
  BY ControlAssumption DEF Pass, SnapType, Upto
<1>2. ASSUME NEW k \in Threads
      PROVE  /\ thr'[k] \in ThreadType /\ thr'[k].at = thr[k].at /\ thr'[k].leg = thr[k].leg /\ thr'[k].pi = thr[k].pi
             /\ thr'[k].snap.pi = thr[k].snap.pi /\ thr'[k].snap.gen = thr[k].snap.gen
  <2> DEFINE sn == [thr[k].snap EXCEPT !.age = Upto(@ + 1, MaxAge)]
  <2>1. sn \in SnapType /\ sn.pi = thr[k].snap.pi /\ sn.gen = thr[k].snap.gen
    BY ControlAssumption DEF ThreadType, SnapType, Upto
  <2>2. thr'[k] = IF thr[k].at = "store" THEN [thr[k] EXCEPT !.snap = sn] ELSE thr[k]
    BY Zenon DEF Pass
  <2> HIDE DEF sn
  <2> QED
    BY <2>1, <2>2 DEF ThreadType
<1>3. thr' \in [Threads -> ThreadType]
  BY <1>2, Zenon DEF Pass
<1>4. ASSUME ~replay PROVE Locked' /\ Follows' /\ Seeded'
  <2>1. Locked'
    BY <1>1, <1>2, <1>4, ZenonT(60) DEF Locked
  <2>2. Follows'
    BY <1>1, <1>2, <1>4 DEF Follows
  <2>3. Seeded'
    BY <1>1, <1>2, <1>4, ZenonT(60) DEF Seeded, Seed, Unnoted, link
  <2> QED
    BY <2>1, <2>2, <2>3, Zenon
<1> QED
  BY <1>1, <1>2, <1>3, <1>4, SMTT(60) DEF Threads

(* A replay's injection; there is none without a replay. *)
LEMMA ActuateKeeps ==
  ASSUME TickInv, NEW t \in Replayers, NEW s \in Signals, Actuate(t, s)
  PROVE  TickInv'
<1> USE DEF TickInv, TickType, replay, Frame
<1> DEFINE star == compute_pi_star(s, reb.pi, 10)
<1>1. star \in Int /\ t \in Threads
  BY StarType, Zenon DEF Threads
<1>2. replay' /\ UNCHANGED <<table, serving>> /\ serving
  BY Zenon DEF Actuate
<1>3. reb' = (IF armed THEN [pi |-> star, age |-> 0] ELSE reb)
  BY Zenon DEF Actuate
<1> DEFINE r == [thr[t] EXCEPT !.at = "stamp", !.leg = "replay", !.pi = star, !.left = thr[t].left - 1]
           q == [thr[t] EXCEPT !.left = thr[t].left - 1]
<1>4. thr' = [thr EXCEPT ![t] = r] \/ thr' = [thr EXCEPT ![t] = q]
  BY Zenon DEF Actuate
<1> HIDE DEF star
<1>5. reb' \in [pi : Int, age : Nat]
  BY <1>1, <1>3, Zenon
<1>6. r \in ThreadType /\ q \in ThreadType
  <2>1. thr[t] \in ThreadType /\ thr[t].left - 1 \in Int
    BY <1>1 DEF ThreadType
  <2> QED
    BY <1>1, <2>1, ZenonT(60) DEF ThreadType, Stages
<1> HIDE DEF r, q
<1>7. thr' \in [Threads -> ThreadType]
  BY <1>1, <1>4, <1>6, Zenon
<1> QED
  BY <1>2, <1>5, <1>7, Zenon

(* Every step of the router and of its surroundings keeps TickInv. *)
LEMMA TickStep == TickInv /\ [Next]_vars => TickInv'
<1> SUFFICES ASSUME TickInv, [Next]_vars PROVE TickInv'
  BY Zenon
<1>1. ASSUME UNCHANGED control, UNCHANGED shed \/ shed' = NoShed, serving => UNCHANGED shed PROVE TickInv'
  <2>1. UNCHANGED <<serving, cast, lock, reb, table, lastCap, userCap, kernCap, kernLost, primed, thr>>
    BY <1>1, Zenon DEF control
  <2>2. TickType' /\ (replay' <=> replay)
    BY <2>1, Zenon DEF TickInv, TickType, replay
  <2>3. Locked => Locked'
    BY <2>1, Zenon DEF Locked
  <2>4. Follows => Follows'
    BY <2>1, Zenon DEF Follows
  <2>5. serving /\ Seeded => Seeded'
    <3>1. Seed' = Seed /\ \A k \in Threads : Unnoted(k)' <=> Unnoted(k)
      BY <2>1, Zenon DEF Seed, Unnoted
    <3> QED
      BY <1>1, <2>1, <3>1, ZenonT(60) DEF Seeded
  <2> QED
    BY <1>1, <2>1, <2>2, <2>3, <2>4, <2>5, Zenon DEF TickInv
<1>2. CASE ConfigureUserspace \/ ConfigureKernel \/ Exit
  BY <1>2, ProcessKeeps, Zenon
<1>3. CASE ConfigureFails
  <2>1. UNCHANGED control /\ ~serving /\ (UNCHANGED shed \/ shed' = NoShed)
    BY <1>3, Zenon DEF ConfigureFails, AttachFails, attach_at
  <2> QED
    BY <1>1, <2>1, Zenon
<1>4. CASE Kernel
  BY <1>1, <1>4, Zenon DEF Kernel, External, AdminDetach, AdminReplace, IfaceGone, IfaceBack
<1>5. CASE UNCHANGED vars
  BY <1>1, <1>5, Zenon DEF vars, link
<1> QED
  BY <1>2, <1>3, <1>4, <1>5, PassKeeps, ArrivalKeeps, ActuateKeeps, TickKeeps, Zenon DEF Next, Configure, Arrive

(* Between ticks the table shows the rebalancer's share: no interleaving   *)
(* of requests, dropped ticks, heartbeats and exits loses an update.       *)
THEOREM TableCurrent == Spec => []TableFollows
<1>1. TickInv => TableFollows
  BY ControlAssumption, ZenonT(60) DEF TickInv, TableFollows, Locked, Follows, Outside, Threads
<1> QED
  BY <1>1, TickStart, TickStep, PTL DEF Spec

(* Between ticks the capacity noted last is that of the share, once one    *)
(* was set, and both buckets have it: all but the kernel's after an update *)
(* of its map that failed, and a process that has noted none yet, which    *)
(* keeps the seed of with_kernel_admit.                                    *)
THEOREM SeedCurrent == Spec => []SeedFollows
<1>1. TickInv => SeedFollows
  BY ControlAssumption, Zenon DEF TickInv, SeedFollows, Locked, Seeded, Unnoted, Outside, Threads
<1> QED
  BY <1>1, TickStart, TickStep, PTL DEF Spec

(* No two ticks publish the same generation, though each reads it in one   *)
(* step and stores its successor in another.                               *)
THEOREM GenerationsDistinct == Spec => GenerationGrows
<1> DEFINE A == \A t \in Tickers : ~replay /\ thr[t].at = "store" /\ thr'[t].at \in {"sync", "link"} =>
                  table'.gen = Upto(table.gen + 1, MaxGen)
<1>1. ASSUME TickInv, [Next]_vars PROVE [A]_vars
  <2> SUFFICES ASSUME Next, NEW t \in Tickers, ~replay, thr[t].at = "store", thr'[t].at \in {"sync", "link"}
               PROVE  table'.gen = Upto(table.gen + 1, MaxGen)
    BY <1>1, Zenon
  <2>1. CASE Publish(t)
    BY <1>1, <2>1, Zenon DEF Publish, TickInv, Follows, Threads
  <2>2. t \in Threads /\ thr \in [Threads -> ThreadType]
    BY <1>1, Zenon DEF Threads, TickInv, TickType
  <2>3. ASSUME NEW k \in Threads, Step(k), k # t PROVE thr'[t] = thr[t]
    BY <2>2, <2>3, ZenonT(60) DEF Step, TickDropped, TickLight, Stamp, Publish, SyncCompare, SyncSave, SeedUser, SeedKernel,
       Beat, CheckLink, TickEnd, TickLock, Goto
  <2>4. Step(t) => Publish(t)
    BY Zenon DEF Step, TickDropped, TickLight, Stamp, SyncCompare, SyncSave, SeedUser, SeedKernel,
       Beat, CheckLink, TickEnd, TickLock
  <2>5. Configure \/ Exit \/ Kernel => thr'[t].at = "idle" \/ thr'[t] = thr[t]
    <3>1. thr[t].left \in Int
      BY <2>2, Zenon DEF ThreadType
    <3>2. Fresh \/ Exit => thr'[t] = [Idle EXCEPT !.left = thr[t].left]
      BY <2>2, Zenon DEF Fresh, Exit
    <3> QED
      BY <3>1, <3>2, RestType, Zenon DEF Configure, ConfigureUserspace, ConfigureKernel, ConfigureFails, Kernel, control
  <2>6. Pass => thr'[t].at = thr[t].at
    BY <2>2 DEF Pass, ThreadType
  <2>7. ASSUME NEW k \in Tickers, Arrive(k) PROVE thr'[t] = thr[t]
    BY <2>2, <2>7, Zenon DEF Arrive, Request, Threads
  <2>8. ASSUME NEW k \in Replayers, NEW s \in Signals, Actuate(k, s) PROVE FALSE
    BY <2>8, Zenon DEF Actuate, replay
  <2> QED
    BY <2>1, <2>3, <2>4, <2>5, <2>6, <2>7, <2>8, Zenon DEF Next
<1> QED
  BY <1>1, TickStart, TickStep, PTL DEF Spec, GenerationGrows

-----------------------------------------------------------------------------
(* State plane *)

(* A row and a snapshot are records of their fields. *)
IsRow(r) ==
  /\ r = [warmth |-> r.warmth, occ |-> r.occ, kv |-> r.kv]
  /\ IsFiniteSet(r.warmth) /\ r.occ \in Nat /\ r.kv \in Nat
IsSnap(s) ==
  /\ s = [gen |-> s.gen, at |-> s.at, idle |-> s.idle]
  /\ s.gen \in 0..GenLimit /\ s.at = [x \in DOMAIN s.at |-> s.at[x]]
  /\ \A x \in DOMAIN s.at : IsRow(s.at[x])

(* t has at least the rows, the warmth and the generation of s. *)
Covers(t, s) ==
  /\ s.gen <= t.gen /\ DOMAIN s.at \subseteq DOMAIN t.at
  /\ \A x \in DOMAIN s.at : s.at[x].warmth \subseteq t.at[x].warmth

(* A warmth map keeps what it has. *)
LEMMA InsertedKeeps ==
  ASSUME NEW w, NEW new, NEW v \in Inserted(w, new)
  PROVE  w \subseteq v /\ v \subseteq w \union new
  BY Zenon DEF Inserted

LEMMA InsertedFinite ==
  ASSUME NEW w, NEW new, IsFiniteSet(w), IsFiniteSet(new), NEW v \in Inserted(w, new)
  PROVE  IsFiniteSet(v)
<1>1. IsFiniteSet(w \union new)
  BY FS_Union, Zenon
<1>2. v \in SUBSET (w \union new)
  BY InsertedKeeps, Zenon
<1> QED
  BY <1>1, <1>2, FS_Subset, Zenon

(* A row is what it was built from. *)
LEMMA RowFields ==
  ASSUME NEW w, IsFiniteSet(w), NEW o \in Nat, NEW k \in Nat
  PROVE  LET r == [warmth |-> w, occ |-> o, kv |-> k] IN IsRow(r) /\ r.warmth = w /\ r.occ = o /\ r.kv = k
<1>1. ASSUME NEW r, r = [warmth |-> w, occ |-> o, kv |-> k] PROVE IsRow(r) /\ r.warmth = w /\ r.occ = o /\ r.kv = k
  <2>1. r.warmth = w /\ r.occ = o /\ r.kv = k /\ r = [warmth |-> r.warmth, occ |-> r.occ, kv |-> r.kv]
    BY <1>1, Zenon
  <2> QED
    BY <2>1, Zenon DEF IsRow
<1> QED
  BY <1>1, Zenon

LEMMA WarmedRow ==
  ASSUME NEW r, IsRow(r), NEW w, IsFiniteSet(w)
  PROVE  IsRow([r EXCEPT !.warmth = w]) /\ [r EXCEPT !.warmth = w].warmth = w
<1>1. [r EXCEPT !.warmth = w] = [warmth |-> w, occ |-> r.occ, kv |-> r.kv]
  BY DEF IsRow
<1> QED
  BY <1>1, RowFields, Zenon DEF IsRow

LEMMA RoutingFinite ==
  ASSUME NEW n \in Tokens
  PROVE  IsFiniteSet(routing_blocks(n, BlockTokens) \X {Raw})
<1> DEFINE top == ((n + BlockTokens - 1) \div BlockTokens) - 1
<1>1. top \in Int
  BY PlaneAssumption
<1> HIDE DEF top
<1>2. IsFiniteSet(0..top)
  BY <1>1, FS_Interval
<1>3. IsFiniteSet({i * BlockTokens : i \in 0..top})
  <2> DEFINE T == {i * BlockTokens : i \in 0..top}
             f == [i \in 0..top |-> i * BlockTokens]
  <2>1. f \in [0..top -> T] /\ \A t \in T : \E i \in 0..top : f[i] = t
    BY Zenon
  <2>2. f \in Surjection(0..top, T)
    BY <2>1, Zenon DEF Surjection
  <2> HIDE DEF f, T
  <2> QED
    BY <1>2, <2>2, FS_Surjection, Zenon DEF T
<1>4. routing_blocks(n, BlockTokens) = {i * BlockTokens : i \in 0..top}
  BY Zenon DEF routing_blocks, top
<1>5. IsFiniteSet({Raw})
  BY FS_Singleton, Zenon
<1> QED
  BY <1>3, <1>4, <1>5, FS_Product, Zenon

(* What a snapshot holds grows with its rows. *)
LEMMA CoversHolds ==
  ASSUME NEW s, NEW t, Covers(t, s)
  PROVE  Holds(s) \subseteq Holds(t)
  BY Zenon DEF Covers, Holds

(* Replacing one row by a warmer one. *)
LEMMA RowCovers ==
  ASSUME NEW s, IsSnap(s), NEW x \in DOMAIN s.at, NEW g \in s.gen..GenLimit,
         NEW r, IsRow(r), s.at[x].warmth \subseteq r.warmth
  PROVE  LET t == [gen |-> g, at |-> [s.at EXCEPT ![x] = r], idle |-> s.idle] IN IsSnap(t) /\ Covers(t, s)
<1> DEFINE at == [s.at EXCEPT ![x] = r]
           t == [gen |-> g, at |-> at, idle |-> s.idle]
<1>1. t.gen = g /\ t.at = at /\ t.idle = s.idle
  BY Zenon
<1>2. DOMAIN at = DOMAIN s.at /\ \A y \in DOMAIN s.at : at[y] = IF y = x THEN r ELSE s.at[y]
  BY Zenon DEF IsSnap
<1>3. at = [y \in DOMAIN at |-> at[y]]
  BY Zenon
<1>4. g \in 0..GenLimit /\ s.gen <= g
  BY PlaneAssumption DEF IsSnap
<1> HIDE DEF at
<1>5. t = [gen |-> t.gen, at |-> t.at, idle |-> t.idle]
  BY <1>1, Zenon
<1> HIDE DEF t
<1>6. IsSnap(t) /\ Covers(t, s)
  BY <1>1, <1>2, <1>3, <1>4, <1>5, ZenonT(60) DEF IsSnap, Covers
<1> QED
  BY <1>6, Zenon DEF t, at

(* Every edit of a publisher covers the snapshot it loaded. *)
LEMMA RecordedCovers ==
  ASSUME NEW s, IsSnap(s), NEW x, NEW n \in Tokens, NEW t \in Recorded(s, x, n)
  PROVE  IsSnap(t) /\ Covers(t, s)
<1>1. CASE x \notin DOMAIN s.at
  BY <1>1 DEF Recorded, Covers, IsSnap
<1>2. CASE x \in DOMAIN s.at
  <2>1. PICK w \in Inserted(s.at[x].warmth, routing_blocks(n, BlockTokens) \X {Raw}) :
          t = [s EXCEPT !.gen = MinOf(@ + 1, GenLimit), !.at[x].warmth = w]
    BY <1>2, Zenon DEF Recorded
  <2> DEFINE r == [s.at[x] EXCEPT !.warmth = w]
             g == MinOf(s.gen + 1, GenLimit)
  <2>2. IsRow(r) /\ s.at[x].warmth \subseteq r.warmth
    <3>1. IsFiniteSet(w)
      BY <1>2, RoutingFinite, InsertedFinite, Zenon DEF IsSnap, IsRow
    <3>2. IsRow(s.at[x])
      BY <1>2, Zenon DEF IsSnap
    <3> QED
      BY <3>1, <3>2, WarmedRow, InsertedKeeps
  <2>3. g \in s.gen..GenLimit
    BY PlaneAssumption DEF IsSnap, MinOf
  <2>4. t = [gen |-> g, at |-> [s.at EXCEPT ![x] = r], idle |-> s.idle]
    BY <2>1, Zenon DEF IsSnap
  <2> HIDE DEF r, g
  <2> QED
    BY <1>2, <2>2, <2>3, <2>4, RowCovers, Zenon
<1> QED
  BY <1>1, <1>2, Zenon

LEMMA SaltedCovers ==
  ASSUME NEW s, IsSnap(s), NEW x, NEW id, NEW b, NEW t \in RecordedSalted(s, x, id, b)
  PROVE  IsSnap(t) /\ Covers(t, s)
<1>1. CASE x \notin DOMAIN s.at
  BY <1>1 DEF RecordedSalted, Covers, IsSnap
<1>2. CASE x \in DOMAIN s.at
  <2>1. PICK w \in Inserted(s.at[x].warmth, {salt_block(b, resolve_domain_key(id))}) :
          t = [s EXCEPT !.at[x].warmth = w]
    BY <1>2, Zenon DEF RecordedSalted
  <2> DEFINE r == [s.at[x] EXCEPT !.warmth = w]
  <2>2. IsRow(r) /\ s.at[x].warmth \subseteq r.warmth
    <3>1. IsFiniteSet({salt_block(b, resolve_domain_key(id))})
      BY FS_Singleton, Zenon
    <3>2. IsFiniteSet(w)
      BY <1>2, <3>1, InsertedFinite, Zenon DEF IsSnap, IsRow
    <3>3. IsRow(s.at[x])
      BY <1>2, Zenon DEF IsSnap
    <3> QED
      BY <3>2, <3>3, WarmedRow, InsertedKeeps
  <2>3. t = [gen |-> s.gen, at |-> [s.at EXCEPT ![x] = r], idle |-> s.idle] /\ s.gen \in s.gen..GenLimit
    BY <2>1, PlaneAssumption, SMTT(30) DEF IsSnap
  <2> HIDE DEF r
  <2> QED
    BY <1>2, <2>2, <2>3, RowCovers, Zenon
<1> QED
  BY <1>1, <1>2, Zenon

LEMMA GossipedCovers ==
  ASSUME NEW s, IsSnap(s), NEW m \in Updates, NEW t \in Gossiped(s, m)
  PROVE  IsSnap(t) /\ Covers(t, s)
<1> DEFINE g == MaxOf(s.gen, m.epoch)
           u == [s EXCEPT !.gen = MaxOf(@, m.epoch)]
<1>1. g \in s.gen..GenLimit /\ g \in 0..GenLimit
  BY PlaneAssumption DEF IsSnap, MaxOf
<1>2. u = [gen |-> g, at |-> s.at, idle |-> s.idle]
  BY DEF IsSnap
<1>3. CASE m.seat \notin DOMAIN s.at
  <2>1. t = u
    BY <1>3, Zenon DEF Gossiped
  <2> HIDE DEF g, u
  <2>2. u.gen = g /\ u.at = s.at /\ u.idle = s.idle
    BY <1>2, Zenon
  <2> QED
    BY <1>1, <1>2, <2>1, <2>2 DEF Covers, IsSnap
<1>4. CASE m.seat \in DOMAIN s.at
  <2> DEFINE x == m.seat
  <2>1. PICK w \in Inserted(s.at[x].warmth, m.blocks \X {Raw}) :
          t = [u EXCEPT !.at[x] = [warmth |-> w, occ |-> MinOf(m.occ, 10), kv |-> m.kv]]
    BY <1>4, Zenon DEF Gossiped
  <2> DEFINE r == [warmth |-> w, occ |-> MinOf(m.occ, 10), kv |-> m.kv]
  <2>2. IsRow(r) /\ s.at[x].warmth \subseteq r.warmth
    <3>1. IsFiniteSet(m.blocks \X {Raw})
      BY FS_Singleton, FS_Product, PlaneAssumption, Zenon
    <3>2. IsFiniteSet(w)
      BY <1>4, <3>1, InsertedFinite, Zenon DEF IsSnap, IsRow
    <3>3. MinOf(m.occ, 10) \in Nat /\ m.kv \in Nat
      BY PlaneAssumption, Zenon DEF MinOf
    <3>4. IsRow(r) /\ r.warmth = w
      BY <3>2, <3>3, RowFields
    <3> HIDE DEF r, u, g
    <3>5. s.at[x].warmth \subseteq w
      <4> DEFINE a == s.at[x].warmth
                 n == m.blocks \X {Raw}
      <4>1. w \in Inserted(a, n)
        OBVIOUS
      <4> HIDE DEF a, n, x
      <4>2. a \subseteq w
        BY <4>1, InsertedKeeps, Zenon
      <4> QED
        BY <4>2 DEF a
    <3> QED
      BY <3>4, <3>5, Zenon
  <2> HIDE DEF r, g, u
  <2>3. t = [gen |-> g, at |-> [s.at EXCEPT ![x] = r], idle |-> s.idle]
    BY <1>2, <2>1, Zenon DEF r
  <2> QED
    BY <1>1, <1>4, <2>2, <2>3, RowCovers, Zenon
<1> QED
  BY <1>3, <1>4, Zenon

LEMMA BumpedCovers ==
  ASSUME NEW s, IsSnap(s), s.gen < GenLimit, NEW t \in Bumped(s)
  PROVE  IsSnap(t) /\ Covers(t, s)
<1>1. t = [gen |-> s.gen + 1, at |-> s.at, idle |-> s.idle]
  BY Zenon DEF Bumped, IsSnap
<1>2. t.gen = s.gen + 1 /\ t.at = s.at /\ t.idle = s.idle
  BY <1>1, Zenon
<1>3. s.gen + 1 \in 0..GenLimit /\ s.gen <= s.gen + 1
  BY PlaneAssumption DEF IsSnap
<1> QED
  BY <1>1, <1>2, <1>3, Zenon DEF IsSnap, Covers

LEMMA HealedCovers ==
  ASSUME NEW s, IsSnap(s), NEW r \in Remotes, NEW t \in Healed(s, r)
  PROVE  IsSnap(t) /\ Covers(t, s)
<1> DEFINE all == DOMAIN s.at \union DOMAIN r.at
           g == MaxOf(s.gen, r.gen)
<1>1. PICK f : /\ f = [x \in all |-> f[x]] /\ \A x \in all : f[x] \in merge_pool(s.at, r.at, x)
               /\ t = Snapshot(g, f)
  <2> DEFINE rows == UNION {merge_pool(s.at, r.at, x) : x \in all}
  <2>1. PICK f \in [all -> rows] :
          (\A x \in all : f[x] \in merge_pool(s.at, r.at, x)) /\ t = Snapshot(g, f)
    BY Zenon DEF Healed
  <2>2. f = [x \in all |-> f[x]]
    BY Zenon
  <2> QED
    BY <2>1, <2>2, Zenon
<1>2. g \in 0..GenLimit /\ s.gen <= g
  BY PlaneAssumption DEF IsSnap, MaxOf
<1>3. ASSUME NEW x \in all
      PROVE  IsRow(f[x]) /\ (x \in DOMAIN s.at => s.at[x].warmth \subseteq f[x].warmth)
  <2>1. f[x] \in merge_pool(s.at, r.at, x)
    BY <1>1, Zenon
  <2>2. CASE x \notin DOMAIN r.at
    BY <2>1, <2>2, Zenon DEF merge_pool, IsSnap
  <2>3. CASE x \notin DOMAIN s.at
    BY <2>1, <2>3, PlaneAssumption DEF merge_pool, IsRow
  <2>4. CASE x \in DOMAIN r.at /\ x \in DOMAIN s.at
    <3>1. f[x] \in merge(s.at[x], r.at[x])
      BY <2>1, <2>4, Zenon DEF merge_pool
    <3>2. PICK w \in Inserted(s.at[x].warmth, r.at[x].warmth) :
            f[x] = [warmth |-> w, occ |-> MaxOf(s.at[x].occ, r.at[x].occ), kv |-> MaxOf(s.at[x].kv, r.at[x].kv)]
      BY <3>1, Zenon DEF merge
    <3>3. IsRow(s.at[x]) /\ IsRow(r.at[x])
      <4>1. IsRow(s.at[x])
        BY <2>4, Zenon DEF IsSnap
      <4>2. IsRow(r.at[x])
        BY <2>4, PlaneAssumption, Zenon DEF IsRow
      <4> QED
        BY <4>1, <4>2, Zenon
    <3>4. IsFiniteSet(w)
      BY <3>3, InsertedFinite, Zenon DEF IsRow
    <3>5. MaxOf(s.at[x].occ, r.at[x].occ) \in Nat /\ MaxOf(s.at[x].kv, r.at[x].kv) \in Nat
      BY <3>3, Zenon DEF IsRow, MaxOf
    <3> DEFINE o == MaxOf(s.at[x].occ, r.at[x].occ)
               k == MaxOf(s.at[x].kv, r.at[x].kv)
    <3>6. IsRow(f[x]) /\ f[x].warmth = w
      <4>1. f[x] = [warmth |-> w, occ |-> o, kv |-> k] /\ o \in Nat /\ k \in Nat
        BY <3>2, <3>5, Zenon
      <4> HIDE DEF o, k
      <4> QED
        BY <3>4, <4>1, RowFields
    <3>7. s.at[x].warmth \subseteq w
      <4> DEFINE a == s.at[x].warmth
                 n == r.at[x].warmth
      <4>1. w \in Inserted(a, n)
        OBVIOUS
      <4> HIDE DEF a, n
      <4>2. a \subseteq w
        BY <4>1, InsertedKeeps, Zenon
      <4> QED
        BY <4>2 DEF a
    <3> QED
      BY <3>6, <3>7, Zenon
  <2> QED
    BY <2>2, <2>3, <2>4, Zenon
<1>4. t.gen = g /\ t.at = f /\ t = [gen |-> t.gen, at |-> t.at, idle |-> t.idle]
  <2>1. ASSUME NEW i, NEW u, u = [gen |-> g, at |-> f, idle |-> i]
        PROVE  u.gen = g /\ u.at = f /\ u = [gen |-> u.gen, at |-> u.at, idle |-> u.idle]
    BY <2>1, Zenon
  <2> QED
    BY <1>1, <2>1, Zenon DEF Snapshot
<1>5. DOMAIN f = all
  BY <1>1, Zenon
<1> HIDE DEF g
<1> QED
  BY <1>1, <1>2, <1>3, <1>4, <1>5, Zenon DEF IsSnap, Covers

(* What was settled is in the published snapshot and in every copy that    *)
(* may still be stored.                                                    *)
KeepInv ==
  /\ IsSnap(snap) /\ settled.gen \in Nat
  /\ DOMAIN pub = Publishers /\ \A p \in Publishers : pub[p].idle \/ IsSnap(pub[p])
  /\ Durable
  /\ \A p \in Publishers :
       pub[p].idle \/ (settled.entries \subseteq Holds(pub[p]) /\ settled.gen <= pub[p].gen)

(* A snapshot built from its fields. *)
LEMMA SnapshotFields ==
  ASSUME NEW g, NEW at
  PROVE  LET t == Snapshot(g, at)
         IN  t.gen = g /\ t.at = at /\ ~t.idle /\ t = [gen |-> t.gen, at |-> t.at, idle |-> t.idle]
<1>1. ASSUME NEW i, NEW u, u = [gen |-> g, at |-> at, idle |-> i]
      PROVE  u.gen = g /\ u.at = at /\ u.idle = i /\ u = [gen |-> u.gen, at |-> u.at, idle |-> u.idle]
  BY <1>1, Zenon
<1> QED
  BY <1>1, Zenon DEF Snapshot

LEMMA NothingIdle == Nothing.idle
<1>1. ASSUME NEW g, NEW at, NEW i PROVE [gen |-> g, at |-> at, idle |-> i].idle = i
  BY Zenon
<1> QED
  BY <1>1, Zenon DEF Nothing

LEMMA RemoteSnap ==
  ASSUME NEW r \in Remotes
  PROVE  IsSnap(r)
<1> DEFINE rows == [x \in DOMAIN r.at |-> r.at[x]]
<1>1. r = Snapshot(r.gen, rows) /\ r.gen \in 0..GenLimit /\ \A x \in DOMAIN r.at : IsRow(r.at[x])
  BY PlaneAssumption, Zenon DEF IsRow, Snapshot
<1> DEFINE s == Snapshot(r.gen, rows)
<1> HIDE DEF rows
<1>2. s.at = rows /\ s = [gen |-> s.gen, at |-> s.at, idle |-> s.idle]
  BY SnapshotFields
<1> HIDE DEF s
<1>3. r = s
  BY <1>1, Zenon DEF s
<1>4. r.at = rows /\ r = [gen |-> r.gen, at |-> r.at, idle |-> r.idle]
  BY <1>2, <1>3, Zenon
<1>5. r.at = [x \in DOMAIN r.at |-> r.at[x]]
  BY <1>4, Zenon DEF rows
<1> QED
  BY <1>1, <1>4, <1>5, Zenon DEF IsSnap

LEMMA KeepStart == PlaneInit => KeepInv
<1> SUFFICES ASSUME PlaneInit PROVE KeepInv
  BY Zenon
<1> DEFINE rows == [x \in Here |-> Cold]
<1>1. snap.gen = 0 /\ snap.at = rows /\ snap = [gen |-> snap.gen, at |-> snap.at, idle |-> snap.idle]
  BY SnapshotFields DEF PlaneInit
<1>2. IsRow(Cold)
  <2>1. IsFiniteSet({}) /\ 0 \in Nat
    BY FS_EmptySet, Zenon
  <2> QED
    BY <2>1, RowFields, Zenon DEF Cold
<1>3. IsSnap(snap)
  BY <1>1, <1>2, PlaneAssumption DEF IsSnap
<1>4. DOMAIN pub = Publishers /\ \A p \in Publishers : pub[p].idle
  BY NothingIdle, Zenon DEF PlaneInit
<1>5. settled.gen = 0 /\ settled.entries = {}
  BY Zenon DEF PlaneInit
<1> QED
  BY <1>1, <1>3, <1>4, <1>5 DEF KeepInv, Durable

(* A publisher that has edited what it loaded. *)
LEMMA LoadKeeps ==
  ASSUME KeepInv, NEW p \in Publishers, NEW edited, Load(p, edited),
         \A t \in edited : IsSnap(t) /\ Covers(t, snap)
  PROVE  KeepInv'
<1>1. PICK t \in edited : pub' = [pub EXCEPT ![p] = t]
  BY Zenon DEF Load
<1>2. IsSnap(t) /\ Holds(snap) \subseteq Holds(t) /\ snap.gen <= t.gen
  BY CoversHolds, Zenon DEF Covers
<1>3. UNCHANGED <<snap, settled>>
  BY Zenon DEF Load
<1>4. snap.gen \in Nat /\ t.gen \in Nat
  <2>1. snap.gen \in 0..GenLimit /\ t.gen \in 0..GenLimit
    BY <1>2, Zenon DEF KeepInv, IsSnap
  <2> QED
    BY <2>1, PlaneAssumption
<1>5. settled.entries \subseteq Holds(t) /\ settled.gen <= t.gen
  <2>1. settled.entries \subseteq Holds(snap) /\ settled.gen <= snap.gen /\ settled.gen \in Nat
    BY Zenon DEF KeepInv, Durable
  <2>2. settled.entries \subseteq Holds(t)
    BY <1>2, <2>1, Zenon
  <2>3. settled.gen <= t.gen
    BY <1>2, <1>4, <2>1
  <2> QED
    BY <2>2, <2>3, Zenon
<1>6. Durable' /\ IsSnap(snap)' /\ (settled.gen \in Nat)'
  BY <1>3, ZenonT(60) DEF KeepInv, Durable, IsSnap, Holds
<1>7. DOMAIN pub' = Publishers /\ \A q \in Publishers : pub'[q] = IF q = p THEN t ELSE pub[q]
  BY <1>1, Zenon DEF KeepInv
<1> QED
  BY <1>2, <1>3, <1>5, <1>6, <1>7, Zenon DEF KeepInv

(* A publisher stores its copy. *)
LEMMA StoreKeeps ==
  ASSUME KeepInv, NEW p \in Publishers, Store(p)
  PROVE  KeepInv'
<1>1. /\ snap' = pub[p] /\ IsSnap(pub[p]) /\ pub' = [pub EXCEPT ![p] = Nothing] /\ ~pub[p].idle
      /\ settled.entries \subseteq Holds(pub[p]) /\ settled.gen <= pub[p].gen
  BY Zenon DEF Store, KeepInv
<1>2. DOMAIN pub' = Publishers /\ \A q \in Publishers : pub'[q] = IF q = p THEN Nothing ELSE pub[q]
  BY <1>1, Zenon DEF KeepInv
<1>3. \A q \in Publishers : pub'[q].idle \/ (q # p /\ pub'[q] = pub[q])
  BY <1>2, NothingIdle, Zenon
<1>4. pub[p].gen \in Nat
  BY <1>1, PlaneAssumption DEF IsSnap
<1>5. CASE Alone(p)
  <2>1. settled'.gen = pub[p].gen /\ settled'.entries = Holds(pub[p])
    BY <1>5, Zenon DEF Store
  <2>2. \A q \in Publishers : pub'[q].idle
    BY <1>3, <1>5, Zenon DEF Alone
  <2>3. Holds(snap)' = Holds(pub[p]) /\ IsSnap(snap)'
    BY <1>1, Zenon DEF Holds, IsSnap
  <2>4. Durable'
    <3>1. settled'.entries \subseteq Holds(snap)'
      BY <2>1, <2>3, Zenon
    <3>2. settled'.gen <= snap'.gen
      BY <1>1, <1>4, <2>1
    <3> QED
      BY <3>1, <3>2, Zenon DEF Durable
  <2> QED
    BY <1>2, <1>4, <2>1, <2>2, <2>3, <2>4, Zenon DEF KeepInv
<1>6. CASE ~Alone(p)
  <2>1. settled' = settled
    BY <1>6, Zenon DEF Store
  <2>2. Holds(snap)' = Holds(pub[p]) /\ IsSnap(snap)'
    BY <1>1, Zenon DEF Holds, IsSnap
  <2>3. Durable'
    BY <1>1, <2>1, <2>2, Zenon DEF Durable
  <2>4. settled.gen \in Nat /\ \A q \in Publishers :
          pub[q].idle \/ (IsSnap(pub[q]) /\ settled.entries \subseteq Holds(pub[q]) /\ settled.gen <= pub[q].gen)
    BY Zenon DEF KeepInv
  <2>5. \A q \in Publishers :
          pub'[q].idle \/ (IsSnap(pub[q])' /\ settled'.entries \subseteq Holds(pub[q])' /\ settled'.gen <= pub'[q].gen)
    <3> SUFFICES ASSUME NEW q \in Publishers, ~pub'[q].idle
                 PROVE  IsSnap(pub[q])' /\ settled'.entries \subseteq Holds(pub[q])' /\ settled'.gen <= pub'[q].gen
      BY Zenon
    <3>1. pub'[q] = pub[q]
      BY <1>3, Zenon
    <3>2. Holds(pub[q])' = Holds(pub[q]) /\ (IsSnap(pub[q])' <=> IsSnap(pub[q]))
      BY <3>1, Zenon DEF Holds, IsSnap
    <3> QED
      BY <2>1, <2>4, <3>1, <3>2, Zenon
  <2> QED
    BY <1>2, <2>1, <2>2, <2>3, <2>4, <2>5, Zenon DEF KeepInv
<1> QED
  BY <1>5, <1>6, Zenon

(* publish_snapshot settles what it publishes, or unsettles everything. *)
LEMMA PublishKeeps ==
  ASSUME KeepInv, NEW r \in Remotes, PublishSnapshot(r)
  PROVE  KeepInv'
<1>1. snap' = r /\ IsSnap(r) /\ r.gen \in Nat /\ UNCHANGED pub
  BY RemoteSnap, PlaneAssumption DEF PublishSnapshot
<1>2. CASE \A p \in Publishers : pub[p].idle
  <2>1. settled'.gen = r.gen /\ settled'.entries = Holds(r)
    BY <1>2, Zenon DEF PublishSnapshot
  <2>2. Durable'
    BY <1>1, <2>1 DEF Durable, Holds
  <2> QED
    BY <1>1, <1>2, <2>1, <2>2, ZenonT(60) DEF KeepInv, IsSnap
<1>3. CASE ~ \A p \in Publishers : pub[p].idle
  <2>1. settled'.gen = 0 /\ settled'.entries = {}
    BY <1>3, Zenon DEF PublishSnapshot
  <2>2. ASSUME NEW p \in Publishers, ~pub[p].idle PROVE pub[p].gen \in Nat
    <3>1. pub[p].gen \in 0..GenLimit
      BY <2>2, Zenon DEF KeepInv, IsSnap
    <3> QED
      BY <3>1, PlaneAssumption
  <2>3. Durable'
    BY <1>1, <2>1 DEF Durable
  <2>4. IsSnap(snap)' /\ settled'.gen \in Nat
    BY <1>1, <2>1 DEF IsSnap
  <2>5. ASSUME NEW p \in Publishers
        PROVE  pub'[p].idle \/ (IsSnap(pub[p])' /\ settled'.entries \subseteq Holds(pub[p])' /\ settled'.gen <= pub'[p].gen)
    <3>1. pub'[p] = pub[p]
      BY <1>1, Zenon
    <3>2. pub[p].idle \/ IsSnap(pub[p])
      BY Zenon DEF KeepInv
    <3>3. IsSnap(pub[p])' <=> IsSnap(pub[p])
      BY <3>1, Zenon DEF IsSnap
    <3>4. ~pub[p].idle => settled'.gen <= pub'[p].gen
      BY <2>1, <2>2, <3>1
    <3>5. settled'.entries \subseteq Holds(pub[p])'
      BY <2>1, Zenon
    <3> QED
      BY <3>1, <3>2, <3>3, <3>4, <3>5, Zenon
  <2>6. DOMAIN pub' = Publishers
    BY <1>1, Zenon DEF KeepInv
  <2> QED
    BY <2>3, <2>4, <2>5, <2>6, Zenon DEF KeepInv
<1> QED
  BY <1>2, <1>3, Zenon

LEMMA KeepStep == KeepInv /\ [PlaneNext]_planeVars => KeepInv'
<1> SUFFICES ASSUME KeepInv, [PlaneNext]_planeVars PROVE KeepInv'
  BY Zenon
<1>0. IsSnap(snap)
  BY Zenon DEF KeepInv
<1>1. ASSUME UNCHANGED <<snap, pub, settled>> PROVE KeepInv'
  BY <1>1 DEF KeepInv, IsSnap, Durable, Holds
<1>2. ASSUME NEW p \in Publishers, NEW x \in Seats, NEW n \in Tokens, RecordWarmth(p, x, n) PROVE KeepInv'
  BY <1>0, <1>2, RecordedCovers, LoadKeeps, Zenon DEF RecordWarmth
<1>3. ASSUME NEW p \in Publishers, NEW x \in Seats, NEW id \in Identities, NEW b \in Blocks,
             RecordSalted(p, x, id, b)
      PROVE  KeepInv'
  BY <1>0, <1>3, SaltedCovers, LoadKeeps, Zenon DEF RecordSalted
<1>4. ASSUME NEW p \in Publishers, NEW m \in Updates, ApplyGossip(p, m) PROVE KeepInv'
  BY <1>0, <1>4, GossipedCovers, LoadKeeps, Zenon DEF ApplyGossip
<1>5. ASSUME NEW p \in Publishers, NEW r \in Remotes, HealMerge(p, r) PROVE KeepInv'
  BY <1>0, <1>5, HealedCovers, LoadKeeps, Zenon DEF HealMerge
<1>6. ASSUME NEW p \in Publishers, BumpGeneration(p) PROVE KeepInv'
  BY <1>0, <1>6, BumpedCovers, LoadKeeps, Zenon DEF BumpGeneration
<1>7. ASSUME (\E m \in Updates : Send(m)) \/ (\E item \in Items : Register(item)) \/ UNCHANGED planeVars
      PROVE  UNCHANGED <<snap, pub, settled>>
  BY <1>7, Zenon DEF Send, Register, planeVars, plane
<1> QED
  BY <1>1, <1>2, <1>3, <1>4, <1>5, <1>6, <1>7, StoreKeeps, PublishKeeps, Zenon DEF PlaneNext

(* No number of overlapping publishers, late or repeated gossip and heals  *)
(* loses what was published while nobody else was publishing.              *)
THEOREM SettledStays == PlaneSpec => []Durable
<1>1. KeepInv => Durable
  BY Zenon DEF KeepInv
<1> QED
  BY <1>1, KeepStart, KeepStep, PTL DEF PlaneSpec

-----------------------------------------------------------------------------
(* Healing *)

(* Entries that fit are all taken. *)
LEMMA InsertedFits ==
  ASSUME NEW w, NEW new, IsFiniteSet(w), IsFiniteSet(new), Cardinality(w \union new) <= Limit
  PROVE  Inserted(w, new) = {w \union new}
<1> DEFINE fresh == new \ w
<1>1. IsFiniteSet(fresh)
  BY FS_Difference, Zenon
<1>2. w \union new = w \union fresh /\ w \intersect fresh = {}
  BY Zenon
<1>3. Cardinality(w \union fresh) = Cardinality(w) + Cardinality(fresh) - Cardinality(w \intersect fresh)
  BY <1>1, FS_Union, Zenon
<1>4. Cardinality({}) = 0 /\ Cardinality(w) \in Nat /\ Cardinality(fresh) \in Nat
  BY <1>1, FS_EmptySet, FS_CardinalityType, Zenon
<1>5. Limit \in Int
  BY DomainAssumption DEF Limit
<1> DEFINE room == IF Cardinality(w) < Limit THEN Limit - Cardinality(w) ELSE 0
<1> HIDE DEF fresh
<1>6. Cardinality(w) + Cardinality(fresh) <= Limit
  <2>1. Cardinality(w) + Cardinality(fresh) - Cardinality({}) <= Limit
    BY <1>2, <1>3, Zenon
  <2> QED
    BY <1>4, <2>1
<1>7. Cardinality(fresh) <= room
  BY <1>4, <1>5, <1>6
<1> HIDE DEF room
<1>8. Inserted(w, new) = IF Cardinality(fresh) <= room THEN {w \union fresh}
                         ELSE {w \union s : s \in {t \in SUBSET fresh : Cardinality(t) = room}}
  BY Zenon DEF Inserted, fresh, room
<1> QED
  BY <1>2, <1>7, <1>8, Zenon

(* Nothing new changes nothing, full or not. *)
LEMMA InsertedNothing ==
  ASSUME NEW w, NEW new, IsFiniteSet(w), new \subseteq w
  PROVE  Inserted(w, new) = {w}
<1> DEFINE room == IF Cardinality(w) < Limit THEN Limit - Cardinality(w) ELSE 0
<1>1. new \ w = {} /\ w \union {} = w
  BY Zenon
<1>2. Cardinality({}) = 0 /\ Cardinality(w) \in Nat
  BY FS_EmptySet, FS_CardinalityType, Zenon
<1>3. Limit \in Int
  BY DomainAssumption DEF Limit
<1>4. Cardinality({}) <= room
  BY <1>2, <1>3
<1> HIDE DEF room
<1>5. Inserted(w, new) = IF Cardinality(new \ w) <= room THEN {w \union (new \ w)}
                         ELSE {w \union s : s \in {t \in SUBSET (new \ w) : Cardinality(t) = room}}
  BY Zenon DEF Inserted, room
<1> QED
  BY <1>1, <1>4, <1>5, Zenon

(* The row that two rows merge to. *)
Joined(a, b) ==
  [warmth |-> a.warmth \union b.warmth, occ |-> MaxOf(a.occ, b.occ), kv |-> MaxOf(a.kv, b.kv)]

LEMMA JoinedRow ==
  ASSUME NEW a, NEW b, IsRow(a), IsRow(b)
  PROVE  /\ IsRow(Joined(a, b)) /\ Joined(a, b) = Joined(b, a)
         /\ Joined(a, b).warmth = a.warmth \union b.warmth
         /\ Joined(Joined(a, b), b) = Joined(a, b)
<1>1. IsFiniteSet(a.warmth \union b.warmth)
  BY FS_Union, Zenon DEF IsRow
<1>2. /\ MaxOf(a.occ, b.occ) \in Nat /\ MaxOf(a.kv, b.kv) \in Nat
      /\ MaxOf(a.occ, b.occ) = MaxOf(b.occ, a.occ) /\ MaxOf(a.kv, b.kv) = MaxOf(b.kv, a.kv)
      /\ MaxOf(MaxOf(a.occ, b.occ), b.occ) = MaxOf(a.occ, b.occ)
      /\ MaxOf(MaxOf(a.kv, b.kv), b.kv) = MaxOf(a.kv, b.kv)
  BY DEF IsRow, MaxOf
<1>3. /\ IsRow(Joined(a, b)) /\ Joined(a, b).warmth = a.warmth \union b.warmth
      /\ Joined(a, b).occ = MaxOf(a.occ, b.occ) /\ Joined(a, b).kv = MaxOf(a.kv, b.kv)
  BY <1>1, <1>2, RowFields, Zenon DEF Joined
<1>4. a.warmth \union b.warmth = b.warmth \union a.warmth
      /\ (a.warmth \union b.warmth) \union b.warmth = a.warmth \union b.warmth
  BY Zenon
<1>5. Joined(a, b) = Joined(b, a)
  BY <1>2, <1>4, Zenon DEF Joined
<1>6. Joined(Joined(a, b), b) = [warmth |-> Joined(a, b).warmth \union b.warmth,
                                occ |-> MaxOf(Joined(a, b).occ, b.occ), kv |-> MaxOf(Joined(a, b).kv, b.kv)]
  BY Zenon DEF Joined
<1>7. Joined(Joined(a, b), b) = Joined(a, b)
  <2>1. Joined(Joined(a, b), b) = [warmth |-> a.warmth \union b.warmth,
                                  occ |-> MaxOf(a.occ, b.occ), kv |-> MaxOf(a.kv, b.kv)]
    BY <1>2, <1>3, <1>4, <1>6, Zenon
  <2> QED
    BY <2>1, Zenon DEF Joined
<1> QED
  BY <1>3, <1>5, <1>7, Zenon

LEMMA MergeJoins ==
  ASSUME NEW a, NEW b, IsRow(a), IsRow(b),
         b.warmth \subseteq a.warmth \/ Cardinality(a.warmth \union b.warmth) <= Limit
  PROVE  merge(a, b) = {Joined(a, b)}
<1>1. Inserted(a.warmth, b.warmth) = {a.warmth \union b.warmth}
  <2>1. CASE b.warmth \subseteq a.warmth
    <3>1. a.warmth \union b.warmth = a.warmth
      BY <2>1, Zenon
    <3> QED
      BY <2>1, <3>1, InsertedNothing, Zenon DEF IsRow
  <2>2. CASE Cardinality(a.warmth \union b.warmth) <= Limit
    BY <2>2, InsertedFits, Zenon DEF IsRow
  <2> QED
    BY <2>1, <2>2, Zenon
<1> QED
  BY <1>1, Zenon DEF merge, Joined

(* When every row merges one way, so do the snapshots. *)
OneWay(s, r, J) ==
  /\ DOMAIN J = DOMAIN s.at \union DOMAIN r.at /\ J = [x \in DOMAIN J |-> J[x]]
  /\ \A x \in DOMAIN J : merge_pool(s.at, r.at, x) = {J[x]}

LEMMA HealedOneWay ==
  ASSUME NEW s, NEW r, NEW J, OneWay(s, r, J)
  PROVE  Healed(s, r) = {Snapshot(MaxOf(s.gen, r.gen), J)}
<1> USE DEF OneWay
<1> DEFINE all == DOMAIN s.at \union DOMAIN r.at
           rows == UNION {merge_pool(s.at, r.at, x) : x \in all}
           fs == {g \in [all -> rows] : \A x \in all : g[x] \in merge_pool(s.at, r.at, x)}
<1>1. \A x \in all : J[x] \in rows
  <2> SUFFICES ASSUME NEW x \in all PROVE J[x] \in rows
    BY Zenon
  <2>1. J[x] \in merge_pool(s.at, r.at, x)
    BY ZenonT(60)
  <2> QED
    BY <2>1, Zenon
<1>2. J \in fs
  BY <1>1
<1>3. ASSUME NEW g \in fs PROVE g = J
  <2>1. \A x \in all : g[x] = J[x]
    BY Zenon
  <2> QED
    BY <2>1, Zenon
<1>4. fs = {J}
  <2> HIDE DEF fs
  <2> QED
    BY <1>2, <1>3, Zenon
<1>5. Healed(s, r) = {Snapshot(MaxOf(s.gen, r.gen), f) : f \in fs}
  BY Zenon DEF Healed
<1> HIDE DEF fs
<1> QED
  BY <1>4, <1>5, Zenon

(* Two snapshots whose warmth fits heal to the same one, which a heal with *)
(* either leaves as it is.                                                 *)
LEMMA HealedAgree ==
  ASSUME NEW s, NEW r, IsSnap(s), IsSnap(r),
         \A x \in DOMAIN r.at \intersect DOMAIN s.at :
           Cardinality(r.at[x].warmth \union s.at[x].warmth) <= Limit
  PROVE  Healed(s, r) = Healed(r, s) /\ \A t \in Healed(s, r) : Healed(t, r) = {t}
<1> DEFINE row(x) == IF x \notin DOMAIN r.at THEN s.at[x]
                     ELSE IF x \notin DOMAIN s.at THEN r.at[x] ELSE Joined(s.at[x], r.at[x])
           J == [x \in DOMAIN s.at \union DOMAIN r.at |-> row(x)]
           g == MaxOf(s.gen, r.gen)
<1>1. DOMAIN J = DOMAIN s.at \union DOMAIN r.at /\ J = [x \in DOMAIN J |-> J[x]]
  BY Zenon
<1>2. /\ \A x \in DOMAIN J \ DOMAIN r.at : J[x] = s.at[x] /\ x \in DOMAIN s.at
      /\ \A x \in DOMAIN J \ DOMAIN s.at : J[x] = r.at[x] /\ x \in DOMAIN r.at
      /\ \A x \in DOMAIN r.at \intersect DOMAIN s.at : J[x] = Joined(s.at[x], r.at[x])
  BY Zenon
<1> HIDE DEF J
<1>3. /\ \A x \in DOMAIN s.at : IsRow(s.at[x])
      /\ \A x \in DOMAIN r.at : IsRow(r.at[x])
  BY Zenon DEF IsSnap
<1>4. ASSUME NEW x \in DOMAIN r.at \intersect DOMAIN s.at
      PROVE  /\ merge(s.at[x], r.at[x]) = {J[x]} /\ merge(r.at[x], s.at[x]) = {J[x]}
             /\ merge(J[x], r.at[x]) = {J[x]}
  <2> DEFINE a == s.at[x]
             b == r.at[x]
  <2>1. IsRow(a) /\ IsRow(b) /\ J[x] = Joined(a, b)
    BY <1>2, <1>3, Zenon
  <2>2. a.warmth \union b.warmth = b.warmth \union a.warmth
    BY Zenon
  <2>3. Cardinality(b.warmth \union a.warmth) <= Limit
    BY Zenon
  <2>4. Cardinality(a.warmth \union b.warmth) <= Limit
    BY <2>2, <2>3, Zenon
  <2> HIDE DEF a, b
  <2>5. merge(a, b) = {J[x]}
    BY <2>1, <2>4, MergeJoins, Zenon
  <2>6. merge(b, a) = {J[x]}
    <3>1. merge(b, a) = {Joined(b, a)}
      BY <2>1, <2>3, MergeJoins, Zenon
    <3>2. Joined(b, a) = Joined(a, b)
      BY <2>1, JoinedRow, Zenon
    <3> QED
      BY <2>1, <3>1, <3>2, Zenon
  <2>7. IsRow(J[x]) /\ b.warmth \subseteq J[x].warmth /\ Joined(J[x], b) = J[x]
    <3>1. IsRow(J[x]) /\ J[x].warmth = a.warmth \union b.warmth /\ Joined(J[x], b) = J[x]
      <4>1. /\ IsRow(Joined(a, b)) /\ Joined(a, b).warmth = a.warmth \union b.warmth
            /\ Joined(Joined(a, b), b) = Joined(a, b)
        BY <2>1, JoinedRow, Zenon
      <4> QED
        BY <2>1, <4>1, Zenon
    <3> QED
      BY <3>1, Zenon
  <2>8. merge(J[x], b) = {J[x]}
    BY <2>1, <2>7, MergeJoins, Zenon
  <2> QED
    BY <2>5, <2>6, <2>8, Zenon DEF a, b
<1>5. ASSUME NEW x \in DOMAIN r.at, x \notin DOMAIN s.at PROVE merge(J[x], r.at[x]) = {J[x]}
  <2>1. J[x] = r.at[x] /\ IsRow(r.at[x])
    BY <1>1, <1>2, <1>3, <1>5, Zenon
  <2>2. merge(r.at[x], r.at[x]) = {Joined(r.at[x], r.at[x])}
    BY <2>1, MergeJoins, Zenon
  <2>3. Joined(r.at[x], r.at[x]) = r.at[x]
    BY <2>1, Zenon DEF IsRow, Joined, MaxOf
  <2> QED
    BY <2>1, <2>2, <2>3, Zenon
<1>6. Healed(s, r) = {Snapshot(g, J)}
  <2>1. \A x \in DOMAIN J : merge_pool(s.at, r.at, x) = {J[x]}
    BY <1>1, <1>2, <1>4, Zenon DEF merge_pool
  <2>2. OneWay(s, r, J)
    BY <1>1, <2>1, Zenon DEF OneWay
  <2> QED
    BY <2>2, HealedOneWay, ZenonT(60)
<1>7. Healed(r, s) = {Snapshot(g, J)}
  <2>1. \A x \in DOMAIN J : merge_pool(r.at, s.at, x) = {J[x]}
    BY <1>1, <1>2, <1>4, Zenon DEF merge_pool
  <2>2. DOMAIN J = DOMAIN r.at \union DOMAIN s.at
    BY <1>1, Zenon
  <2>3. MaxOf(r.gen, s.gen) = g
    BY DEF MaxOf, IsSnap
  <2>4. Healed(r, s) = {Snapshot(MaxOf(r.gen, s.gen), J)}
    <3>1. OneWay(r, s, J)
      BY <1>1, <2>1, <2>2, Zenon DEF OneWay
    <3> QED
      BY <3>1, HealedOneWay, ZenonT(60)
  <2> QED
    BY <2>3, <2>4, Zenon
<1>8. Healed(Snapshot(g, J), r) = {Snapshot(g, J)}
  <2> DEFINE t == Snapshot(g, J)
  <2>1. t.at = J /\ t.gen = g
    BY SnapshotFields
  <2>2. \A x \in DOMAIN J : merge_pool(J, r.at, x) = {J[x]}
    <3> SUFFICES ASSUME NEW x \in DOMAIN J PROVE merge_pool(J, r.at, x) = {J[x]}
      BY Zenon
    <3>1. x \in DOMAIN r.at => merge(J[x], r.at[x]) = {J[x]}
      <4>1. CASE x \in DOMAIN r.at /\ x \in DOMAIN s.at
        BY <1>4, <4>1, Zenon
      <4>2. CASE x \in DOMAIN r.at /\ x \notin DOMAIN s.at
        BY <1>5, <4>2, Zenon
      <4> QED
        BY <4>1, <4>2, Zenon
    <3> QED
      BY <3>1, Zenon DEF merge_pool
  <2>3. DOMAIN J = DOMAIN t.at \union DOMAIN r.at
    BY <1>1, <2>1, Zenon
  <2>4. MaxOf(t.gen, r.gen) = g
    BY <2>1, Zenon DEF MaxOf, IsSnap
  <2> HIDE DEF t
  <2>5. Healed(t, r) = {Snapshot(MaxOf(t.gen, r.gen), J)}
    <3>1. OneWay(t, r, J)
      BY <1>1, <2>1, <2>2, <2>3, Zenon DEF OneWay
    <3> QED
      BY <3>1, HealedOneWay, ZenonT(60)
  <2>6. Healed(t, r) = {Snapshot(g, J)}
    BY <2>4, <2>5, Zenon
  <2> QED
    BY <2>6, Zenon DEF t
<1> HIDE DEF g
<1> QED
  BY <1>6, <1>7, <1>8, Zenon

(* Whatever was published and healed before, routers whose warmth fits     *)
(* agree after healing from each other, and healing again is no change.    *)
THEOREM RoutersConverge == PlaneSpec => []HealConverges
<1>1. KeepInv => HealConverges
  <2> SUFFICES ASSUME KeepInv, NEW r \in Remotes,
                      \A x \in DOMAIN r.at \intersect DOMAIN snap.at :
                        Cardinality(r.at[x].warmth \union snap.at[x].warmth) <= Limit
               PROVE  Healed(snap, r) = Healed(r, snap) /\ \A s \in Healed(snap, r) : Healed(s, r) = {s}
    BY Zenon DEF HealConverges
  <2>1. IsSnap(snap) /\ IsSnap(r)
    BY RemoteSnap, Zenon DEF KeepInv
  <2> QED
    BY <2>1, HealedAgree, ZenonT(60)
<1> QED
  BY <1>1, KeepStart, KeepStep, PTL DEF PlaneSpec

-----------------------------------------------------------------------------
(* Tenants *)

(* Whoever made an entry in a group's name was authorised then; everybody  *)
(* else's entries carry a private key of their own.                        *)
MadeInv ==
  \A m \in made :
    /\ m.entry[2].shared <=> m.allowed
    /\ ~m.allowed => m.entry[2].owner = m.tenant

LEMMA KeyOf ==
  ASSUME NEW id
  PROVE  /\ resolve_domain_key(id).shared <=> Authorized(id)
         /\ ~Authorized(id) => resolve_domain_key(id).owner = id.tenant
<1> DEFINE key == resolve_domain_key(id)
<1>1. ASSUME NEW o, NEW d, NEW i, key = [owner |-> o, domain |-> d, shared |-> i]
      PROVE  key.shared = i /\ key.owner = o
  BY <1>1
<1>2. CASE Authorized(id)
  <2>1. key = [owner |-> id.group, domain |-> groups[id.group].domain, shared |-> TRUE]
    BY <1>2, Zenon DEF resolve_domain_key
  <2> HIDE DEF key
  <2>2. key.shared = TRUE
    BY <1>1, <2>1, Zenon
  <2> QED
    BY <1>2, <2>2, Zenon DEF key
<1>3. CASE ~Authorized(id)
  <2>1. key = [owner |-> id.tenant, domain |-> 0, shared |-> FALSE]
    BY <1>3, Zenon DEF resolve_domain_key, private_domain_key
  <2> HIDE DEF key
  <2>2. key.shared = FALSE /\ key.owner = id.tenant
    BY <1>1, <2>1, Zenon
  <2> QED
    BY <1>3, <2>2, Zenon DEF key
<1> QED
  BY <1>2, <1>3, Zenon

LEMMA MadeStep == MadeInv /\ [PlaneNext]_planeVars => MadeInv'
<1> SUFFICES ASSUME MadeInv, [PlaneNext]_planeVars PROVE MadeInv'
  BY Zenon
<1>1. ASSUME UNCHANGED made PROVE MadeInv'
  BY <1>1, Zenon DEF MadeInv
<1>2. ASSUME NEW p \in Publishers, NEW x \in Seats, NEW id \in Identities, NEW b \in Blocks,
             RecordSalted(p, x, id, b)
      PROVE  MadeInv'
  <2> DEFINE key == resolve_domain_key(id)
             e == [entry |-> salt_block(b, key), tenant |-> id.tenant, allowed |-> Authorized(id)]
  <2>1. ASSUME NEW k, NEW n, NEW a
        PROVE  LET m == [entry |-> <<b, k>>, tenant |-> n, allowed |-> a]
               IN  m.entry[2] = k /\ m.tenant = n /\ m.allowed = a
    BY Zenon
  <2>2. e.entry[2] = key /\ e.tenant = id.tenant /\ (e.allowed <=> Authorized(id))
    BY <2>1, Zenon DEF salt_block
  <2>3. made' = made \union {e}
    BY <1>2, Zenon DEF RecordSalted
  <2>4. (key.shared <=> Authorized(id)) /\ (~Authorized(id) => key.owner = id.tenant)
    BY KeyOf, Zenon
  <2> HIDE DEF key, e
  <2> QED
    BY <2>2, <2>3, <2>4, Zenon DEF MadeInv
<1> QED
  BY <1>1, <1>2, Zenon DEF PlaneNext, RecordWarmth, ApplyGossip, HealMerge, BumpGeneration, Store, PublishSnapshot,
     Send, Register, planeVars, plane

(* However often groups are replaced, a tenant sees another's warmth only  *)
(* if both were authorised, each at its time.                              *)
THEOREM TenantsApart == PlaneSpec => []Isolated
<1>1. PlaneInit => MadeInv
  BY Zenon DEF PlaneInit, MadeInv
<1>2. MadeInv => Isolated
  <2> SUFFICES ASSUME MadeInv, NEW id \in Identities, NEW m \in made, NEW x \in DOMAIN snap.at,
                      gated_hit_strength(snap.at[x].warmth \intersect {m.entry}, id, Blocks) > 0
               PROVE  m.tenant = id.tenant \/ (m.allowed /\ Authorized(id))
    BY Zenon DEF Isolated
  <2>a. m.entry[2] = resolve_domain_key(id)
    <3> DEFINE key == resolve_domain_key(id)
               hits == {b \in Blocks : <<b, key>> \in snap.at[x].warmth \intersect {m.entry}}
    <3>1. Cardinality(hits) > 0
      BY Zenon DEF gated_hit_strength, hit_strength_salted, salt_block
    <3>2. hits # {}
      <4> HIDE DEF hits
      <4> QED
        BY <3>1, FS_EmptySet, SMTT(30)
    <3>3. PICK b \in Blocks : <<b, key>> = m.entry
      BY <3>2, Zenon
    <3> HIDE DEF key
    <3> QED
      BY <3>3 DEF key
  <2>1. (m.entry[2].shared <=> m.allowed) /\ (~m.allowed => m.entry[2].owner = m.tenant)
    BY Zenon DEF MadeInv
  <2> QED
    BY <2>1, <2>a, KeyOf, Zenon
<1> QED
  BY <1>1, <1>2, MadeStep, PTL DEF PlaneSpec
=============================================================================
