------------------------------- MODULE XdpLink -------------------------------
(***************************************************************************)
(* The lifecycle of the router's kernel admission program on a network     *)
(* interface (demiurge-dataplane, xdp_linux.rs): attaching it through      *)
(* netlink with a fall-back mode, pinning, the liveness query behind the   *)
(* hybrid admission mode, and the detach when the handle is dropped.  The  *)
(* interface belongs to the kernel: an administrator may remove or replace *)
(* the program, or the interface, at any time.  A program attached through *)
(* netlink outlives the process that attached it.                          *)
(***************************************************************************)
EXTENDS Naturals, Sequences

CONSTANT MaxLives  \* bound: processes started one after the other

ASSUME LinkAssumption == MaxLives \in Nat \ {0}

VARIABLES
  nic,      \* what the host allows: see Nics
  ifindex,  \* the index the interface has now; 0 when it is gone
  slots,    \* the program in each of the interface's XDP modes; 0 for none
  shed,     \* the handle in kernel_admit; NoShed for None
  life,     \* processes started so far; also the id of the running one's program
  orphan    \* a process went away and left its program on the interface

link == <<nic, ifindex, slots, shed, life, orphan>>
kernel == <<nic, ifindex, slots>>

(* native: the driver has an XDP hook.  refuses: it rejects this program.   *)
(* forced: DEMIURGE_XDP_FLAGS is skb.  ids: program ids can be read back.  *)
Nics == [native : BOOLEAN, refuses : BOOLEAN, forced : BOOLEAN, ids : BOOLEAN]

Modes == {"drv", "skb"}
Other == MaxLives + 1                       \* id of somebody else's program
Progs == 0..Other
Ours == {p \in 1..MaxLives : p <= life}
NoShed == [mode |-> "none", index |-> 0, prog |-> 0]
Shed == [mode : {"driver", "skb", "skb-fallback", "none"}, index : 0..2, prog : 0..MaxLives]

LinkTypeOK ==
  /\ nic \in Nics /\ ifindex \in 0..2 /\ slots \in [Modes -> Progs]
  /\ shed \in Shed /\ life \in 0..MaxLives
  /\ orphan \in BOOLEAN

LinkInit ==
  /\ nic \in Nics /\ ifindex = 1 /\ slots = [m \in Modes |-> 0]
  /\ shed = NoShed /\ life = 0 /\ orphan = FALSE

----------------------------------------------------------------------------
(* Netlink.  A request without a mode flag goes to the driver's hook when  *)
(* the driver has one and to the generic hook otherwise; the kernel keeps  *)
(* one mode in use at a time.                                              *)

XDP_FLAGS(flag) == IF flag # "" THEN flag ELSE IF nic.native THEN "drv" ELSE "skb"
OtherMode(m) == IF m = "drv" THEN "skb" ELSE "drv"

CanSet(index, m, prog) ==
  /\ index = ifindex /\ index # 0
  /\ m = "drv" => nic.native
  /\ prog # 0 => slots[OtherMode(m)] = 0

netlink_xdp_set(index, m, prog, s) == IF CanSet(index, m, prog) THEN [s EXCEPT ![m] = prog] ELSE s

(* query_iface_xdp_prog_id and the attribute parsers: the first id that is *)
(* not zero, the driver's before the generic one's; 0 stands for None.     *)
query_iface_xdp_prog_id(index) ==
  IF index # ifindex \/ index = 0 THEN 0
  ELSE IF slots["drv"] # 0 THEN slots["drv"] ELSE slots["skb"]

(* Mutant: a replaced program is taken for ours. *)
AnyProgramAlive(s) == ifindex # 0 /\ query_iface_xdp_prog_id(s.index) # 0

link_alive(s) ==
  /\ ifindex # 0
  /\ LET id == query_iface_xdp_prog_id(s.index) IN
       IF s.prog = 0 THEN id # 0 ELSE id = s.prog

xdp_detach_flags(mode) == IF mode \in {"skb", "skb-fallback"} THEN "skb" ELSE "drv"

(* Mutant: the drop clears only the mode the handle is labelled with. *)
DropOneMode(s) == netlink_xdp_set(s.index, xdp_detach_flags(s.mode), 0, slots)

(* Drop for XdpAdmitShed: the mode of the label first, then the other. *)
Dropped(s) ==
  LET m == xdp_detach_flags(s.mode) IN
    netlink_xdp_set(s.index, OtherMode(m), 0, netlink_xdp_set(s.index, m, 0, slots))

----------------------------------------------------------------------------
AttachMode ==
  IF nic.forced THEN IF CanSet(ifindex, "skb", life + 1) THEN "skb" ELSE "none"
  ELSE IF ~nic.refuses /\ CanSet(ifindex, XDP_FLAGS(""), life + 1) THEN "driver"
  ELSE IF CanSet(ifindex, "skb", life + 1) THEN "skb-fallback" ELSE "none"

SlotOf(mode) == IF mode = "driver" THEN XDP_FLAGS("") ELSE "skb"

(* The handle is built only after the pins: a pin that fails returns with  *)
(* the program attached and nothing that will drop it.                     *)
attach_at(pinned) ==
  /\ life < MaxLives /\ AttachMode # "none"
  /\ life' = life + 1
  /\ slots' = [slots EXCEPT ![SlotOf(AttachMode)] = life + 1]
  /\ shed' = IF pinned
               THEN [mode |-> AttachMode, index |-> ifindex, prog |-> IF nic.ids THEN life + 1 ELSE 0]
               ELSE NoShed
  /\ orphan' = ~pinned
  /\ UNCHANGED <<nic, ifindex>>

(* Nothing reaches the interface: the object is missing, the load fails or *)
(* both attach attempts do.                                                *)
AttachFails == life < MaxLives /\ life' = life + 1 /\ UNCHANGED <<kernel, shed, orphan>>

(* The handle is dropped: on a dead link, or when the process ends.        *)
DropShed ==
  /\ slots' = Dropped(shed)
  /\ shed' = NoShed
  /\ UNCHANGED <<nic, ifindex, life, orphan>>

(* exit(1) and a killed process run no destructor. *)
AbandonShed ==
  /\ orphan' = (orphan \/ \E m \in Modes : slots[m] \in Ours)
  /\ shed' = NoShed
  /\ UNCHANGED <<kernel, life>>

----------------------------------------------------------------------------
(* What others do to the interface (external). *)

AdminDetach(m) ==
  /\ slots[m] # 0 /\ slots' = [slots EXCEPT ![m] = 0]
  /\ UNCHANGED <<nic, ifindex, shed, life, orphan>>

AdminReplace(m) ==
  /\ slots[m] \in Ours /\ slots' = [slots EXCEPT ![m] = Other]
  /\ UNCHANGED <<nic, ifindex, shed, life, orphan>>

(* The interface disappears with its programs, and may come back under     *)
(* another index.                                                          *)
IfaceGone ==
  /\ ifindex # 0 /\ ifindex' = 0 /\ slots' = [m \in Modes |-> 0]
  /\ UNCHANGED <<nic, shed, life, orphan>>

IfaceBack ==
  /\ ifindex = 0 /\ ifindex' = 2
  /\ UNCHANGED <<nic, slots, shed, life, orphan>>

External == (\E m \in Modes : AdminDetach(m) \/ AdminReplace(m)) \/ IfaceGone \/ IfaceBack

----------------------------------------------------------------------------
(* A program of the router sheds on the interface only while a handle      *)
(* stands for it, or after a process left it behind: a drop takes it down  *)
(* whatever mode the kernel put it in, also for a handle whose label is    *)
(* not the mode in use (a driver without a native hook).                   *)
NoStrayProgram == (\E m \in Modes : slots[m] \in Ours) => shed # NoShed \/ orphan
=============================================================================
