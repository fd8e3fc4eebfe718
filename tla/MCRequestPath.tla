--------------------------- MODULE MCRequestPath -----------------------------
(***************************************************************************)
(* Small instances of the parts of the request path: the state plane and   *)
(* its cache domains, the selection of backends, and the bytes of a        *)
(* connection.  They share no variable, so a behaviour looks at one of     *)
(* them, its focus.                                                        *)
(***************************************************************************)
EXTENDS StatePlane, Selection, ProxyStream

CONSTANTS f1, f2, seatA, seatB

VARIABLE focus

vars == <<focus, planeVars, selectionVars, proxyVars>>

(* State plane *)
Item(ms, f) == [bad |-> FALSE, group |-> 1, members |-> ms, template |-> f, domain |-> 0]
MCItems == {Item({1}, f1), Item({1, 2}, f1)}
MCSpecs == {<<>>, <<[Item({1}, f1) EXCEPT !.bad = TRUE]>>, <<Item({2}, f2), Item({1, 2}, f1)>>}
MCRemotes == {Snapshot(2, [s \in {seatA, seatB} |-> [warmth |-> {<<1, Raw>>}, occ |-> 1, kv |-> 1]])}
MCUpdates == {[seat |-> seatA, blocks |-> {0}, occ |-> 11, kv |-> 1, epoch |-> 1]}

(* With the cache authority on: one publisher, two entries, no gossip. *)
PlaneBound == groups = NoGroups \/ (Cardinality(made) <= 2 /\ network = {} /\ pub["p2"].idle)

MCLnTable == <<0, 7, 11, 14, 16, 18, 19, 21, 22, 23>>

(* Selection: two backends in each pool, "x" in both. *)
MCPrefill == <<"x", "y">>
MCDecode == <<"x", "z">>
MCTopology == [x |-> [node |-> "n1", rack |-> "r1", cluster |-> "c1"],
               y |-> [node |-> "n2", rack |-> "r1", cluster |-> "c1"],
               z |-> [node |-> "n3", rack |-> "r2", cluster |-> "c2"]]
MCSetup(pf, dc, warm, pi, reserved, rdma, colocatedDecode) ==
  [claim |-> [s \in Backends |-> IF s.pool = "pf" THEN pf[IF s.label = "x" THEN 1 ELSE 2]
                                                  ELSE dc[IF s.label = "x" THEN 1 ELSE 2]],
   warm |-> [s \in Backends |-> warm[IF s.label = "x" THEN 1 ELSE 2]],
   snapshot |-> TRUE, pi |-> pi, reserved |-> reserved, rdma |-> rdma, kvUnits |-> 2500000,
   colocatedDecode |-> colocatedDecode, topology |-> MCTopology]
MCUsable == MCSetup(<<2, 1>>, <<1, 2>>, <<2, 0>>, 8, 3, FALSE, FALSE)
MCSetups == {MCSetup(<<0, 2>>, <<0, 1>>, <<2, 0>>, 2, 5, TRUE, FALSE),
             MCSetup(<<1, 0>>, <<2, 1>>, <<1, Absent>>, 8, 0, FALSE, TRUE),
             MCUsable}

(* The pairing monitor runs where all claims are usable. *)
SelectionBound == setup = MCUsable \/ mon = NoSample

(* Streams: a short request with a body; a token count that does not fit,  *)
(* with one in its path; an identity; a decode request longer than a head; *)
(* a body that spells a name of its head and one the head does not have.   *)
D(n) == <<"d", n>>
MCStreams ==
  {<<"tokens", D(1), "nl", "nl", "b1", "b2">>,
   <<"path", D(3), "nl", "tokens", D(2), D(9), "nl", "nl">>,
   <<"tenant", D(1), "nl", "group", D(1), "nl", "fp", D(2), "nl", "nl", "b1">>,
   <<"phase", "decode", "nl", "content", D(3), "nl", "nl", "b1", "b2", "b3">>,
   <<"tokens", D(1), "nl", "nl", "tokens", D(2), "nl", "phase", "decode">>}

MCInit ==
  /\ focus \in {"plane", "selection", "proxy"}
  /\ PlaneInit /\ (focus # "plane" => groups = NoGroups)
  /\ SelectionInit /\ (focus # "selection" => setup = CHOOSE s \in Setups : TRUE)
  /\ ProxyInit /\ (focus # "proxy" => ~uring /\ req = CHOOSE s \in Streams : TRUE)

MCNext ==
  \/ focus = "plane" /\ PlaneNext /\ PlaneBound' /\ UNCHANGED <<focus, selectionVars, proxyVars>>
  \/ focus = "selection" /\ SelectionNext /\ SelectionBound' /\ UNCHANGED <<focus, planeVars, proxyVars>>
  \/ focus = "proxy" /\ ProxyNext /\ UNCHANGED <<focus, planeVars, selectionVars>>

(* A handler in its head read reads on as long as there is something. *)
MCSpec == MCInit /\ [][MCNext]_vars /\ WF_vars(focus = "proxy" /\ ReadHead /\ UNCHANGED <<focus, planeVars, selectionVars>>)
=============================================================================
