--------------------------- MODULE NetworkProofs ---------------------------
(***************************************************************************)
(* Proofs about the network, for any number of nodes, objects, threads,    *)
(* slots and addresses, and any sizes of the buckets.                      *)
(*                                                                         *)
(* Connections: SlotsConserved counts the threads and nodes that have a    *)
(* slot, and rests on GrantInv: until two threads are in one grant, what   *)
(* the thread in it read there is still so.  That two threads are in one   *)
(* grant only if one of them found the node needs GrantInv and NodeInv.    *)
(* NotDeletedInUse rests on NodeInv, what nRefCount counts: one for vNodes *)
(* or the thread that opened the node, and one for each handler that has   *)
(* the node in its copy, exactly, for every node that no second thread     *)
(* came upon.                                                              *)
(*                                                                         *)
(* Relay: AnsweredOnce counts positions in sequences and entries of sets.  *)
(* OneStage says the same without counting, and is inductive as soon as    *)
(* nobody is connected with himself.                                       *)
(*                                                                         *)
(* AddrMan: Consistent is what Check_ looks at and what it does not: in    *)
(* which tried bucket an entry is, that it is there once, that mapAddr and *)
(* vRandom hold nothing else.  Add_ has an entry with a reference to spare *)
(* between two of its steps, which is Consistent's second parameter.  What *)
(* is shuffled turn by turn, vRandom and a tried bucket, is shown for      *)
(* every turn by TurnInduction, and the ids that a read of peers.dat gives *)
(* anew by RankBijective.                                                  *)
(***************************************************************************)
EXTENDS Connections, Relay, AddrMan, FiniteSetTheorems, TLAPS

\* An opening thread points at a node from ConnectNode on, and at one that was
\* there before if it is about to add a reference; the handlers hold a copy of
\* vNodes only while they work on it; a node that is in neither list is the one
\* that the socket handler is disconnecting.
PointersInv ==
    /\ \A o \in Openers :
          /\ opener[o].pc \in {"idle", "checked"} => opener[o].pnode = None
          /\ opener[o].pc \notin {"idle", "checked"} => opener[o].pnode \in CNodes
          /\ opener[o].pc = "found" => opener[o].pnode \in found
    /\ socketHandler.pc # "service" => socketHandler.copy = {}
    /\ messageHandler.pc # "process" => messageHandler.copy = {}
    /\ socketHandler.pc \in {"releasing", "released"} =>
          socketHandler.pnode \in CNodes /\ node[socketHandler.pnode].where = "removed"
    /\ \A c \in CNodes : node[c].where = "removed" =>
          socketHandler.pc \in {"releasing", "released"} /\ socketHandler.pnode = c

-----------------------------------------------------------------------------

\* What is in a CNode, but for the fields that the invariants do not look at.
Reads(n, where, nRefCount, fInbound, fNetworkNode, grantOutbound) ==
    /\ n \in CNode
    /\ n.where = where /\ n.nRefCount = nRefCount
    /\ n.fInbound = fInbound /\ n.fNetworkNode = fNetworkNode
    /\ n.grantOutbound = grantOutbound

\* What becomes of the node c, and nothing of the others.
Becomes(c, n) ==
    /\ node' \in [CNodes -> CNode]
    /\ node'[c] = n
    /\ \A x \in CNodes \ {c} : node'[x] = node[x]

LEMMA NodeBecomes ==
    ASSUME ConnectionsTypeOK, NEW c \in CNodes, NEW n \in CNode, node' = [node EXCEPT ![c] = n]
    PROVE  Becomes(c, n)
BY DEF ConnectionsTypeOK, Becomes

\* What the steps write into a CNode, field by field.
LEMMA FieldWrites ==
    ASSUME NEW n \in CNode
    PROVE  /\ Reads([n EXCEPT !.fDisconnect = TRUE],
                    n.where, n.nRefCount, n.fInbound, n.fNetworkNode, n.grantOutbound)
           /\ Reads([n EXCEPT !.released = TRUE],
                    n.where, n.nRefCount, n.fInbound, n.fNetworkNode, n.grantOutbound)
           /\ Reads([n EXCEPT !.fNetworkNode = TRUE],
                    n.where, n.nRefCount, n.fInbound, TRUE, n.grantOutbound)
           /\ \A have \in BOOLEAN :
                 Reads([n EXCEPT !.grantOutbound = have],
                       n.where, n.nRefCount, n.fInbound, n.fNetworkNode, have)
           /\ \A k \in Int :
                 Reads([n EXCEPT !.nRefCount = k],
                       n.where, k, n.fInbound, n.fNetworkNode, n.grantOutbound)
           /\ Reads([n EXCEPT !.where = "removed"],
                    "removed", n.nRefCount, n.fInbound, n.fNetworkNode, n.grantOutbound)
<1>1. /\ Reads([n EXCEPT !.fDisconnect = TRUE],
               n.where, n.nRefCount, n.fInbound, n.fNetworkNode, n.grantOutbound)
      /\ Reads([n EXCEPT !.released = TRUE],
               n.where, n.nRefCount, n.fInbound, n.fNetworkNode, n.grantOutbound)
  BY DEF CNode, Reads
<1>2. Reads([n EXCEPT !.fNetworkNode = TRUE],
            n.where, n.nRefCount, n.fInbound, TRUE, n.grantOutbound)
  BY DEF CNode, Reads
<1>3. ASSUME NEW have \in BOOLEAN
      PROVE  Reads([n EXCEPT !.grantOutbound = have],
                   n.where, n.nRefCount, n.fInbound, n.fNetworkNode, have)
  BY DEF CNode, Reads
<1>4. ASSUME NEW k \in Int
      PROVE  Reads([n EXCEPT !.nRefCount = k],
                   n.where, k, n.fInbound, n.fNetworkNode, n.grantOutbound)
  BY DEF CNode, Reads
<1>5. Reads([n EXCEPT !.where = "removed"],
            "removed", n.nRefCount, n.fInbound, n.fNetworkNode, n.grantOutbound)
  BY DEF CNode, Reads
<1> QED BY <1>1, <1>2, <1>3, <1>4, <1>5

LEMMA DisconnectedWrites ==
    ASSUME NEW n \in CNode
    PROVE  Reads(Disconnected(n), "vNodesDisconnected",
                 n.nRefCount - (IF n.fNetworkNode \/ n.fInbound THEN 1 ELSE 0),
                 n.fInbound, n.fNetworkNode, n.grantOutbound)
<1> DEFINE k == n.nRefCount - (IF n.fNetworkNode \/ n.fInbound THEN 1 ELSE 0)
           m1 == [n EXCEPT !.where = "vNodesDisconnected", !.fDisconnect = TRUE]
           m2 == [m1 EXCEPT !.nRefCount = k]
<1>1. k \in Int
  BY DEF CNode
<1>2. Disconnected(n) = m2
  BY DEF Disconnected, CNode
<1> HIDE DEF k
<1>3. Reads(m1, "vNodesDisconnected", n.nRefCount, n.fInbound, n.fNetworkNode, n.grantOutbound)
  BY DEF CNode, Reads
<1> HIDE DEF m1
<1>4. Reads(m2, "vNodesDisconnected", k, n.fInbound, n.fNetworkNode, n.grantOutbound)
  BY <1>1, <1>3 DEF CNode, Reads
<1> QED BY <1>2, <1>4 DEF k

LEMMA NewNodeWrites ==
    ASSUME ConnectionsTypeOK, NEW c \in CNodes, NEW a \in Addrs \cup {None},
           NEW fInbound \in BOOLEAN, NewNode(c, a, fInbound)
    PROVE  /\ node[c].where = "unused"
           /\ Becomes(c, node'[c])
           /\ Reads(node'[c], "vNodes", 1, fInbound, node[c].fNetworkNode, node[c].grantOutbound)
<1> DEFINE n == node[c]
           m1 == [n EXCEPT !.where = "vNodes", !.addr = a]
           m2 == [m1 EXCEPT !.fInbound = fInbound]
           m3 == [m2 EXCEPT !.nRefCount = 1]
<1>1. n \in CNode /\ n.where = "unused"
  BY DEF ConnectionsTypeOK, NewNode
<1>2. node' = [node EXCEPT ![c] = m3]
  BY DEF NewNode
<1> HIDE DEF n
<1>3. Reads(m1, "vNodes", n.nRefCount, n.fInbound, n.fNetworkNode, n.grantOutbound)
  BY <1>1 DEF CNode, Reads
<1> HIDE DEF m1
<1>4. Reads(m2, "vNodes", n.nRefCount, fInbound, n.fNetworkNode, n.grantOutbound)
  BY <1>3 DEF CNode, Reads
<1> HIDE DEF m2
<1>5. Reads(m3, "vNodes", 1, fInbound, n.fNetworkNode, n.grantOutbound)
  BY <1>4 DEF CNode, Reads
<1> HIDE DEF m3
<1>6. Becomes(c, m3)
  BY <1>2, <1>5, NodeBecomes DEF Reads
<1> QED BY <1>1, <1>5, <1>6 DEF Becomes, n

\* What AddRef and Release for all of a copy do.
CountsMove(S, k) ==
    /\ node' \in [CNodes -> CNode]
    /\ \A x \in CNodes \ S : node'[x] = node[x]
    /\ \A x \in S : Reads(node'[x], node[x].where, node[x].nRefCount + k, node[x].fInbound,
                          node[x].fNetworkNode, node[x].grantOutbound)

LEMMA CountsWrites ==
    ASSUME ConnectionsTypeOK, NEW S \in SUBSET CNodes
    PROVE  /\ node' = AddRefs(S) => CountsMove(S, 1)
           /\ node' = Releases(S) => CountsMove(S, -1)
<1>1. ASSUME NEW k \in Int, node' \in [CNodes -> CNode],
             \A x \in CNodes : node'[x] = IF x \in S THEN [node[x] EXCEPT !.nRefCount = @ + k]
                                          ELSE node[x]
      PROVE  CountsMove(S, k)
  <2>1. ASSUME NEW x \in S
        PROVE  Reads(node'[x], node[x].where, node[x].nRefCount + k, node[x].fInbound,
                     node[x].fNetworkNode, node[x].grantOutbound)
    <3>1. node[x] \in CNode /\ node[x].nRefCount + k \in Int
      BY DEF ConnectionsTypeOK, CNode
    <3>2. node'[x] = [node[x] EXCEPT !.nRefCount = node[x].nRefCount + k]
      BY <1>1, <3>1 DEF CNode
    <3> QED BY <3>1, <3>2, FieldWrites
  <2> QED BY <1>1, <2>1 DEF CountsMove
<1>2. ASSUME NEW x \in CNodes
      PROVE  /\ [node[x] EXCEPT !.nRefCount = @ + 1] \in CNode
             /\ [node[x] EXCEPT !.nRefCount = @ - 1] \in CNode
             /\ [node[x] EXCEPT !.nRefCount = @ - 1] = [node[x] EXCEPT !.nRefCount = @ + -1]
             /\ node[x] \in CNode
  BY DEF ConnectionsTypeOK, CNode
<1>3. AddRefs(S) \in [CNodes -> CNode] /\ Releases(S) \in [CNodes -> CNode]
  BY <1>2 DEF AddRefs, Releases
<1>4. ASSUME node' = AddRefs(S) PROVE CountsMove(S, 1)
  <2>1. \A x \in CNodes : node'[x] = IF x \in S THEN [node[x] EXCEPT !.nRefCount = @ + 1]
                                     ELSE node[x]
    BY <1>4 DEF AddRefs
  <2>2. node' \in [CNodes -> CNode]
    BY <1>3, <1>4
  <2> QED BY <1>1, <2>1, <2>2
<1>5. ASSUME node' = Releases(S) PROVE CountsMove(S, -1)
  <2>1. \A x \in CNodes : node'[x] = IF x \in S THEN [node[x] EXCEPT !.nRefCount = @ + -1]
                                     ELSE node[x]
    BY <1>2, <1>5 DEF Releases
  <2>2. node' \in [CNodes -> CNode]
    BY <1>3, <1>5
  <2> QED BY <1>1, <2>1, <2>2
<1> QED BY <1>4, <1>5
-----------------------------------------------------------------------------

\* What the steps of an opening thread make of its state.
OpenerGoes(o, pc, pnode) ==
    /\ opener' \in [Openers -> OpenerState]
    /\ \A p \in Openers \ {o} : opener'[p] = opener[p]
    /\ opener'[o].pc = pc /\ opener'[o].pnode = pnode

LEMMA OpenerWrites ==
    ASSUME ConnectionsTypeOK, NEW o \in Openers
    PROVE  /\ \A a \in Addrs : OpenNetworkConnection(o, a) =>
                 OpenerGoes(o, "checked", opener[o].pnode)
           /\ \A c \in CNodes : ConnectFinds(o, c) => OpenerGoes(o, "found", c)
           /\ ConnectAddsRef(o) => OpenerGoes(o, "connected", opener[o].pnode)
           /\ \A c \in CNodes : ConnectNode(o, c) => OpenerGoes(o, "connected", c)
           /\ ConnectFails(o) => OpenerGoes(o, "idle", None)
           /\ MoveToTests(o) => \E have \in HaveGrant(opener[o].pnode) :
                 OpenerGoes(o, IF have THEN "releasing" ELSE "released", opener[o].pnode)
           /\ MoveToReleases(o) => OpenerGoes(o, "released", opener[o].pnode)
           /\ MoveToGrants(o) => OpenerGoes(o, "moved", opener[o].pnode)
           /\ SetNetworkNode(o) => OpenerGoes(o, "idle", None)
<1>1. opener \in [Openers -> OpenerState] /\ opener[o] \in OpenerState
  BY DEF ConnectionsTypeOK
<1>2. ASSUME NEW s \in OpenerState, opener' = [opener EXCEPT ![o] = s]
      PROVE  OpenerGoes(o, s.pc, s.pnode)
  BY <1>1, <1>2 DEF OpenerGoes
<1>3. ASSUME NEW a \in Addrs, OpenNetworkConnection(o, a)
      PROVE  OpenerGoes(o, "checked", opener[o].pnode)
  <2> DEFINE r == [opener[o] EXCEPT !.pc = "checked"]
             s == [r EXCEPT !.addr = a]
  <2>1. opener' = [opener EXCEPT ![o] = s]
    BY <1>3 DEF OpenNetworkConnection
  <2>2. r \in OpenerState /\ r.pc = "checked" /\ r.pnode = opener[o].pnode
    BY <1>1 DEF OpenerState
  <2> HIDE DEF r
  <2>3. s \in OpenerState /\ s.pc = r.pc /\ s.pnode = r.pnode
    BY <2>2 DEF OpenerState
  <2> HIDE DEF s
  <2> QED BY <1>2, <2>1, <2>2, <2>3
<1>4. ASSUME NEW c \in CNodes, ConnectFinds(o, c)
      PROVE  OpenerGoes(o, "found", c)
  <2> DEFINE n == node[c].nRefCount
             r == [opener[o] EXCEPT !.pc = "found", !.pnode = c]
             s == [r EXCEPT !.seen = n]
  <2>1. n \in Int
    BY DEF ConnectionsTypeOK, CNode
  <2>2. opener' = [opener EXCEPT ![o] = s]
    BY <1>4 DEF ConnectFinds
  <2> HIDE DEF n
  <2>3. r \in OpenerState /\ r.pc = "found" /\ r.pnode = c
    BY <1>1 DEF OpenerState
  <2> HIDE DEF r
  <2>4. s \in OpenerState /\ s.pc = r.pc /\ s.pnode = r.pnode
    BY <2>1, <2>3 DEF OpenerState
  <2> HIDE DEF s
  <2> QED BY <1>2, <2>2, <2>3, <2>4
<1>5. ASSUME NEW c \in CNodes, ConnectNode(o, c)
      PROVE  OpenerGoes(o, "connected", c)
  <2> DEFINE s == [opener[o] EXCEPT !.pc = "connected", !.pnode = c]
  <2>1. s \in OpenerState /\ s.pc = "connected" /\ s.pnode = c
    BY <1>1 DEF OpenerState
  <2>2. opener' = [opener EXCEPT ![o] = s]
    BY <1>5 DEF ConnectNode
  <2> HIDE DEF s
  <2> QED BY <1>2, <2>1, <2>2
<1>6. ASSUME NEW pc \in {"connected", "releasing", "released", "moved"},
             opener' = [opener EXCEPT ![o].pc = pc]
      PROVE  OpenerGoes(o, pc, opener[o].pnode)
  <2> DEFINE s == [opener[o] EXCEPT !.pc = pc]
  <2>1. s \in OpenerState /\ s.pc = pc /\ s.pnode = opener[o].pnode
    BY <1>1 DEF OpenerState
  <2>2. opener' = [opener EXCEPT ![o] = s]
    BY <1>6
  <2> HIDE DEF s
  <2> QED BY <1>2, <2>1, <2>2
<1>7. ASSUME opener' = [opener EXCEPT ![o] = Idle]
      PROVE  OpenerGoes(o, "idle", None)
  <2>1. Idle \in OpenerState /\ Idle.pc = "idle" /\ Idle.pnode = None
    BY DEF Idle, OpenerState
  <2> QED BY <1>2, <1>7, <2>1
<1>8. ASSUME ConnectAddsRef(o)
      PROVE  OpenerGoes(o, "connected", opener[o].pnode)
  <2> DEFINE r == [opener[o] EXCEPT !.pc = "connected"]
             s == [r EXCEPT !.seen = 0]
  <2>1. opener' = [opener EXCEPT ![o] = s]
    BY <1>8 DEF ConnectAddsRef
  <2>2. r \in OpenerState /\ r.pc = "connected" /\ r.pnode = opener[o].pnode
    BY <1>1 DEF OpenerState
  <2> HIDE DEF r
  <2>3. s \in OpenerState /\ s.pc = r.pc /\ s.pnode = r.pnode
    BY <2>2 DEF OpenerState
  <2> HIDE DEF s
  <2> QED BY <1>2, <2>1, <2>2, <2>3
<1>9. ASSUME MoveToTests(o)
      PROVE  \E have \in HaveGrant(opener[o].pnode) :
                OpenerGoes(o, IF have THEN "releasing" ELSE "released", opener[o].pnode)
  <2>1. PICK have \in HaveGrant(opener[o].pnode) :
           opener' = [opener EXCEPT ![o].pc = NextInMoveTo(have)]
    BY <1>9 DEF MoveToTests
  <2>2. NextInMoveTo(have) = IF have THEN "releasing" ELSE "released"
    BY DEF NextInMoveTo
  <2> QED BY <1>6, <2>1, <2>2
<1>10. /\ MoveToReleases(o) => OpenerGoes(o, "released", opener[o].pnode)
       /\ MoveToGrants(o) => OpenerGoes(o, "moved", opener[o].pnode)
  BY <1>6 DEF MoveToReleases, MoveToGrants
<1>11. ConnectFails(o) \/ SetNetworkNode(o) => OpenerGoes(o, "idle", None)
  BY <1>7 DEF ConnectFails, SetNetworkNode
<1> QED BY <1>3, <1>4, <1>5, <1>8, <1>9, <1>10, <1>11

\* What a thread writes to the node it has a pointer to: nothing that counts if
\* the node was deleted.
LEMMA OpenerWritesNode ==
    ASSUME ConnectionsTypeOK, PointersInv, NEW o \in Openers
    PROVE  LET c == opener[o].pnode IN
           /\ (\/ ConnectAddsRef(o) \/ MoveToTests(o) \/ MoveToReleases(o) \/ MoveToGrants(o)
               \/ SetNetworkNode(o)) => c \in CNodes
           /\ ConnectAddsRef(o) =>
                 /\ Becomes(c, node'[c])
                 /\ Reads(node'[c], node[c].where, node'[c].nRefCount, node[c].fInbound,
                          node[c].fNetworkNode, node[c].grantOutbound)
           /\ MoveToReleases(o) \/ MoveToGrants(o) =>
                 /\ Becomes(c, node'[c])
                 /\ Reads(node'[c], node[c].where, node[c].nRefCount, node[c].fInbound,
                          node[c].fNetworkNode, node'[c].grantOutbound)
                 /\ MoveToReleases(o) /\ node[c].where # "deleted" =>
                       node'[c].grantOutbound = FALSE
                 /\ MoveToGrants(o) /\ node[c].where # "deleted" =>
                       node'[c].grantOutbound = TRUE
           /\ SetNetworkNode(o) =>
                 /\ Becomes(c, node'[c])
                 /\ Reads(node'[c], node[c].where, node[c].nRefCount, node[c].fInbound,
                          node'[c].fNetworkNode, node[c].grantOutbound)
<1> DEFINE c == opener[o].pnode
<1>1. (\/ ConnectAddsRef(o) \/ MoveToTests(o) \/ MoveToReleases(o) \/ MoveToGrants(o)
       \/ SetNetworkNode(o)) => c \in CNodes
  BY DEF ConnectAddsRef, MoveToTests, MoveToReleases, MoveToGrants, SetNetworkNode, PointersInv
<1>2. ASSUME c \in CNodes
      PROVE  /\ node[c] \in CNode
             /\ opener[o].seen + 1 \in Int
             /\ Reads(node[c], node[c].where, node[c].nRefCount, node[c].fInbound,
                      node[c].fNetworkNode, node[c].grantOutbound)
             /\ node' = node => Becomes(c, node[c])
  BY <1>2 DEF ConnectionsTypeOK, Reads, Becomes, OpenerState
<1>3. ASSUME NEW n \in CNode, c \in CNodes, Writes(o, n)
      PROVE  \/ Becomes(c, node'[c]) /\ node'[c] = n
             \/ Becomes(c, node'[c]) /\ node'[c] = node[c] /\ node[c].where = "deleted"
  BY <1>2, <1>3, NodeBecomes DEF Writes, Becomes
<1>4. ASSUME ConnectAddsRef(o)
      PROVE  /\ Becomes(c, node'[c])
             /\ Reads(node'[c], node[c].where, node'[c].nRefCount, node[c].fInbound,
                      node[c].fNetworkNode, node[c].grantOutbound)
  <2> DEFINE k == opener[o].seen + 1
             n == [node[c] EXCEPT !.nRefCount = k]
  <2>1. c \in CNodes
    BY <1>1, <1>4
  <2>2. Reads(n, node[c].where, k, node[c].fInbound, node[c].fNetworkNode,
              node[c].grantOutbound)
    BY <1>2, <2>1, FieldWrites
  <2>3. Writes(o, n)
    BY <1>4 DEF ConnectAddsRef
  <2> HIDE DEF c, n
  <2>4. Becomes(c, node'[c]) /\ (node'[c] = n \/ node'[c] = node[c])
    BY <1>3, <2>1, <2>2, <2>3 DEF Reads
  <2> QED BY <1>2, <2>1, <2>2, <2>4 DEF Reads
<1>5. ASSUME NEW have \in BOOLEAN, c \in CNodes,
             Writes(o, [node[c] EXCEPT !.grantOutbound = have])
      PROVE  /\ Becomes(c, node'[c])
             /\ Reads(node'[c], node[c].where, node[c].nRefCount, node[c].fInbound,
                      node[c].fNetworkNode, node'[c].grantOutbound)
             /\ node[c].where # "deleted" => node'[c].grantOutbound = have
  <2> DEFINE n == [node[c] EXCEPT !.grantOutbound = have]
  <2>1. Reads(n, node[c].where, node[c].nRefCount, node[c].fInbound, node[c].fNetworkNode, have)
    BY <1>2, <1>5, FieldWrites
  <2>2. Writes(o, n)
    BY <1>5
  <2> HIDE DEF c, n
  <2>3. \/ Becomes(c, node'[c]) /\ node'[c] = n
        \/ Becomes(c, node'[c]) /\ node'[c] = node[c] /\ node[c].where = "deleted"
    BY <1>3, <1>5, <2>1, <2>2 DEF Reads
  <2> QED BY <1>2, <1>5, <2>1, <2>3 DEF Reads
<1>6. /\ MoveToReleases(o) => Writes(o, [node[c] EXCEPT !.grantOutbound = FALSE])
      /\ MoveToGrants(o) => Writes(o, [node[c] EXCEPT !.grantOutbound = TRUE])
      /\ ~(MoveToReleases(o) /\ MoveToGrants(o))
  BY DEF MoveToReleases, MoveToGrants
<1>7. ASSUME SetNetworkNode(o)
      PROVE  /\ Becomes(c, node'[c])
             /\ Reads(node'[c], node[c].where, node[c].nRefCount, node[c].fInbound,
                      node'[c].fNetworkNode, node[c].grantOutbound)
  <2> DEFINE n == [node[c] EXCEPT !.fNetworkNode = TRUE]
  <2>1. c \in CNodes
    BY <1>1, <1>7
  <2>2. Reads(n, node[c].where, node[c].nRefCount, node[c].fInbound, TRUE,
              node[c].grantOutbound)
    BY <1>2, <2>1, FieldWrites
  <2>3. Writes(o, n)
    BY <1>7 DEF SetNetworkNode
  <2> HIDE DEF c, n
  <2>4. Becomes(c, node'[c]) /\ (node'[c] = n \/ node'[c] = node[c])
    BY <1>3, <2>1, <2>2, <2>3 DEF Reads
  <2> QED BY <1>2, <2>1, <2>2, <2>4 DEF Reads
<1> HIDE DEF c
<1>8. ASSUME MoveToReleases(o) \/ MoveToGrants(o)
      PROVE  /\ Becomes(c, node'[c])
             /\ Reads(node'[c], node[c].where, node[c].nRefCount, node[c].fInbound,
                      node[c].fNetworkNode, node'[c].grantOutbound)
             /\ MoveToReleases(o) /\ node[c].where # "deleted" =>
                   node'[c].grantOutbound = FALSE
             /\ MoveToGrants(o) /\ node[c].where # "deleted" =>
                   node'[c].grantOutbound = TRUE
  BY <1>1, <1>5, <1>6, <1>8
<1> QED BY <1>1, <1>4, <1>7, <1>8 DEF c
-----------------------------------------------------------------------------

\* What the steps of the socket handler make of its state,
HandlerGoes(pc, copy, pnode) ==
    /\ socketHandler' \in SocketState
    /\ socketHandler'.pc = pc /\ socketHandler'.copy = copy /\ socketHandler'.pnode = pnode

LEMMA HandlerWrites ==
    ASSUME ConnectionsTypeOK, PointersInv
    PROVE  LET copy == socketHandler.copy
               pnode == socketHandler.pnode
           IN
           /\ \A c \in CNodes : DisconnectNode(c) =>
                 HandlerGoes(IF node[c].grantOutbound THEN "releasing" ELSE "released", copy, c)
           /\ DisconnectReleases => HandlerGoes("released", copy, pnode)
           /\ DisconnectEnds => HandlerGoes("next", copy, None)
           /\ DeleteNodes => HandlerGoes("accept", copy, pnode)
           /\ SocketsCopied => HandlerGoes("service", vNodes, pnode)
           /\ SocketsReleased => HandlerGoes("disconnect", {}, pnode)
<1> DEFINE h == socketHandler
<1>1. h \in SocketState
  BY DEF ConnectionsTypeOK
<1>2. ASSUME NEW pc \in {"disconnect", "releasing", "released", "next", "accept", "service"}
      PROVE  /\ [h EXCEPT !.pc = pc] \in SocketState
             /\ [h EXCEPT !.pc = pc].pc = pc
             /\ [h EXCEPT !.pc = pc].copy = h.copy /\ [h EXCEPT !.pc = pc].pnode = h.pnode
  BY <1>1 DEF SocketState
<1>3. ASSUME NEW pc \in {"disconnect", "releasing", "released", "next", "accept", "service"},
             NEW pnode \in CNodes \cup {None},
             socketHandler' = [h EXCEPT !.pc = pc, !.pnode = pnode]
      PROVE  HandlerGoes(pc, h.copy, pnode)
  <2> DEFINE g == [h EXCEPT !.pc = pc]
             k == [g EXCEPT !.pnode = pnode]
  <2>1. socketHandler' = k
    BY <1>3
  <2>2. g \in SocketState /\ g.pc = pc /\ g.copy = h.copy
    BY <1>2
  <2> HIDE DEF g
  <2>3. k \in SocketState /\ k.pc = g.pc /\ k.copy = g.copy /\ k.pnode = pnode
    BY <2>2 DEF SocketState
  <2> HIDE DEF k
  <2> QED BY <2>1, <2>2, <2>3 DEF HandlerGoes
<1>4. ASSUME NEW pc \in {"disconnect", "releasing", "released", "next", "accept", "service"},
             NEW copy \in SUBSET CNodes,
             socketHandler' = [h EXCEPT !.pc = pc, !.copy = copy]
      PROVE  HandlerGoes(pc, copy, h.pnode)
  <2> DEFINE g == [h EXCEPT !.pc = pc]
             k == [g EXCEPT !.copy = copy]
  <2>1. socketHandler' = k
    BY <1>4
  <2>2. g \in SocketState /\ g.pc = pc /\ g.pnode = h.pnode
    BY <1>2
  <2> HIDE DEF g
  <2>3. k \in SocketState /\ k.pc = g.pc /\ k.pnode = g.pnode /\ k.copy = copy
    BY <2>2 DEF SocketState
  <2> HIDE DEF k
  <2> QED BY <2>1, <2>2, <2>3 DEF HandlerGoes
<1>5. ASSUME NEW c \in CNodes, DisconnectNode(c)
      PROVE  HandlerGoes(IF node[c].grantOutbound THEN "releasing" ELSE "released", h.copy, c)
  BY <1>3, <1>5 DEF DisconnectNode
<1>6. DisconnectReleases => HandlerGoes("released", h.copy, h.pnode)
  BY <1>2 DEF DisconnectReleases, HandlerGoes
<1>7. DisconnectEnds => HandlerGoes("next", h.copy, None)
  BY <1>3 DEF DisconnectEnds
<1>8. DeleteNodes => HandlerGoes("accept", h.copy, h.pnode)
  BY <1>2 DEF DeleteNodes, HandlerGoes
<1>9. vNodes \in SUBSET CNodes
  BY DEF vNodes
<1>10. SocketsCopied => HandlerGoes("service", vNodes, h.pnode)
  BY <1>4, <1>9 DEF SocketsCopied
<1>11. SocketsReleased => HandlerGoes("disconnect", {}, h.pnode)
  BY <1>4 DEF SocketsReleased
<1> QED BY <1>5, <1>6, <1>7, <1>8, <1>10, <1>11

\* and of the nodes.
LEMMA DisconnectWrites ==
    ASSUME ConnectionsTypeOK, PointersInv
    PROVE  /\ \A c \in CNodes : DisconnectNode(c) =>
                 /\ Becomes(c, node'[c])
                 /\ Reads(node'[c], "removed", node[c].nRefCount, node[c].fInbound,
                          node[c].fNetworkNode, node[c].grantOutbound)
           /\ DisconnectReleases =>
                 LET c == socketHandler.pnode IN
                 /\ c \in CNodes /\ Becomes(c, node'[c])
                 /\ Reads(node'[c], node[c].where, node[c].nRefCount, node[c].fInbound,
                          node[c].fNetworkNode, FALSE)
           /\ DisconnectEnds =>
                 LET c == socketHandler.pnode IN
                 /\ c \in CNodes /\ Becomes(c, node'[c]) /\ node[c].where = "removed"
                 /\ Reads(node'[c], "vNodesDisconnected",
                          node[c].nRefCount -
                             (IF node[c].fNetworkNode \/ node[c].fInbound THEN 1 ELSE 0),
                          node[c].fInbound, node[c].fNetworkNode, node[c].grantOutbound)
<1>1. ASSUME NEW c \in CNodes
      PROVE  node[c] \in CNode
  BY DEF ConnectionsTypeOK
<1>2. ASSUME NEW c \in CNodes, DisconnectNode(c)
      PROVE  /\ Becomes(c, node'[c])
             /\ Reads(node'[c], "removed", node[c].nRefCount, node[c].fInbound,
                      node[c].fNetworkNode, node[c].grantOutbound)
  <2> DEFINE n == [node[c] EXCEPT !.where = "removed"]
  <2>1. Reads(n, "removed", node[c].nRefCount, node[c].fInbound, node[c].fNetworkNode,
              node[c].grantOutbound)
    BY <1>1, FieldWrites
  <2>2. node' = [node EXCEPT ![c] = n]
    BY <1>2 DEF DisconnectNode
  <2> HIDE DEF n
  <2>3. Becomes(c, n)
    BY <2>1, <2>2, NodeBecomes DEF Reads
  <2> QED BY <2>1, <2>3 DEF Becomes
<1> DEFINE c == socketHandler.pnode
<1>3. ASSUME DisconnectReleases
      PROVE  /\ c \in CNodes /\ Becomes(c, node'[c])
             /\ Reads(node'[c], node[c].where, node[c].nRefCount, node[c].fInbound,
                      node[c].fNetworkNode, FALSE)
  <2> DEFINE n == [node[c] EXCEPT !.grantOutbound = FALSE]
  <2>1. c \in CNodes
    BY <1>3 DEF DisconnectReleases, PointersInv
  <2>2. Reads(n, node[c].where, node[c].nRefCount, node[c].fInbound, node[c].fNetworkNode, FALSE)
    BY <1>1, <2>1, FieldWrites
  <2>3. node' = [node EXCEPT ![c] = n]
    BY <1>3 DEF DisconnectReleases
  <2> HIDE DEF n, c
  <2>4. Becomes(c, n)
    BY <2>1, <2>2, <2>3, NodeBecomes DEF Reads
  <2> QED BY <2>1, <2>2, <2>4 DEF Becomes
<1>4. ASSUME DisconnectEnds
      PROVE  /\ c \in CNodes /\ Becomes(c, node'[c]) /\ node[c].where = "removed"
             /\ Reads(node'[c], "vNodesDisconnected",
                      node[c].nRefCount -
                         (IF node[c].fNetworkNode \/ node[c].fInbound THEN 1 ELSE 0),
                      node[c].fInbound, node[c].fNetworkNode, node[c].grantOutbound)
  <2> DEFINE n == Disconnected(node[c])
  <2>1. c \in CNodes /\ node[c].where = "removed"
    BY <1>4 DEF DisconnectEnds, PointersInv
  <2>2. Reads(n, "vNodesDisconnected",
              node[c].nRefCount - (IF node[c].fNetworkNode \/ node[c].fInbound THEN 1 ELSE 0),
              node[c].fInbound, node[c].fNetworkNode, node[c].grantOutbound)
    BY <1>1, <2>1, DisconnectedWrites
  <2>3. node' = [node EXCEPT ![c] = n]
    BY <1>4 DEF DisconnectEnds
  <2> HIDE DEF n, c
  <2>4. Becomes(c, n)
    BY <2>1, <2>2, <2>3, NodeBecomes DEF Reads
  <2> QED BY <2>1, <2>2, <2>4 DEF Becomes
<1> QED BY <1>2, <1>3, <1>4

\* The nodes that are deleted.
Done == {c \in CNodes : DoneWith(node[c])}

LEMMA DeletesWrites ==
    ASSUME ConnectionsTypeOK, DeleteNodes
    PROVE  /\ node' \in [CNodes -> CNode]
           /\ \A x \in CNodes \ Done : node'[x] = node[x]
           /\ \A x \in Done : /\ node[x].where = "vNodesDisconnected" /\ node[x].nRefCount <= 0
                              /\ node'[x].where = "deleted" /\ node'[x].grantOutbound = FALSE
           /\ semOutbound' = semOutbound + Cardinality({c \in Done : node[c].grantOutbound})
           /\ clashed' = clashed \cup {c \in Done : Moving(c) # {}}
           /\ UNCHANGED <<opener, messageHandler, found, overtaken>>
<1>1. NoNode("deleted") \in CNode /\ NoNode("deleted").where = "deleted"
      /\ NoNode("deleted").grantOutbound = FALSE
  BY DEF NoNode, CNode
<1>2. /\ node' = [c \in CNodes |-> IF c \in Done THEN NoNode("deleted") ELSE node[c]]
      /\ semOutbound' = semOutbound + Cardinality({c \in Done : node[c].grantOutbound})
      /\ clashed' = clashed \cup {c \in Done : Moving(c) # {}}
      /\ UNCHANGED <<opener, messageHandler, found, overtaken>>
  BY DEF DeleteNodes, Done
<1>3. \A x \in Done : x \in CNodes /\ node[x].where = "vNodesDisconnected" /\ node[x].nRefCount <= 0
  BY DEF Done, DoneWith
<1> HIDE DEF Done
<1>4. node' \in [CNodes -> CNode]
  BY <1>1, <1>2 DEF ConnectionsTypeOK
<1>5. \A x \in Done : node'[x] = NoNode("deleted")
  BY <1>2, <1>3
<1>6. \A x \in CNodes \ Done : node'[x] = node[x]
  BY <1>2
<1> QED BY <1>1, <1>2, <1>3, <1>4, <1>5, <1>6

\* The steps that set a flag.
LEMMA FlagWrites ==
    ASSUME ConnectionsTypeOK, NEW c \in CNodes,
           SocketCloses(c) \/ MessageDisconnects(c) \/ ReleaseTimePasses(c)
    PROVE  /\ Becomes(c, node'[c])
           /\ Reads(node'[c], node[c].where, node[c].nRefCount, node[c].fInbound,
                    node[c].fNetworkNode, node[c].grantOutbound)
<1> DEFINE n == [node[c] EXCEPT !.fDisconnect = TRUE]
           m == [node[c] EXCEPT !.released = TRUE]
<1>1. node[c] \in CNode
  BY DEF ConnectionsTypeOK
<1>2. /\ Reads(n, node[c].where, node[c].nRefCount, node[c].fInbound,
               node[c].fNetworkNode, node[c].grantOutbound)
      /\ Reads(m, node[c].where, node[c].nRefCount, node[c].fInbound,
               node[c].fNetworkNode, node[c].grantOutbound)
  BY <1>1, FieldWrites
<1>3. node' = [node EXCEPT ![c] = n] \/ node' = [node EXCEPT ![c] = m]
  BY DEF SocketCloses, MessageDisconnects, ReleaseTimePasses
<1> HIDE DEF n, m
<1>4. Becomes(c, n) \/ Becomes(c, m)
  BY <1>2, <1>3, NodeBecomes DEF Reads
<1> QED BY <1>2, <1>4 DEF Becomes
-----------------------------------------------------------------------------

\* The part of PointersInv that a step of one opening thread can disturb.
LEMMA OpenerKeepsPointers ==
    ASSUME ConnectionsTypeOK, PointersInv, NEW o \in Openers, NEW pc, NEW pnode,
           OpenerGoes(o, pc, pnode),
           found \subseteq found', UNCHANGED <<socketHandler, messageHandler>>,
           pc \in {"idle", "checked"} => pnode = None,
           pc \notin {"idle", "checked"} => pnode \in CNodes,
           pc = "found" => pnode \in found',
           \A x \in CNodes : node'[x].where = "removed" <=> node[x].where = "removed"
    PROVE  PointersInv'
BY DEF PointersInv, OpenerGoes

\* Steps of other threads that move no node from or to "removed".
LEMMA OthersKeepPointers ==
    ASSUME ConnectionsTypeOK, PointersInv, UNCHANGED <<opener, found>>,
           UNCHANGED <<socketHandler, messageHandler>>,
           \A x \in CNodes : node'[x].where = "removed" <=> node[x].where = "removed"
    PROVE  PointersInv'
BY DEF PointersInv

LEMMA NextTypes ==
    ASSUME ConnectionsTypeOK, PointersInv, [Next]_vars
    PROVE  ConnectionsTypeOK' /\ PointersInv'
<1>1. CASE UNCHANGED vars
  BY <1>1 DEF vars, history, ConnectionsTypeOK, PointersInv
<1>2. ASSUME NEW o \in Openers, NEW a \in Addrs, OpenNetworkConnection(o, a)
      PROVE  ConnectionsTypeOK' /\ PointersInv'
  <2>1. OpenerGoes(o, "checked", opener[o].pnode) /\ opener[o].pnode = None
    BY <1>2, OpenerWrites DEF OpenNetworkConnection, PointersInv
  <2>2. PointersInv'
    BY <1>2, <2>1, OpenerKeepsPointers DEF OpenNetworkConnection, history
  <2> QED BY <1>2, <2>1, <2>2 DEF OpenNetworkConnection, history, ConnectionsTypeOK, OpenerGoes
<1>3. ASSUME NEW o \in Openers, NEW c \in CNodes, ConnectFinds(o, c)
      PROVE  ConnectionsTypeOK' /\ PointersInv'
  <2>1. OpenerGoes(o, "found", c)
    BY <1>3, OpenerWrites
  <2>2. PointersInv'
    BY <1>3, <2>1, OpenerKeepsPointers DEF ConnectFinds
  <2> QED BY <1>3, <2>1, <2>2 DEF ConnectFinds, ConnectionsTypeOK, OpenerGoes
<1>4. ASSUME NEW o \in Openers, ConnectAddsRef(o)
      PROVE  ConnectionsTypeOK' /\ PointersInv'
  <2> DEFINE c == opener[o].pnode
  <2>1. /\ c \in CNodes /\ Becomes(c, node'[c]) /\ node'[c].where = node[c].where
        /\ OpenerGoes(o, "connected", c)
    BY <1>4, OpenerWrites, OpenerWritesNode DEF Reads
  <2> HIDE DEF c
  <2>2. PointersInv'
    BY <1>4, <2>1, OpenerKeepsPointers DEF ConnectAddsRef, history, Becomes
  <2> QED BY <1>4, <2>1, <2>2
          DEF ConnectAddsRef, history, ConnectionsTypeOK, OpenerGoes, Becomes
<1>5. ASSUME NEW o \in Openers, NEW c \in CNodes, ConnectNode(o, c)
      PROVE  ConnectionsTypeOK' /\ PointersInv'
  <2>1. opener[o].addr \in Addrs \cup {None}
    BY DEF ConnectionsTypeOK, OpenerState
  <2>2. /\ Becomes(c, node'[c]) /\ node'[c].where # "removed" /\ node[c].where # "removed"
        /\ OpenerGoes(o, "connected", c)
    BY <1>5, <2>1, OpenerWrites, NewNodeWrites DEF ConnectNode, Reads
  <2>3. PointersInv'
    BY <1>5, <2>2, OpenerKeepsPointers DEF ConnectNode, history, Becomes
  <2> QED BY <1>5, <2>2, <2>3
          DEF ConnectNode, history, ConnectionsTypeOK, OpenerGoes, Becomes
<1>6. ASSUME NEW o \in Openers, ConnectFails(o)
      PROVE  ConnectionsTypeOK' /\ PointersInv'
  <2>1. OpenerGoes(o, "idle", None)
    BY <1>6, OpenerWrites
  <2>2. PointersInv'
    BY <1>6, <2>1, OpenerKeepsPointers DEF ConnectFails, history
  <2> QED BY <1>6, <2>1, <2>2 DEF ConnectFails, history, ConnectionsTypeOK, OpenerGoes
<1>7. ASSUME NEW o \in Openers, MoveToTests(o)
      PROVE  ConnectionsTypeOK' /\ PointersInv'
  <2> DEFINE c == opener[o].pnode
  <2>1. c \in CNodes
    BY <1>7, OpenerWritesNode
  <2>2. PICK pc \in {"releasing", "released"} : OpenerGoes(o, pc, c)
    BY <1>7, OpenerWrites
  <2>3. node' = node /\ clashed' \subseteq CNodes
    BY <1>7, <2>1 DEF MoveToTests, ConnectionsTypeOK
  <2> HIDE DEF c
  <2>4. PointersInv'
    BY <1>7, <2>1, <2>2, <2>3, OpenerKeepsPointers DEF MoveToTests
  <2> QED BY <1>7, <2>2, <2>3, <2>4 DEF MoveToTests, ConnectionsTypeOK, OpenerGoes
<1>8. ASSUME NEW o \in Openers, MoveToReleases(o) \/ MoveToGrants(o) \/ SetNetworkNode(o)
      PROVE  ConnectionsTypeOK' /\ PointersInv'
  <2> DEFINE c == opener[o].pnode
  <2>1. c \in CNodes /\ Becomes(c, node'[c]) /\ node'[c].where = node[c].where
    BY <1>8, OpenerWritesNode DEF Reads
  <2>2. PICK pc \in {"released", "moved", "idle"}, pnode \in {c, None} :
           OpenerGoes(o, pc, pnode) /\ (pc = "idle" <=> pnode = None)
    <3>1. c # None
      BY <2>1, ConnectionsAssumption
    <3> QED BY <1>8, <3>1, OpenerWrites
  <2>3. semOutbound' \in Nat /\ UNCHANGED <<socketHandler, messageHandler, history>>
    BY <1>8 DEF MoveToReleases, MoveToGrants, SetNetworkNode, ConnectionsTypeOK
  <2> HIDE DEF c
  <2>4. PointersInv'
    BY <2>1, <2>2, <2>3, OpenerKeepsPointers DEF history, Becomes
  <2> QED BY <2>1, <2>2, <2>3, <2>4 DEF history, ConnectionsTypeOK, OpenerGoes, Becomes
<1>9. ASSUME NEW c \in CNodes, DisconnectNode(c)
      PROVE  ConnectionsTypeOK' /\ PointersInv'
  <2>1. Becomes(c, node'[c]) /\ node'[c].where = "removed"
    BY <1>9, DisconnectWrites DEF Reads
  <2>2. PICK pc \in {"releasing", "released"} : HandlerGoes(pc, socketHandler.copy, c)
    BY <1>9, HandlerWrites
  <2>3. /\ UNCHANGED <<semOutbound, opener, messageHandler, found, overtaken>>
        /\ clashed' \subseteq CNodes /\ socketHandler.pc \in {"disconnect", "next"}
    BY <1>9 DEF DisconnectNode, ConnectionsTypeOK
  <2>4. \A x \in CNodes : node'[x].where = "removed" <=> x = c
    BY <2>1, <2>3 DEF Becomes, PointersInv
  <2>5. PointersInv'
    BY <2>2, <2>3, <2>4 DEF PointersInv, HandlerGoes
  <2> QED BY <2>1, <2>2, <2>3, <2>5 DEF ConnectionsTypeOK, HandlerGoes, Becomes
<1>10. CASE DisconnectReleases
  <2> DEFINE c == socketHandler.pnode
  <2>1. c \in CNodes /\ Becomes(c, node'[c]) /\ node'[c].where = node[c].where
    BY <1>10, DisconnectWrites DEF Reads
  <2>2. HandlerGoes("released", socketHandler.copy, c)
    BY <1>10, HandlerWrites
  <2>3. /\ UNCHANGED <<opener, messageHandler, history>>
        /\ semOutbound' \in Nat /\ socketHandler.pc = "releasing"
    BY <1>10 DEF DisconnectReleases, ConnectionsTypeOK
  <2>4. PointersInv'
    BY <2>1, <2>2, <2>3 DEF PointersInv, HandlerGoes, Becomes, history
  <2> HIDE DEF c
  <2> QED BY <2>1, <2>2, <2>3, <2>4 DEF ConnectionsTypeOK, HandlerGoes, Becomes, history
<1>11. CASE DisconnectEnds
  <2> DEFINE c == socketHandler.pnode
  <2>1. c \in CNodes /\ Becomes(c, node'[c]) /\ node'[c].where = "vNodesDisconnected"
    BY <1>11, DisconnectWrites DEF Reads
  <2>2. HandlerGoes("next", socketHandler.copy, None)
    BY <1>11, HandlerWrites
  <2>3. /\ UNCHANGED <<semOutbound, opener, messageHandler, found, clashed>>
        /\ overtaken' \subseteq CNodes /\ socketHandler.pc = "released"
    BY <1>11, <2>1 DEF DisconnectEnds, ConnectionsTypeOK
  <2>4. \A x \in CNodes : node'[x].where # "removed"
    BY <2>1, <2>3 DEF PointersInv, Becomes
  <2>5. PointersInv'
    BY <2>2, <2>3, <2>4 DEF PointersInv, HandlerGoes
  <2> HIDE DEF c
  <2> QED BY <2>1, <2>2, <2>3, <2>5 DEF ConnectionsTypeOK, HandlerGoes, Becomes
<1>12. CASE DeleteNodes
  <2> DEFINE freed == {c \in Done : node[c].grantOutbound}
  <2>1. freed \in SUBSET CNodes /\ Done \in SUBSET CNodes
    BY DEF Done
  <2>2. IsFiniteSet(freed)
    BY <2>1, FS_Subset, ConnectionsAssumption
  <2>3. Cardinality(freed) \in Nat
    BY <2>2, FS_CardinalityType
  <2>4. semOutbound' \in Nat /\ clashed' \subseteq CNodes
    <3>1. semOutbound' = semOutbound + Cardinality(freed)
      BY <1>12, DeletesWrites
    <3> HIDE DEF freed
    <3>2. semOutbound' \in Nat
      BY <2>3, <3>1 DEF ConnectionsTypeOK
    <3>3. clashed' \subseteq CNodes
      BY <1>12, <2>1, DeletesWrites DEF ConnectionsTypeOK
    <3> QED BY <3>2, <3>3
  <2>5. HandlerGoes("accept", socketHandler.copy, socketHandler.pnode)
    BY <1>12, HandlerWrites
  <2>6. \A x \in CNodes : node'[x].where = "removed" => node[x].where = "removed"
    BY <1>12, DeletesWrites
  <2>7. PointersInv'
    <3>1. socketHandler.pc \in {"disconnect", "next"}
      BY <1>12 DEF DeleteNodes
    <3>2. UNCHANGED <<opener, messageHandler, found>>
      BY <1>12, DeletesWrites
    <3> QED BY <2>5, <2>6, <3>1, <3>2 DEF PointersInv, HandlerGoes
  <2> QED BY <1>12, <2>4, <2>5, <2>7, DeletesWrites DEF ConnectionsTypeOK, HandlerGoes
<1>13. ASSUME NEW c \in CNodes, NEW a \in Addrs, AcceptConnection(c, a)
       PROVE  ConnectionsTypeOK' /\ PointersInv'
  <2>1. Becomes(c, node'[c]) /\ node'[c].where # "removed" /\ node[c].where # "removed"
    BY <1>13, NewNodeWrites DEF AcceptConnection, Reads
  <2>2. PointersInv'
    BY <1>13, <2>1, OthersKeepPointers DEF AcceptConnection, history, Becomes
  <2> QED BY <1>13, <2>1, <2>2 DEF AcceptConnection, history, ConnectionsTypeOK, Becomes
<1>14. vNodes \in SUBSET CNodes /\ socketHandler.copy \in SUBSET CNodes
       /\ messageHandler.copy \in SUBSET CNodes
  BY DEF vNodes, ConnectionsTypeOK, SocketState
<1>15. CASE SocketsCopied \/ SocketsReleased
  <2>1. PICK S \in SUBSET CNodes, k \in {1, -1} : CountsMove(S, k)
    BY <1>14, <1>15, CountsWrites DEF SocketsCopied, SocketsReleased
  <2>2. PICK pc \in {"service", "disconnect"}, copy \in SUBSET CNodes :
           /\ HandlerGoes(pc, copy, socketHandler.pnode)
           /\ pc # "service" => copy = {}
    BY <1>14, <1>15, HandlerWrites
  <2>3. /\ UNCHANGED <<semOutbound, opener, messageHandler, history>>
        /\ socketHandler.pc \in {"accept", "service"}
    BY <1>15 DEF SocketsCopied, SocketsReleased
  <2>4. \A x \in CNodes : node'[x].where # "removed"
    BY <2>1, <2>3 DEF CountsMove, Reads, PointersInv
  <2>5. PointersInv'
    BY <2>2, <2>3, <2>4 DEF PointersInv, HandlerGoes, history
  <2> QED BY <2>1, <2>2, <2>3, <2>5 DEF ConnectionsTypeOK, HandlerGoes, CountsMove, history
<1>16. CASE MessagesCopied \/ MessagesReleased
  <2>1. PICK S \in SUBSET CNodes, k \in {1, -1} : CountsMove(S, k)
    BY <1>14, <1>16, CountsWrites DEF MessagesCopied, MessagesReleased
  <2>2. /\ messageHandler' \in [pc : {"copy", "process"}, copy : SUBSET CNodes]
        /\ messageHandler'.pc # "process" => messageHandler'.copy = {}
        /\ UNCHANGED <<semOutbound, opener, socketHandler, history>>
    BY <1>14, <1>16 DEF MessagesCopied, MessagesReleased
  <2>3. \A x \in CNodes : node'[x].where = node[x].where
    BY <2>1 DEF CountsMove, Reads
  <2>4. PointersInv'
    BY <2>2, <2>3 DEF PointersInv, history
  <2> QED BY <2>1, <2>2, <2>4 DEF ConnectionsTypeOK, CountsMove, history
<1>17. ASSUME NEW c \in CNodes,
              SocketCloses(c) \/ MessageDisconnects(c) \/ ReleaseTimePasses(c)
       PROVE  ConnectionsTypeOK' /\ PointersInv'
  <2>1. Becomes(c, node'[c]) /\ node'[c].where = node[c].where
    BY <1>17, FlagWrites DEF Reads, Becomes
  <2>2. UNCHANGED <<semOutbound, opener, socketHandler, messageHandler, history>>
    BY <1>17 DEF SocketCloses, MessageDisconnects, ReleaseTimePasses
  <2>3. PointersInv'
    BY <2>1, <2>2, OthersKeepPointers DEF Becomes, history
  <2> QED BY <2>1, <2>2, <2>3 DEF ConnectionsTypeOK, Becomes, history
<1> QED
  BY <1>1, <1>2, <1>3, <1>4, <1>5, <1>6, <1>7, <1>8, <1>9, <1>10, <1>11, <1>12, <1>13,
     <1>15, <1>16, <1>17
  DEF Next, OpenerStep, SocketStep, MessageStep
-----------------------------------------------------------------------------

\* The threads and the nodes that have a slot in their hands.
Opening == {o \in Openers : opener[o].pc \notin {"idle", "moved"}}
Granted == {c \in CNodes : node[c].grantOutbound}

\* Unless two threads are in the grant of a node at once, one thread at most is
\* in its MoveTo, and what it read there or is about to write is still right;
\* and the socket handler that releases the grant is alone.
GrantInv(c) ==
    c \notin clashed =>
        /\ \A o, p \in Moving(c) : o = p
        /\ \A o \in Moving(c) : opener[o].pc = "releasing" <=> node[c].grantOutbound
        /\ Moving(c) # {} => node[c].where # "deleted"
        /\ socketHandler.pc = "releasing" /\ socketHandler.pnode = c =>
              node[c].grantOutbound /\ Moving(c) = {}

SlotsInv ==
    /\ \A c \in CNodes : GrantInv(c)
    /\ clashed = {} => semOutbound + Cardinality(Opening) + Cardinality(Granted) = MaxOutbound

LEMMA SlotsFinite ==
    /\ IsFiniteSet(Opening) /\ Cardinality(Opening) \in Nat
    /\ IsFiniteSet(Granted) /\ Cardinality(Granted) \in Nat
<1>1. Opening \in SUBSET Openers /\ Granted \in SUBSET CNodes
  BY DEF Opening, Granted
<1>2. IsFiniteSet(Openers) /\ IsFiniteSet(CNodes)
  BY ConnectionsAssumption
<1>3. IsFiniteSet(Opening) /\ IsFiniteSet(Granted)
  BY <1>1, <1>2, FS_Subset
<1> QED BY <1>3, FS_CardinalityType

LEMMA OpeningCount ==
    ASSUME ConnectionsTypeOK, NEW o \in Openers, NEW pc, NEW pnode, OpenerGoes(o, pc, pnode)
    PROVE  /\ Cardinality(Opening)' = Cardinality(Opening)
              + (IF o \notin Opening /\ pc \notin {"idle", "moved"} THEN 1 ELSE 0)
              - (IF o \in Opening /\ pc \in {"idle", "moved"} THEN 1 ELSE 0)
           /\ Cardinality(Opening)' \in Nat
<1>0. ASSUME NEW S \in SUBSET Openers, Opening' = S
      PROVE  Cardinality(Opening)' \in Nat
  <2>1. IsFiniteSet(S)
    BY FS_Subset, ConnectionsAssumption
  <2> QED BY <1>0, <2>1, FS_CardinalityType
<1>1. CASE pc \notin {"idle", "moved"}
  <2>1. Opening' = Opening \cup {o}
    BY <1>1 DEF Opening, OpenerGoes
  <2>2. Cardinality(Opening \cup {o}) =
           IF o \in Opening THEN Cardinality(Opening) ELSE Cardinality(Opening) + 1
    BY SlotsFinite, FS_AddElement
  <2>3. Opening' \in SUBSET Openers
    BY <2>1 DEF Opening
  <2>4. Cardinality(Opening)' \in Nat
    BY <1>0, <2>3
  <2>5. Cardinality(Opening)' = Cardinality(Opening)
              + (IF o \notin Opening /\ pc \notin {"idle", "moved"} THEN 1 ELSE 0)
              - (IF o \in Opening /\ pc \in {"idle", "moved"} THEN 1 ELSE 0)
    BY <1>1, <2>1, <2>2, SlotsFinite
  <2> QED BY <2>4, <2>5
<1>2. CASE pc \in {"idle", "moved"}
  <2>1. Opening' = Opening \ {o}
    BY <1>2 DEF Opening, OpenerGoes
  <2>2. Cardinality(Opening \ {o}) =
           IF o \in Opening THEN Cardinality(Opening) - 1 ELSE Cardinality(Opening)
    BY SlotsFinite, FS_RemoveElement
  <2>3. Opening' \in SUBSET Openers
    BY <2>1 DEF Opening
  <2>4. Cardinality(Opening)' \in Nat
    BY <1>0, <2>3
  <2>5. Cardinality(Opening)' = Cardinality(Opening)
              + (IF o \notin Opening /\ pc \notin {"idle", "moved"} THEN 1 ELSE 0)
              - (IF o \in Opening /\ pc \in {"idle", "moved"} THEN 1 ELSE 0)
    BY <1>2, <2>1, <2>2, SlotsFinite
  <2> QED BY <2>4, <2>5
<1> QED BY <1>1, <1>2

\* One node gets a grant or loses it.
LEMMA GrantedCount ==
    ASSUME NEW c \in CNodes, NEW n, Becomes(c, n), n.grantOutbound \in BOOLEAN,
           node[c].grantOutbound \in BOOLEAN
    PROVE  Cardinality(Granted)' = Cardinality(Granted)
              + (IF n.grantOutbound THEN 1 ELSE 0) - (IF node[c].grantOutbound THEN 1 ELSE 0)
<1>1. c \in Granted <=> node[c].grantOutbound
  BY DEF Granted
<1>2. CASE n.grantOutbound
  <2>1. Granted' = Granted \cup {c}
    BY <1>2 DEF Granted, Becomes
  <2>2. Cardinality(Granted \cup {c}) =
           IF c \in Granted THEN Cardinality(Granted) ELSE Cardinality(Granted) + 1
    BY SlotsFinite, FS_AddElement
  <2> QED BY <1>1, <1>2, <2>1, <2>2, SlotsFinite
<1>3. CASE ~n.grantOutbound
  <2>1. Granted' = Granted \ {c}
    BY <1>3 DEF Granted, Becomes
  <2>2. Cardinality(Granted \ {c}) =
           IF c \in Granted THEN Cardinality(Granted) - 1 ELSE Cardinality(Granted)
    BY SlotsFinite, FS_RemoveElement
  <2> QED BY <1>1, <1>3, <2>1, <2>2, SlotsFinite
<1> QED BY <1>2, <1>3

-----------------------------------------------------------------------------

\* Whether opening thread o is in MoveTo, past its test.
InMoveTo(o) == opener[o].pc \in {"releasing", "released"}

\* A step that has nothing to do with the grants of the nodes.
Quiet ==
    /\ \A c \in CNodes : /\ node'[c].grantOutbound = node[c].grantOutbound
                         /\ node'[c].where = "deleted" => node[c].where = "deleted"
    /\ \A o \in Openers : InMoveTo(o) \/ InMoveTo(o)' => opener'[o] = opener[o]
    /\ socketHandler'.pc = "releasing" => socketHandler' = socketHandler
    /\ clashed' = clashed /\ found \subseteq found'
    /\ semOutbound' + Cardinality(Opening)' = semOutbound + Cardinality(Opening)

LEMMA QuietKeepsSlots ==
    ASSUME ConnectionsTypeOK, ConnectionsTypeOK', SlotsInv, Quiet
    PROVE  SlotsInv'
<1>1. \A c \in CNodes : Moving(c)' = Moving(c)
  BY DEF Quiet, Moving, InMoveTo
<1>2. \A o \in Openers : InMoveTo(o) => opener'[o] = opener[o]
  BY DEF Quiet
<1>3. \A c \in CNodes : \A o \in Moving(c) : o \in Openers /\ InMoveTo(o)
  BY DEF Moving, InMoveTo
<1>4. ASSUME NEW c \in CNodes
      PROVE  GrantInv(c)'
  <2>1. GrantInv(c)
    BY DEF SlotsInv
  <2>2. /\ node'[c].grantOutbound = node[c].grantOutbound
        /\ node'[c].where = "deleted" => node[c].where = "deleted"
        /\ socketHandler'.pc = "releasing" => socketHandler' = socketHandler
        /\ clashed' = clashed
    BY DEF Quiet
  <2>3. \A o \in Moving(c) : opener'[o].pc = opener[o].pc
    BY <1>2, <1>3
  <2>4. Moving(c)' = Moving(c)
    BY <1>1
  <2> QED BY <2>1, <2>2, <2>3, <2>4 DEF GrantInv
<1>5. Granted' = Granted
  BY DEF Quiet, Granted
<1>6. Cardinality(Granted)' = Cardinality(Granted)
  BY <1>5
<1>7. clashed = {} =>
         semOutbound' + Cardinality(Opening)' + Cardinality(Granted)' = MaxOutbound
  BY <1>6 DEF SlotsInv, Quiet
<1>8. clashed' = clashed
  BY DEF Quiet
<1> QED BY <1>4, <1>7, <1>8 DEF SlotsInv

\* A step of one opening thread, outside MoveTo.
LEMMA OpenerQuiet ==
    ASSUME ConnectionsTypeOK, NEW o \in Openers, NEW pc, NEW pnode, OpenerGoes(o, pc, pnode),
           ~InMoveTo(o), pc \notin {"releasing", "released"},
           \A c \in CNodes : /\ node'[c].grantOutbound = node[c].grantOutbound
                             /\ node'[c].where = "deleted" => node[c].where = "deleted",
           UNCHANGED <<socketHandler, clashed>>, found \subseteq found',
           semOutbound' = semOutbound
              - (IF o \notin Opening /\ pc \notin {"idle", "moved"} THEN 1 ELSE 0)
              + (IF o \in Opening /\ pc \in {"idle", "moved"} THEN 1 ELSE 0)
    PROVE  Quiet
<1>1. \A p \in Openers : InMoveTo(p) \/ InMoveTo(p)' => opener'[p] = opener[p]
  BY DEF InMoveTo, OpenerGoes
<1>2. semOutbound \in Nat /\ Cardinality(Opening) \in Nat
  BY SlotsFinite DEF ConnectionsTypeOK
<1>3. Cardinality(Opening)' = Cardinality(Opening)
              + (IF o \notin Opening /\ pc \notin {"idle", "moved"} THEN 1 ELSE 0)
              - (IF o \in Opening /\ pc \in {"idle", "moved"} THEN 1 ELSE 0)
  BY OpeningCount
<1>4. semOutbound' + Cardinality(Opening)' = semOutbound + Cardinality(Opening)
  BY <1>2, <1>3
<1> QED BY <1>1, <1>4 DEF Quiet

\* A step of another thread.
LEMMA OthersQuiet ==
    ASSUME ConnectionsTypeOK,
           \A c \in CNodes : /\ node'[c].grantOutbound = node[c].grantOutbound
                             /\ node'[c].where = "deleted" => node[c].where = "deleted",
           UNCHANGED <<opener, semOutbound, clashed, found>>,
           socketHandler'.pc = "releasing" => socketHandler' = socketHandler
    PROVE  Quiet
<1>1. Opening' = Opening
  BY DEF Opening
<1>2. Cardinality(Opening)' = Cardinality(Opening)
  BY <1>1
<1> QED BY <1>2 DEF Quiet

\* The steps that have nothing to do with the grants.
QuietNext ==
    \/ \E o \in Openers :
          \/ \E a \in Addrs : OpenNetworkConnection(o, a)
          \/ \E c \in CNodes : ConnectFinds(o, c) \/ ConnectNode(o, c)
          \/ ConnectAddsRef(o) \/ ConnectFails(o) \/ SetNetworkNode(o)
    \/ DisconnectEnds
    \/ \E c \in CNodes, a \in Addrs : AcceptConnection(c, a)
    \/ SocketsCopied \/ SocketsReleased \/ MessagesCopied \/ MessagesReleased
    \/ \E c \in CNodes : SocketCloses(c) \/ MessageDisconnects(c) \/ ReleaseTimePasses(c)
    \/ UNCHANGED vars

LEMMA QuietSteps ==
    ASSUME ConnectionsTypeOK, PointersInv, QuietNext
    PROVE  Quiet
<1>1. CASE UNCHANGED vars
  BY <1>1, OthersQuiet DEF vars, history
<1>2. ASSUME NEW o \in Openers, NEW a \in Addrs, OpenNetworkConnection(o, a)
      PROVE  Quiet
  <2>1. /\ OpenerGoes(o, "checked", opener[o].pnode)
        /\ o \notin Opening /\ ~InMoveTo(o)
    BY <1>2, OpenerWrites DEF OpenNetworkConnection, Opening, InMoveTo
  <2> QED BY <1>2, <2>1, OpenerQuiet DEF OpenNetworkConnection, history, ConnectionsTypeOK
<1>3. ASSUME NEW o \in Openers, NEW c \in CNodes, ConnectFinds(o, c)
      PROVE  Quiet
  <2>1. OpenerGoes(o, "found", c) /\ o \in Opening /\ ~InMoveTo(o)
    BY <1>3, OpenerWrites DEF ConnectFinds, Opening, InMoveTo
  <2> QED BY <1>3, <2>1, OpenerQuiet DEF ConnectFinds, ConnectionsTypeOK
<1>4. ASSUME NEW o \in Openers, NEW c \in CNodes, ConnectNode(o, c)
      PROVE  Quiet
  <2>1. OpenerGoes(o, "connected", c) /\ o \in Opening /\ ~InMoveTo(o)
    BY <1>4, OpenerWrites DEF ConnectNode, Opening, InMoveTo
  <2>2. opener[o].addr \in Addrs \cup {None}
    BY DEF ConnectionsTypeOK, OpenerState
  <2>3. \A x \in CNodes : /\ node'[x].grantOutbound = node[x].grantOutbound
                          /\ node'[x].where = "deleted" => node[x].where = "deleted"
    BY <1>4, <2>2, NewNodeWrites DEF ConnectNode, Becomes, Reads
  <2> QED BY <1>4, <2>1, <2>3, OpenerQuiet DEF ConnectNode, history, ConnectionsTypeOK
<1>5. ASSUME NEW o \in Openers, ConnectFails(o)
      PROVE  Quiet
  <2>1. OpenerGoes(o, "idle", None) /\ o \in Opening /\ ~InMoveTo(o)
    BY <1>5, OpenerWrites DEF ConnectFails, Opening, InMoveTo
  <2> QED BY <1>5, <2>1, OpenerQuiet DEF ConnectFails, history, ConnectionsTypeOK
<1>6. ASSUME NEW o \in Openers, ConnectAddsRef(o)
      PROVE  Quiet
  <2> DEFINE c == opener[o].pnode
  <2>1. OpenerGoes(o, "connected", c) /\ o \in Opening /\ ~InMoveTo(o)
    BY <1>6, OpenerWrites DEF ConnectAddsRef, Opening, InMoveTo
  <2>2. \A x \in CNodes : /\ node'[x].grantOutbound = node[x].grantOutbound
                          /\ node'[x].where = "deleted" => node[x].where = "deleted"
    BY <1>6, OpenerWritesNode DEF Becomes, Reads
  <2> HIDE DEF c
  <2> QED BY <1>6, <2>1, <2>2, OpenerQuiet DEF ConnectAddsRef, history, ConnectionsTypeOK
<1>7. ASSUME NEW o \in Openers, SetNetworkNode(o)
      PROVE  Quiet
  <2>1. OpenerGoes(o, "idle", None) /\ o \notin Opening /\ ~InMoveTo(o)
    BY <1>7, OpenerWrites DEF SetNetworkNode, Opening, InMoveTo
  <2>2. \A x \in CNodes : /\ node'[x].grantOutbound = node[x].grantOutbound
                          /\ node'[x].where = "deleted" => node[x].where = "deleted"
    BY <1>7, OpenerWritesNode DEF Becomes, Reads
  <2> QED BY <1>7, <2>1, <2>2, OpenerQuiet DEF SetNetworkNode, history, ConnectionsTypeOK
<1>8. CASE DisconnectEnds
  <2>1. HandlerGoes("next", socketHandler.copy, None)
    BY <1>8, HandlerWrites
  <2>2. \A x \in CNodes : /\ node'[x].grantOutbound = node[x].grantOutbound
                          /\ node'[x].where = "deleted" => node[x].where = "deleted"
    BY <1>8, DisconnectWrites DEF Becomes, Reads
  <2> QED BY <1>8, <2>1, <2>2, OthersQuiet DEF DisconnectEnds, HandlerGoes
<1>9. ASSUME NEW c \in CNodes, NEW a \in Addrs, AcceptConnection(c, a)
      PROVE  Quiet
  <2>1. \A x \in CNodes : /\ node'[x].grantOutbound = node[x].grantOutbound
                          /\ node'[x].where = "deleted" => node[x].where = "deleted"
    BY <1>9, NewNodeWrites DEF AcceptConnection, Becomes, Reads
  <2> QED BY <1>9, <2>1, OthersQuiet DEF AcceptConnection, history
<1>10. CASE SocketsCopied \/ SocketsReleased \/ MessagesCopied \/ MessagesReleased
  <2>1. vNodes \in SUBSET CNodes /\ socketHandler.copy \in SUBSET CNodes
        /\ messageHandler.copy \in SUBSET CNodes
    BY DEF vNodes, ConnectionsTypeOK, SocketState
  <2>2. PICK S \in SUBSET CNodes, k \in {1, -1} : CountsMove(S, k)
    BY <1>10, <2>1, CountsWrites
    DEF SocketsCopied, SocketsReleased, MessagesCopied, MessagesReleased
  <2>3. \A x \in CNodes : /\ node'[x].grantOutbound = node[x].grantOutbound
                          /\ node'[x].where = "deleted" => node[x].where = "deleted"
    BY <2>2 DEF CountsMove, Reads
  <2>4. socketHandler'.pc = "releasing" => socketHandler' = socketHandler
    BY <1>10, HandlerWrites DEF MessagesCopied, MessagesReleased, HandlerGoes
  <2> QED BY <1>10, <2>3, <2>4, OthersQuiet
          DEF SocketsCopied, SocketsReleased, MessagesCopied, MessagesReleased, history
<1>11. ASSUME NEW c \in CNodes,
              SocketCloses(c) \/ MessageDisconnects(c) \/ ReleaseTimePasses(c)
       PROVE  Quiet
  <2>1. \A x \in CNodes : /\ node'[x].grantOutbound = node[x].grantOutbound
                          /\ node'[x].where = "deleted" => node[x].where = "deleted"
    BY <1>11, FlagWrites DEF Becomes, Reads
  <2> QED BY <1>11, <2>1, OthersQuiet
          DEF SocketCloses, MessageDisconnects, ReleaseTimePasses, history
<1> QED
  BY <1>1, <1>2, <1>3, <1>4, <1>5, <1>6, <1>7, <1>8, <1>9, <1>10, <1>11 DEF QuietNext
-----------------------------------------------------------------------------

\* The slots after a step that writes the grant of one node at most.
LEMMA GrantWritten ==
    ASSUME ConnectionsTypeOK, SlotsInv, NEW c \in CNodes, NEW n \in CNode, Becomes(c, n),
           clashed \subseteq clashed',
           \A x \in CNodes \ {c} : GrantInv(x)', GrantInv(c)',
           clashed = {} =>
              semOutbound' + Cardinality(Opening)' = semOutbound + Cardinality(Opening)
                 + (IF node[c].grantOutbound THEN 1 ELSE 0) - (IF n.grantOutbound THEN 1 ELSE 0),
           semOutbound' \in Nat, Cardinality(Opening)' \in Nat
    PROVE  SlotsInv'
<1>1. node[c].grantOutbound \in BOOLEAN /\ n.grantOutbound \in BOOLEAN
  BY DEF ConnectionsTypeOK, CNode
<1>2. Cardinality(Granted)' = Cardinality(Granted)
              + (IF n.grantOutbound THEN 1 ELSE 0) - (IF node[c].grantOutbound THEN 1 ELSE 0)
  BY <1>1, GrantedCount
<1>3. semOutbound \in Nat /\ Cardinality(Opening) \in Nat /\ Cardinality(Granted) \in Nat
  BY SlotsFinite DEF ConnectionsTypeOK
<1>4. ASSUME clashed' = {}
      PROVE  semOutbound' + Cardinality(Opening)' + Cardinality(Granted)' = MaxOutbound
  <2>1. clashed = {}
    BY <1>4
  <2>2. semOutbound + Cardinality(Opening) + Cardinality(Granted) = MaxOutbound
    BY <2>1 DEF SlotsInv
  <2> QED BY <1>1, <1>2, <1>3, <2>1, <2>2
<1> QED BY <1>4 DEF SlotsInv

LEMMA NextSlots ==
    ASSUME ConnectionsTypeOK, ConnectionsTypeOK', PointersInv, SlotsInv, [Next]_vars
    PROVE  SlotsInv'
<1>1. CASE QuietNext
  BY <1>1, QuietSteps, QuietKeepsSlots
<1>2. semOutbound \in Nat /\ Cardinality(Opening) \in Nat /\ Cardinality(Granted) \in Nat
  BY SlotsFinite DEF ConnectionsTypeOK
<1>3. \A c \in CNodes : GrantInv(c) /\ node[c] \in CNode
                        /\ Reads(node[c], node[c].where, node[c].nRefCount, node[c].fInbound,
                                 node[c].fNetworkNode, node[c].grantOutbound)
  BY DEF SlotsInv, ConnectionsTypeOK, Reads
<1>4. ASSUME NEW o \in Openers, MoveToTests(o)
      PROVE  SlotsInv'
  <2>0. PICK c \in CNodes : opener[o].pnode = c
    BY <1>4, OpenerWritesNode
  <2>2. PICK have \in HaveGrant(c) :
           OpenerGoes(o, IF have THEN "releasing" ELSE "released", c)
    BY <1>4, <2>0, OpenerWrites
  <2>3. /\ opener[o].pc = "connected" /\ clashed \subseteq clashed'
        /\ c \notin clashed' =>
              /\ Moving(c) = {} /\ node[c].where # "deleted"
              /\ ~(socketHandler.pc = "releasing" /\ socketHandler.pnode = c)
        /\ \A x \in CNodes \ {c} : x \in clashed' => x \in clashed
        /\ UNCHANGED <<node, semOutbound, socketHandler>>
    BY <1>4, <2>0 DEF MoveToTests
  <2>4. \A x \in CNodes \ {c} :
           Moving(x)' = Moving(x) /\ \A p \in Moving(x) : opener'[p] = opener[p]
    BY <2>0, <2>2, <2>3 DEF Moving, OpenerGoes
  <2>5. Moving(c) = {} => Moving(c)' = {o}
    BY <2>0, <2>2 DEF Moving, OpenerGoes
  <2>6. node[c].where # "deleted" => have = node[c].grantOutbound
    BY DEF HaveGrant
  <2>7. opener'[o].pc = IF have THEN "releasing" ELSE "released"
    BY <2>2 DEF OpenerGoes
  <2>8. Cardinality(Opening)' = Cardinality(Opening)
    BY <2>2, <2>3, <1>2, OpeningCount DEF Opening
  <2>9. ASSUME NEW x \in CNodes PROVE GrantInv(x)'
    <3>1. CASE x = c
      <4>1. ASSUME c \notin clashed'
            PROVE  /\ Moving(c)' = {o} /\ node'[c].where # "deleted"
                   /\ opener'[o].pc = "releasing" <=> node'[c].grantOutbound
                   /\ ~(socketHandler'.pc = "releasing" /\ socketHandler'.pnode = c)
        <5>1. have = node[c].grantOutbound /\ node[c].grantOutbound \in BOOLEAN
          BY <1>3, <2>3, <2>6, <4>1 DEF CNode
        <5> QED BY <2>3, <2>5, <2>7, <4>1, <5>1
      <4> QED BY <3>1, <4>1 DEF GrantInv
    <3>2. CASE x # c
      BY <1>3, <2>3, <2>4, <3>2 DEF GrantInv
    <3> QED BY <3>1, <3>2
  <2>10. Granted' = Granted
    BY <2>3 DEF Granted
  <2>11. Cardinality(Granted)' = Cardinality(Granted)
    BY <2>10
  <2> QED BY <2>3, <2>8, <2>9, <2>11 DEF SlotsInv
<1>5. ASSUME NEW o \in Openers, MoveToReleases(o)
      PROVE  SlotsInv'
  <2>0. PICK c \in CNodes : opener[o].pnode = c
    BY <1>5, OpenerWritesNode
  <2>1. /\ c \in CNodes /\ Becomes(c, node'[c]) /\ node'[c] \in CNode
        /\ node'[c].where = node[c].where
        /\ node[c].where # "deleted" => node'[c].grantOutbound = FALSE
    BY <1>5, <2>0, OpenerWritesNode DEF Reads
  <2>2. OpenerGoes(o, "released", c)
    BY <1>5, <2>0, OpenerWrites
  <2>3. /\ opener[o].pc = "releasing" /\ semOutbound' = semOutbound + 1
        /\ UNCHANGED <<socketHandler, clashed>>
    BY <1>5 DEF MoveToReleases, history
  <2>4. /\ \A x \in CNodes \ {c} : \A p \in Moving(x) : opener'[p] = opener[p]
        /\ \A x \in CNodes : Moving(x)' = Moving(x)
        /\ o \in Moving(c)
    BY <2>0, <2>2, <2>3 DEF Moving, OpenerGoes
  <2>5. opener'[o].pc = "released"
    BY <2>2 DEF OpenerGoes
  <2>6. Cardinality(Opening)' = Cardinality(Opening)
    BY <2>2, <2>3, <1>2, OpeningCount DEF Opening
  <2>7. c \notin clashed =>
           /\ Moving(c) = {o} /\ node[c].where # "deleted" /\ node[c].grantOutbound
           /\ ~(socketHandler.pc = "releasing" /\ socketHandler.pnode = c)
    BY <1>3, <2>1, <2>3, <2>4 DEF GrantInv
  <2>8. \A x \in CNodes \ {c} : GrantInv(x)'
    BY <1>3, <2>1, <2>3, <2>4 DEF GrantInv, Becomes
  <2>9. GrantInv(c)'
    <3>1. ASSUME c \notin clashed'
          PROVE  /\ Moving(c)' = {o} /\ node'[c].where # "deleted"
                 /\ opener'[o].pc # "releasing" /\ ~node'[c].grantOutbound
                 /\ ~(socketHandler'.pc = "releasing" /\ socketHandler'.pnode = c)
      BY <2>1, <2>3, <2>4, <2>5, <2>7, <3>1
    <3> QED BY <3>1 DEF GrantInv
  <2>10. clashed = {} =>
            semOutbound' + Cardinality(Opening)' = semOutbound + Cardinality(Opening)
              + (IF node[c].grantOutbound THEN 1 ELSE 0)
              - (IF node'[c].grantOutbound THEN 1 ELSE 0)
    BY <1>2, <2>1, <2>3, <2>6, <2>7
  <2>11. /\ clashed \subseteq clashed'
         /\ semOutbound' \in Nat /\ Cardinality(Opening)' \in Nat
    BY <1>2, <2>3, <2>6
  <2> QED BY <2>1, <2>8, <2>9, <2>10, <2>11, GrantWritten
<1>6. ASSUME NEW o \in Openers, MoveToGrants(o)
      PROVE  SlotsInv'
  <2>0. PICK c \in CNodes : opener[o].pnode = c
    BY <1>6, OpenerWritesNode
  <2>1. /\ c \in CNodes /\ Becomes(c, node'[c]) /\ node'[c] \in CNode
        /\ node'[c].where = node[c].where
        /\ node[c].where # "deleted" => node'[c].grantOutbound = TRUE
    BY <1>6, <2>0, OpenerWritesNode DEF Reads
  <2>2. OpenerGoes(o, "moved", c)
    BY <1>6, <2>0, OpenerWrites
  <2>3. opener[o].pc = "released" /\ UNCHANGED <<semOutbound, socketHandler, clashed>>
    BY <1>6 DEF MoveToGrants, history
  <2>4. /\ \A x \in CNodes \ {c} : /\ \A p \in Moving(x) : opener'[p] = opener[p]
                                   /\ Moving(x)' = Moving(x)
        /\ o \in Moving(c) /\ Moving(c)' = Moving(c) \ {o}
    BY <2>0, <2>2, <2>3 DEF Moving, OpenerGoes
  <2>5. Cardinality(Opening)' = Cardinality(Opening) - 1 /\ Cardinality(Opening)' \in Nat
    <3>1. o \in Opening
      BY <2>3 DEF Opening
    <3> QED BY <2>2, <1>2, <3>1, OpeningCount
  <2>6. c \notin clashed =>
           /\ Moving(c) = {o} /\ node[c].where # "deleted" /\ ~node[c].grantOutbound
           /\ ~(socketHandler.pc = "releasing" /\ socketHandler.pnode = c)
    BY <1>3, <2>1, <2>3, <2>4 DEF GrantInv
  <2>7. \A x \in CNodes \ {c} : GrantInv(x)'
    BY <1>3, <2>1, <2>3, <2>4 DEF GrantInv, Becomes
  <2>8. GrantInv(c)'
    <3>1. ASSUME c \notin clashed'
          PROVE  /\ Moving(c)' = {}
                 /\ ~(socketHandler'.pc = "releasing" /\ socketHandler'.pnode = c)
      BY <2>3, <2>4, <2>6, <3>1
    <3> QED BY <3>1 DEF GrantInv
  <2>9. clashed = {} =>
           semOutbound' + Cardinality(Opening)' = semOutbound + Cardinality(Opening)
              + (IF node[c].grantOutbound THEN 1 ELSE 0)
              - (IF node'[c].grantOutbound THEN 1 ELSE 0)
    BY <1>2, <2>1, <2>3, <2>5, <2>6
  <2>10. /\ clashed \subseteq clashed'
         /\ semOutbound' \in Nat /\ Cardinality(Opening)' \in Nat
    BY <1>2, <2>3, <2>5
  <2> QED BY <2>1, <2>7, <2>8, <2>9, <2>10, GrantWritten
<1>7. ASSUME NEW c \in CNodes, DisconnectNode(c)
      PROVE  SlotsInv'
  <2>1. /\ Becomes(c, node'[c]) /\ node'[c] \in CNode /\ node'[c].where = "removed"
        /\ node'[c].grantOutbound = node[c].grantOutbound
    BY <1>7, DisconnectWrites DEF Reads
  <2>2. HandlerGoes(IF node[c].grantOutbound THEN "releasing" ELSE "released",
                    socketHandler.copy, c)
    BY <1>7, HandlerWrites
  <2>3. /\ clashed \subseteq clashed' /\ UNCHANGED <<semOutbound, opener>>
        /\ c \notin clashed' => ~node[c].grantOutbound \/ Moving(c) = {}
    BY <1>7 DEF DisconnectNode
  <2>4. /\ \A x \in CNodes : Moving(x)' = Moving(x)
        /\ Opening' = Opening
    BY <2>3 DEF Moving, Opening
  <2>5. Cardinality(Opening)' = Cardinality(Opening)
    BY <2>4
  <2>6. \A x \in CNodes \ {c} : GrantInv(x)'
    BY <1>3, <2>1, <2>2, <2>3, <2>4 DEF GrantInv, HandlerGoes, Becomes
  <2>7. GrantInv(c)'
    BY <1>3, <2>1, <2>2, <2>3, <2>4 DEF GrantInv, HandlerGoes
  <2>8. semOutbound' + Cardinality(Opening)' = semOutbound + Cardinality(Opening)
           + (IF node[c].grantOutbound THEN 1 ELSE 0)
           - (IF node'[c].grantOutbound THEN 1 ELSE 0)
    BY <1>2, <2>1, <2>3, <2>5
  <2> QED BY <1>2, <2>1, <2>3, <2>5, <2>6, <2>7, <2>8, GrantWritten
<1>8. CASE DisconnectReleases
  <2>0. PICK c \in CNodes : socketHandler.pnode = c
    BY <1>8, DisconnectWrites
  <2>1. /\ c \in CNodes /\ Becomes(c, node'[c]) /\ node'[c] \in CNode
        /\ node'[c].where = node[c].where /\ node'[c].grantOutbound = FALSE
    BY <1>8, <2>0, DisconnectWrites DEF Reads
  <2>2. HandlerGoes("released", socketHandler.copy, c)
    BY <1>8, <2>0, HandlerWrites
  <2>3. /\ socketHandler.pc = "releasing" /\ semOutbound' = semOutbound + 1
        /\ UNCHANGED <<opener, clashed>>
    BY <1>8 DEF DisconnectReleases, history
  <2>4. /\ \A x \in CNodes : Moving(x)' = Moving(x)
        /\ Opening' = Opening
    BY <2>3 DEF Moving, Opening
  <2>5. Cardinality(Opening)' = Cardinality(Opening)
    BY <2>4
  <2>6. c \notin clashed => node[c].grantOutbound /\ Moving(c) = {}
    BY <1>3, <2>0, <2>3 DEF GrantInv
  <2>7. \A x \in CNodes \ {c} : GrantInv(x)'
    BY <1>3, <2>0, <2>1, <2>2, <2>3, <2>4 DEF GrantInv, HandlerGoes, Becomes
  <2>8. GrantInv(c)'
    <3>1. ASSUME c \notin clashed'
          PROVE  Moving(c)' = {} /\ socketHandler'.pc # "releasing"
      BY <2>2, <2>3, <2>4, <2>6, <3>1 DEF HandlerGoes
    <3> QED BY <3>1 DEF GrantInv
  <2>9. clashed = {} =>
           semOutbound' + Cardinality(Opening)' = semOutbound + Cardinality(Opening)
              + (IF node[c].grantOutbound THEN 1 ELSE 0)
              - (IF node'[c].grantOutbound THEN 1 ELSE 0)
    BY <1>2, <2>1, <2>3, <2>5, <2>6
  <2>10. /\ clashed \subseteq clashed'
         /\ semOutbound' \in Nat /\ Cardinality(Opening)' \in Nat
    BY <1>2, <2>3, <2>5
  <2> QED BY <2>1, <2>7, <2>8, <2>9, <2>10, GrantWritten
<1>9. CASE DeleteNodes
  <2> DEFINE freed == {c \in Done : node[c].grantOutbound}
  <2>1. /\ \A x \in CNodes \ Done : node'[x] = node[x]
        /\ \A x \in Done : node'[x].where = "deleted" /\ node'[x].grantOutbound = FALSE
        /\ semOutbound' = semOutbound + Cardinality(freed)
        /\ clashed' = clashed \cup {c \in Done : Moving(c) # {}}
        /\ opener' = opener
    BY <1>9, DeletesWrites
  <2>2. HandlerGoes("accept", socketHandler.copy, socketHandler.pnode)
    BY <1>9, HandlerWrites
  <2>3. /\ \A x \in CNodes : Moving(x)' = Moving(x)
        /\ Opening' = Opening
    BY <2>1 DEF Moving, Opening
  <2>4. Cardinality(Opening)' = Cardinality(Opening)
    BY <2>3
  <2>5. Done \subseteq CNodes
    BY DEF Done
  <2>6. Granted' = Granted \ freed /\ Granted \cap freed = freed
    BY <2>1, <2>5 DEF Granted
  <2>7. IsFiniteSet(freed) /\ Cardinality(freed) \in Nat
    BY <2>6, SlotsFinite, FS_Subset, FS_CardinalityType
  <2> HIDE DEF freed
  <2>8. Cardinality(Granted)' = Cardinality(Granted) - Cardinality(freed)
    <3>1. Cardinality(Granted \ freed) = Cardinality(Granted) - Cardinality(Granted \cap freed)
      BY SlotsFinite, FS_Difference
    <3> QED BY <2>6, <3>1
  <2>9. ASSUME NEW x \in CNodes PROVE GrantInv(x)'
    <3>1. CASE x \in Done
      <4>1. x \notin clashed' => Moving(x)' = {}
        BY <2>1, <2>3, <3>1
      <4> QED BY <2>2, <4>1 DEF GrantInv, HandlerGoes
    <3>2. CASE x \notin Done
      <4>1. node'[x] = node[x] /\ (x \notin clashed' => x \notin clashed)
        BY <2>1, <3>2
      <4> QED BY <1>3, <2>1, <2>2, <2>3, <4>1 DEF GrantInv, HandlerGoes
    <3> QED BY <3>1, <3>2
  <2>10. clashed' = {} => clashed = {}
    BY <2>1
  <2>11. semOutbound' + Cardinality(Opening)' + Cardinality(Granted)'
            = semOutbound + Cardinality(Opening) + Cardinality(Granted)
    BY <1>2, <2>1, <2>4, <2>7, <2>8
  <2> QED BY <2>9, <2>10, <2>11 DEF SlotsInv
<1> QED
  BY <1>1, <1>4, <1>5, <1>6, <1>7, <1>8, <1>9
  DEF Next, OpenerStep, SocketStep, MessageStep, QuietNext
-----------------------------------------------------------------------------

\* The references that the handlers hold to a node, and the threads that have
\* a pointer to it from ConnectNode.
Held(c) ==
    (IF c \in socketHandler.copy THEN 1 ELSE 0) + (IF c \in messageHandler.copy THEN 1 ELSE 0)
OpenedBy(c) == {o \in Openers : opener[o].pnode = c}

\* What nRefCount counts, for a node that no second thread found.  Until the
\* socket handler is done with disconnecting it, it is one more than the
\* references of the handlers: the one of AddRef in ConnectNode or of the
\* accepting thread.  "Disconnect unused nodes" gives that one back if the
\* node is inbound or its opener is done (fNetworkNode); so a thread that may
\* still use its pointer keeps the node from being deleted, and one that was
\* overtaken keeps it for good.  The thread finds no grant in the node.
NodeInv(c) ==
    /\ node[c].where = "unused" =>
          node[c] = NoNode("unused") /\ Held(c) = 0 /\ OpenedBy(c) = {}
    /\ c \notin found =>
         /\ \A o, p \in OpenedBy(c) : o = p
         /\ \A o \in OpenedBy(c) :
               /\ opener[o].pc \in {"connected", "released", "moved"}
               /\ opener[o].pc # "moved" => ~node[c].grantOutbound
               /\ ~node[c].fInbound /\ ~node[c].fNetworkNode
         /\ node[c].where \in {"vNodes", "removed"} => node[c].nRefCount = 1 + Held(c)
         /\ node[c].where = "vNodesDisconnected" =>
               \/ c \in overtaken /\ node[c].nRefCount = 1 + Held(c)
               \/ OpenedBy(c) = {} /\ node[c].nRefCount = Held(c)
         /\ node[c].where = "deleted" => Held(c) = 0 /\ OpenedBy(c) = {}

RefInv == \A c \in CNodes : NodeInv(c)

LEMMA HeldType == \A c : Held(c) \in {0, 1, 2}
BY DEF Held

LEMMA HeldSame ==
    ASSUME NEW c, UNCHANGED <<socketHandler.copy, messageHandler.copy>>
    PROVE  Held(c)' = Held(c)
BY DEF Held

\* No thread changes its mind about the node c.
OpenersKeep(c) ==
    /\ OpenedBy(c)' = OpenedBy(c)
    /\ \A o \in OpenedBy(c) : opener'[o].pc = opener[o].pc

LEMMA OpenersElsewhere ==
    ASSUME NEW c \in CNodes, NEW o \in Openers, NEW pc, NEW pnode, OpenerGoes(o, pc, pnode),
           opener[o].pnode # c, pnode # c
    PROVE  OpenersKeep(c)
BY DEF OpenersKeep, OpenedBy, OpenerGoes

\* A node that a step leaves as it is, or in which it writes only what the
\* invariant does not look at, or takes the grant away.
LEMMA NodeKept ==
    ASSUME NEW c \in CNodes, NodeInv(c), Held(c)' = Held(c), OpenersKeep(c),
           found \subseteq found', c \in overtaken => c \in overtaken',
           \/ node'[c] = node[c]
           \/ /\ node[c].where # "unused"
              /\ Reads(node'[c], node[c].where, node[c].nRefCount, node[c].fInbound,
                       node[c].fNetworkNode, node'[c].grantOutbound)
              /\ node'[c].grantOutbound => node[c].grantOutbound
    PROVE  NodeInv(c)'
<1>1. /\ node'[c].where = node[c].where /\ node'[c].nRefCount = node[c].nRefCount
      /\ node'[c].fInbound = node[c].fInbound /\ node'[c].fNetworkNode = node[c].fNetworkNode
      /\ node'[c].grantOutbound => node[c].grantOutbound
      /\ node[c].where = "unused" => node'[c] = node[c]
  BY DEF Reads
<1>2. OpenedBy(c)' = OpenedBy(c) /\ \A o \in OpenedBy(c) : opener'[o].pc = opener[o].pc
  BY DEF OpenersKeep
<1>3. c \notin found' => c \notin found
  OBVIOUS
<1> QED BY <1>1, <1>2, <1>3 DEF NodeInv

LEMMA OpenedIsUsed ==
    ASSUME RefInv, NEW o \in Openers, opener[o].pnode \in CNodes
    PROVE  node[opener[o].pnode].where # "unused" /\ o \in OpenedBy(opener[o].pnode)
BY DEF RefInv, NodeInv, OpenedBy

\* A new node, accepted or connected by the thread o.
LEMMA NewNodeInv ==
    ASSUME ConnectionsTypeOK, NEW c \in CNodes, NodeInv(c), NEW a \in Addrs \cup {None},
           NEW fInbound \in BOOLEAN, NewNode(c, a, fInbound), Held(c)' = Held(c),
           \/ OpenedBy(c)' = OpenedBy(c)
           \/ /\ ~fInbound
              /\ \E o \in Openers :
                    OpenedBy(c)' = OpenedBy(c) \cup {o} /\ opener'[o].pc = "connected"
    PROVE  NodeInv(c)'
<1>1. node[c] = NoNode("unused") /\ Held(c) = 0 /\ OpenedBy(c) = {}
  BY NewNodeWrites DEF NodeInv
<1>2. /\ node'[c].where = "vNodes" /\ node'[c].nRefCount = 1
      /\ node'[c].fInbound = fInbound /\ node'[c].fNetworkNode = FALSE
      /\ node'[c].grantOutbound = FALSE
  BY <1>1, NewNodeWrites DEF NoNode, Reads
<1>3. \A o, p \in OpenedBy(c)' : o = p
  BY <1>1
<1>4. \A o \in OpenedBy(c)' : opener'[o].pc = "connected" /\ ~fInbound
  BY <1>1
<1> QED BY <1>1, <1>2, <1>3, <1>4 DEF NodeInv

\* The steps that move a node towards its deletion.
LEMMA DisconnectKeepsRefs ==
    ASSUME ConnectionsTypeOK, PointersInv, RefInv, NEW x \in CNodes,
           DisconnectReleases \/ DisconnectEnds \/ DeleteNodes \/ \E c \in CNodes : DisconnectNode(c)
    PROVE  NodeInv(x)'
<1>1. NodeInv(x) /\ node[x] \in CNode /\ Held(x) \in {0, 1, 2}
  BY HeldType DEF RefInv, ConnectionsTypeOK
<1>2. Held(x)' = Held(x) /\ OpenersKeep(x)
  <2>1. socketHandler'.copy = socketHandler.copy
    BY HandlerWrites DEF HandlerGoes
  <2>2. UNCHANGED <<opener, messageHandler>>
    BY DEF DisconnectReleases, DisconnectEnds, DeleteNodes, DisconnectNode
  <2> QED BY <2>1, <2>2, HeldSame DEF OpenersKeep, OpenedBy
<1>3. ASSUME NEW c \in CNodes, DisconnectNode(c)
      PROVE  NodeInv(x)'
  <2>1. /\ Becomes(c, node'[c])
        /\ Reads(node'[c], "removed", node[c].nRefCount, node[c].fInbound,
                 node[c].fNetworkNode, node[c].grantOutbound)
    BY <1>3, DisconnectWrites
  <2>2. node[c].where = "vNodes" /\ UNCHANGED <<found, overtaken>>
    BY <1>3 DEF DisconnectNode, vNodes
  <2>3. CASE x = c
    BY <1>1, <1>2, <2>1, <2>2, <2>3 DEF NodeInv, Reads, OpenersKeep
  <2>4. CASE x # c
    <3>1. node'[x] = node[x]
      BY <2>1, <2>4 DEF Becomes
    <3> QED BY <1>1, <1>2, <2>2, <3>1, NodeKept
  <2> QED BY <2>3, <2>4
<1>4. CASE DisconnectReleases
  <2>1. PICK c \in CNodes :
           /\ socketHandler.pnode = c /\ Becomes(c, node'[c])
           /\ Reads(node'[c], node[c].where, node[c].nRefCount, node[c].fInbound,
                    node[c].fNetworkNode, FALSE)
    BY <1>4, DisconnectWrites
  <2>2. node[c].where # "unused" /\ UNCHANGED <<found, overtaken>>
    BY <1>4, <2>1 DEF DisconnectReleases, PointersInv, history
  <2>3. CASE x = c
    BY <1>1, <1>2, <2>1, <2>2, <2>3, NodeKept DEF Reads
  <2>4. CASE x # c
    <3>1. node'[x] = node[x]
      BY <2>1, <2>4 DEF Becomes
    <3> QED BY <1>1, <1>2, <2>2, <3>1, NodeKept
  <2> QED BY <2>3, <2>4
<1>5. CASE DisconnectEnds
  <2>1. PICK c \in CNodes :
           /\ socketHandler.pnode = c /\ Becomes(c, node'[c]) /\ node[c].where = "removed"
           /\ Reads(node'[c], "vNodesDisconnected",
                    node[c].nRefCount -
                       (IF node[c].fNetworkNode \/ node[c].fInbound THEN 1 ELSE 0),
                    node[c].fInbound, node[c].fNetworkNode, node[c].grantOutbound)
    BY <1>5, DisconnectWrites
  <2>2. /\ found' = found /\ overtaken \subseteq overtaken'
        /\ ~node[c].fInbound /\ ~node[c].fNetworkNode => c \in overtaken'
    BY <1>5, <2>1 DEF DisconnectEnds
  <2>3. CASE x = c
    <3>1. /\ node'[x].where = "vNodesDisconnected"
          /\ node'[x].fInbound = node[x].fInbound
          /\ node'[x].fNetworkNode = node[x].fNetworkNode
          /\ node'[x].grantOutbound = node[x].grantOutbound
          /\ node'[x].nRefCount = node[x].nRefCount -
                (IF node[x].fNetworkNode \/ node[x].fInbound THEN 1 ELSE 0)
      BY <2>1, <2>3 DEF Reads
    <3>2. OpenedBy(x)' = OpenedBy(x) /\ \A o \in OpenedBy(x) : opener'[o].pc = opener[o].pc
      BY <1>2 DEF OpenersKeep
    <3>3. ASSUME x \notin found
          PROVE  \/ x \in overtaken' /\ node'[x].nRefCount = 1 + Held(x)
                 \/ OpenedBy(x) = {} /\ node'[x].nRefCount = Held(x)
      <4>1. node[x].nRefCount = 1 + Held(x)
        BY <1>1, <2>1, <2>3, <3>3 DEF NodeInv
      <4>2. CASE node[x].fNetworkNode \/ node[x].fInbound
        BY <1>1, <3>1, <3>3, <4>1, <4>2 DEF NodeInv
      <4>3. CASE ~(node[x].fNetworkNode \/ node[x].fInbound)
        BY <1>1, <2>2, <2>3, <3>1, <4>1, <4>3
      <4> QED BY <4>2, <4>3
    <3> QED BY <1>1, <1>2, <2>2, <3>1, <3>2, <3>3 DEF NodeInv
  <2>4. CASE x # c
    <3>1. node'[x] = node[x]
      BY <2>1, <2>4 DEF Becomes
    <3> QED BY <1>1, <1>2, <2>2, <3>1, NodeKept
  <2> QED BY <2>3, <2>4
<1>6. CASE DeleteNodes
  <2>1. CASE x \in Done
    <3>1. /\ node[x].where = "vNodesDisconnected" /\ node[x].nRefCount <= 0
          /\ node'[x].where = "deleted" /\ node'[x].grantOutbound = FALSE
          /\ UNCHANGED <<found, overtaken, opener>>
      BY <1>6, <2>1, DeletesWrites
    <3>2. x \notin found => Held(x) = 0 /\ OpenedBy(x) = {}
      BY <1>1, <3>1 DEF NodeInv
    <3>3. OpenedBy(x)' = OpenedBy(x)
      BY <1>2 DEF OpenersKeep
    <3> QED BY <1>2, <3>1, <3>2, <3>3 DEF NodeInv
  <2>2. CASE x \notin Done
    <3>1. node'[x] = node[x] /\ UNCHANGED <<found, overtaken>>
      BY <1>6, <2>2, DeletesWrites
    <3> QED BY <1>1, <1>2, <3>1, NodeKept
  <2> QED BY <2>1, <2>2
<1> QED BY <1>3, <1>4, <1>5, <1>6

LEMMA NextRefInv ==
    ASSUME ConnectionsTypeOK, PointersInv, SlotsInv, RefInv, [Next]_vars
    PROVE  RefInv'
<1> SUFFICES ASSUME NEW x \in CNodes PROVE NodeInv(x)'
  BY DEF RefInv
<1>1. /\ NodeInv(x) /\ node[x] \in CNode /\ Held(x) \in {0, 1, 2}
      /\ Reads(node[x], node[x].where, node[x].nRefCount, node[x].fInbound,
               node[x].fNetworkNode, node[x].grantOutbound)
  BY HeldType DEF RefInv, ConnectionsTypeOK, Reads
<1>2. CASE UNCHANGED vars
  <2>1. Held(x)' = Held(x) /\ OpenersKeep(x)
    BY <1>2, HeldSame DEF vars, OpenersKeep, OpenedBy
  <2> QED BY <1>1, <1>2, <2>1, NodeKept DEF vars, history
<1>3. ASSUME NEW o \in Openers, \/ ConnectFails(o)
                                \/ \E a \in Addrs : OpenNetworkConnection(o, a)
      PROVE  NodeInv(x)'
  <2>1. opener[o].pnode = None /\ \E pc : OpenerGoes(o, pc, None)
    BY <1>3, OpenerWrites DEF ConnectFails, OpenNetworkConnection, PointersInv
  <2>2. OpenersKeep(x)
    BY <2>1, OpenersElsewhere, ConnectionsAssumption
  <2>3. Held(x)' = Held(x)
    BY <1>3, HeldSame DEF ConnectFails, OpenNetworkConnection
  <2> QED BY <1>1, <1>3, <2>2, <2>3, NodeKept DEF ConnectFails, OpenNetworkConnection, history
<1>4. ASSUME NEW o \in Openers, NEW c \in CNodes, ConnectFinds(o, c)
      PROVE  NodeInv(x)'
  <2>1. opener[o].pnode = None /\ OpenerGoes(o, "found", c)
    BY <1>4, OpenerWrites DEF ConnectFinds, PointersInv
  <2>2. Held(x)' = Held(x)
    BY <1>4, HeldSame DEF ConnectFinds
  <2>3. CASE x = c
    <3>1. node'[x].where = "vNodes" /\ x \in found'
      BY <1>4, <2>3 DEF ConnectFinds, FindNode, vNodes
    <3> QED BY <3>1 DEF NodeInv
  <2>4. CASE x # c
    <3>1. OpenersKeep(x)
      BY <2>1, <2>4, OpenersElsewhere, ConnectionsAssumption
    <3> QED BY <1>1, <1>4, <2>2, <3>1, NodeKept DEF ConnectFinds
  <2> QED BY <2>3, <2>4
<1>5. ASSUME NEW o \in Openers, NEW c \in CNodes, ConnectNode(o, c)
      PROVE  NodeInv(x)'
  <2>1. PICK a \in Addrs \cup {None} : NewNode(c, a, FALSE)
    BY <1>5 DEF ConnectNode, ConnectionsTypeOK, OpenerState
  <2>2. opener[o].pnode = None /\ OpenerGoes(o, "connected", c)
    BY <1>5, OpenerWrites DEF ConnectNode, PointersInv
  <2>3. Held(x)' = Held(x)
    BY <1>5, HeldSame DEF ConnectNode
  <2>4. CASE x = c
    <3>1. OpenedBy(x)' = OpenedBy(x) \cup {o} /\ opener'[o].pc = "connected"
      BY <2>2, <2>4, ConnectionsAssumption DEF OpenedBy, OpenerGoes
    <3> QED BY <1>1, <2>1, <2>3, <2>4, <3>1, NewNodeInv
  <2>5. CASE x # c
    <3>1. OpenersKeep(x)
      BY <2>2, <2>5, OpenersElsewhere, ConnectionsAssumption
    <3>2. node'[x] = node[x]
      BY <2>1, <2>5, NewNodeWrites DEF Becomes
    <3> QED BY <1>1, <1>5, <2>3, <3>1, <3>2, NodeKept DEF ConnectNode, history
  <2> QED BY <2>4, <2>5
<1>6. ASSUME NEW o \in Openers, \/ ConnectAddsRef(o) \/ MoveToTests(o) \/ MoveToReleases(o)
                                \/ MoveToGrants(o)
      PROVE  NodeInv(x)'
  <2>1. PICK c \in CNodes : opener[o].pnode = c
    BY <1>6, OpenerWritesNode
  <2>2. node[c].where # "unused" /\ o \in OpenedBy(c)
    BY <2>1, OpenedIsUsed
  <2>3. /\ Held(x)' = Held(x) /\ UNCHANGED <<found, overtaken>>
    BY <1>6, HeldSame DEF ConnectAddsRef, MoveToTests, MoveToReleases, MoveToGrants, history
  <2>4. PICK pc : OpenerGoes(o, pc, c)
    BY <1>6, <2>1, OpenerWrites
  <2>5. OpenedBy(x)' = OpenedBy(x)
    BY <2>1, <2>4 DEF OpenedBy, OpenerGoes
  <2>6. CASE x # c
    <3>1. node'[x] = node[x]
      BY <1>6, <2>1, <2>6, OpenerWritesNode DEF MoveToTests, Becomes
    <3>2. OpenersKeep(x)
      BY <2>1, <2>4, <2>6, OpenersElsewhere
    <3> QED BY <1>1, <2>3, <3>1, <3>2, NodeKept
  <2>7. CASE x = c /\ x \in found
    <3>1. node'[x].where = node[x].where
      BY <1>6, <2>1, <2>7, OpenerWritesNode DEF MoveToTests, Reads
    <3> QED BY <2>2, <2>3, <2>7, <3>1 DEF NodeInv
  <2>8. CASE x = c /\ x \notin found
    <3>1. /\ opener[o].pc \in {"connected", "released", "moved"}
          /\ opener[o].pc # "moved" => ~node[x].grantOutbound
          /\ OpenedBy(x) = {o} /\ node[x].where # "deleted"
      BY <1>1, <2>2, <2>8 DEF NodeInv
    <3>2. MoveToTests(o) \/ MoveToGrants(o)
      BY <1>6, <2>1, <2>8, <3>1 DEF ConnectAddsRef, MoveToReleases, PointersInv
    <3>3. /\ node'[x].where = node[x].where /\ node'[x].nRefCount = node[x].nRefCount
          /\ node'[x].fInbound = node[x].fInbound
          /\ node'[x].fNetworkNode = node[x].fNetworkNode
          /\ MoveToTests(o) => node'[x] = node[x]
      BY <2>1, <2>8, <3>2, OpenerWritesNode DEF MoveToTests, Reads
    <3>4. \/ opener'[o].pc = "moved"
          \/ opener'[o].pc = "released" /\ ~node'[x].grantOutbound
      <4>1. CASE MoveToGrants(o)
        BY <4>1, OpenerWrites DEF OpenerGoes
      <4>2. CASE MoveToTests(o)
        <5>1. ~node[x].grantOutbound /\ HaveGrant(opener[o].pnode) = {FALSE}
          BY <1>1, <2>1, <2>8, <3>1, <4>2 DEF MoveToTests, HaveGrant, CNode
        <5> QED BY <3>3, <4>2, <5>1, OpenerWrites DEF OpenerGoes
      <4> QED BY <3>2, <4>1, <4>2
    <3> QED BY <1>1, <2>2, <2>3, <2>5, <2>8, <3>1, <3>3, <3>4 DEF NodeInv
  <2> QED BY <2>6, <2>7, <2>8
<1>7. ASSUME NEW o \in Openers, SetNetworkNode(o)
      PROVE  NodeInv(x)'
  <2>1. PICK c \in CNodes : opener[o].pnode = c
    BY <1>7, OpenerWritesNode
  <2>2. node[c].where # "unused" /\ o \in OpenedBy(c)
    BY <2>1, OpenedIsUsed
  <2>3. Held(x)' = Held(x) /\ UNCHANGED <<found, overtaken>>
    BY <1>7, HeldSame DEF SetNetworkNode, history
  <2>4. OpenerGoes(o, "idle", None)
    BY <1>7, OpenerWrites
  <2>5. CASE x = c
    <3>1. node'[x].where = node[x].where /\ node'[x].nRefCount = node[x].nRefCount
      BY <1>7, <2>1, <2>5, OpenerWritesNode DEF Reads
    <3>2. x \notin found => OpenedBy(x)' = {}
      <4>1. x \notin found => OpenedBy(x) = {o}
        BY <1>1, <2>2, <2>5 DEF NodeInv
      <4>2. OpenedBy(x)' = OpenedBy(x) \ {o}
        BY <2>4, ConnectionsAssumption DEF OpenedBy, OpenerGoes
      <4> QED BY <4>1, <4>2
    <3> QED BY <1>1, <2>2, <2>3, <2>5, <3>1, <3>2 DEF NodeInv
  <2>6. CASE x # c
    <3>1. node'[x] = node[x]
      BY <1>7, <2>1, <2>6, OpenerWritesNode DEF Becomes
    <3>2. OpenersKeep(x)
      BY <2>1, <2>4, <2>6, OpenersElsewhere, ConnectionsAssumption
    <3> QED BY <1>1, <2>3, <3>1, <3>2, NodeKept
  <2> QED BY <2>5, <2>6
<1>8. CASE \/ DisconnectReleases \/ DisconnectEnds \/ DeleteNodes
           \/ \E c \in CNodes : DisconnectNode(c)
  BY <1>8, DisconnectKeepsRefs
<1>9. ASSUME NEW c \in CNodes, NEW a \in Addrs, AcceptConnection(c, a)
      PROVE  NodeInv(x)'
  <2>1. NewNode(c, a, TRUE) /\ UNCHANGED <<opener, history>>
    BY <1>9 DEF AcceptConnection
  <2>2. Held(x)' = Held(x) /\ OpenersKeep(x)
    BY <1>9, HeldSame DEF AcceptConnection, OpenersKeep, OpenedBy
  <2>3. CASE x = c
    BY <1>1, <2>1, <2>2, <2>3, NewNodeInv DEF OpenersKeep
  <2>4. CASE x # c
    <3>1. node'[x] = node[x]
      BY <2>1, <2>4, NewNodeWrites DEF Becomes
    <3> QED BY <1>1, <2>1, <2>2, <3>1, NodeKept DEF history
  <2> QED BY <2>3, <2>4
<1>10. CASE SocketsCopied \/ MessagesCopied
  <2>1. /\ vNodes \in SUBSET CNodes /\ node' = AddRefs(vNodes)
        /\ UNCHANGED <<opener, found, overtaken>>
    BY <1>10 DEF SocketsCopied, MessagesCopied, vNodes, history
  <2>2. CountsMove(vNodes, 1) /\ OpenersKeep(x)
    BY <2>1, CountsWrites DEF OpenersKeep, OpenedBy
  <2>3. Held(x)' = Held(x) + (IF x \in vNodes THEN 1 ELSE 0)
    <3>1. CASE SocketsCopied
      <4>1. /\ socketHandler'.copy = vNodes /\ messageHandler' = messageHandler
            /\ socketHandler.copy = {}
        BY <3>1, HandlerWrites DEF SocketsCopied, HandlerGoes, PointersInv
      <4> QED BY <4>1 DEF Held
    <3>2. CASE MessagesCopied
      BY <3>2 DEF MessagesCopied, PointersInv, Held
    <3> QED BY <1>10, <3>1, <3>2
  <2>4. CASE x \in vNodes
    <3>1. Held(x)' = Held(x) + 1
      BY <1>1, <2>3, <2>4
    <3>2. /\ node[x].where = "vNodes" /\ node'[x].where = "vNodes"
          /\ node'[x].nRefCount = node[x].nRefCount + 1
          /\ node'[x].fInbound = node[x].fInbound
          /\ node'[x].fNetworkNode = node[x].fNetworkNode
          /\ node'[x].grantOutbound = node[x].grantOutbound
      BY <2>2, <2>4 DEF vNodes, CountsMove, Reads
    <3> QED BY <1>1, <2>1, <2>2, <3>1, <3>2 DEF NodeInv, OpenersKeep
  <2>5. CASE x \notin vNodes
    <3>1. Held(x)' = Held(x) /\ node'[x] = node[x]
      BY <1>1, <2>2, <2>3, <2>5 DEF CountsMove
    <3> QED BY <1>1, <2>1, <2>2, <3>1, NodeKept
  <2> QED BY <2>4, <2>5
<1>11. CASE SocketsReleased \/ MessagesReleased
  <2>1. PICK S \in SUBSET CNodes :
           /\ CountsMove(S, -1) /\ UNCHANGED <<opener, found, overtaken>>
           /\ Held(x)' = Held(x) - (IF x \in S THEN 1 ELSE 0)
           /\ x \in S => Held(x) # 0
    <3>1. CASE SocketsReleased
      <4>1. socketHandler.copy \in SUBSET CNodes
        BY DEF ConnectionsTypeOK, SocketState
      <4>2. socketHandler'.copy = {} /\ messageHandler' = messageHandler
        BY <3>1, HandlerWrites DEF SocketsReleased, HandlerGoes
      <4>3. /\ Held(x)' = Held(x) - (IF x \in socketHandler.copy THEN 1 ELSE 0)
            /\ x \in socketHandler.copy => Held(x) # 0
        BY <4>2 DEF Held
      <4>4. CountsMove(socketHandler.copy, -1) /\ UNCHANGED <<opener, found, overtaken>>
        BY <3>1, <4>1, CountsWrites DEF SocketsReleased, history
      <4> QED BY <4>1, <4>3, <4>4
    <3>2. CASE MessagesReleased
      <4>1. messageHandler.copy \in SUBSET CNodes
        BY DEF ConnectionsTypeOK
      <4>2. /\ Held(x)' = Held(x) - (IF x \in messageHandler.copy THEN 1 ELSE 0)
            /\ x \in messageHandler.copy => Held(x) # 0
        BY <3>2 DEF MessagesReleased, Held
      <4>3. CountsMove(messageHandler.copy, -1) /\ UNCHANGED <<opener, found, overtaken>>
        BY <3>2, <4>1, CountsWrites DEF MessagesReleased, history
      <4> QED BY <4>1, <4>2, <4>3
    <3> QED BY <1>11, <3>1, <3>2
  <2>2. OpenersKeep(x)
    BY <2>1 DEF OpenersKeep, OpenedBy
  <2>3. CASE x \in S
    <3>1. Held(x)' = Held(x) - 1 /\ Held(x) # 0
      BY <1>1, <2>1, <2>3
    <3>2. /\ node'[x].where = node[x].where
          /\ node'[x].nRefCount = node[x].nRefCount - 1
          /\ node'[x].fInbound = node[x].fInbound
          /\ node'[x].fNetworkNode = node[x].fNetworkNode
          /\ node'[x].grantOutbound = node[x].grantOutbound
          /\ node[x].nRefCount \in Int
      BY <1>1, <2>1, <2>3 DEF CountsMove, Reads, CNode
    <3>3. node[x].where # "unused" /\ (node[x].where = "deleted" => x \in found)
      BY <1>1, <3>1 DEF NodeInv
    <3>4. ASSUME x \notin found
          PROVE  /\ node'[x].where \in {"vNodes", "removed"} => node'[x].nRefCount = 1 + Held(x)'
                 /\ node'[x].where = "vNodesDisconnected" =>
                       \/ x \in overtaken /\ node'[x].nRefCount = 1 + Held(x)'
                       \/ OpenedBy(x) = {} /\ node'[x].nRefCount = Held(x)'
      <4>1. node[x].where \in {"vNodes", "removed"} => node[x].nRefCount = 1 + Held(x)
        BY <1>1, <3>4 DEF NodeInv
      <4>2. node[x].where = "vNodesDisconnected" =>
               \/ x \in overtaken /\ node[x].nRefCount = 1 + Held(x)
               \/ OpenedBy(x) = {} /\ node[x].nRefCount = Held(x)
        BY <1>1, <3>4 DEF NodeInv
      <4> QED BY <1>1, <3>1, <3>2, <4>1, <4>2
    <3>5. OpenedBy(x)' = OpenedBy(x) /\ \A o \in OpenedBy(x) : opener'[o].pc = opener[o].pc
      BY <2>2 DEF OpenersKeep
    <3> QED BY <1>1, <2>1, <3>2, <3>3, <3>4, <3>5 DEF NodeInv
  <2>4. CASE x \notin S
    <3>1. Held(x)' = Held(x) /\ node'[x] = node[x]
      BY <1>1, <2>1, <2>4 DEF CountsMove
    <3> QED BY <1>1, <2>1, <2>2, <3>1, NodeKept
  <2> QED BY <2>3, <2>4
<1>12. ASSUME NEW c \in CNodes,
              SocketCloses(c) \/ MessageDisconnects(c) \/ ReleaseTimePasses(c)
       PROVE  NodeInv(x)'
  <2>1. /\ Becomes(c, node'[c])
        /\ Reads(node'[c], node[c].where, node[c].nRefCount, node[c].fInbound,
                 node[c].fNetworkNode, node[c].grantOutbound)
    BY <1>12, FlagWrites
  <2>2. node[c].where # "unused"
    <3>1. c \in vNodesDisconnected \/ Held(c) # 0
      BY <1>12 DEF SocketCloses, MessageDisconnects, ReleaseTimePasses, Held
    <3> QED BY <3>1 DEF RefInv, NodeInv, vNodesDisconnected
  <2>3. Held(x)' = Held(x) /\ OpenersKeep(x) /\ UNCHANGED <<found, overtaken>>
    BY <1>12, HeldSame
    DEF SocketCloses, MessageDisconnects, ReleaseTimePasses, OpenersKeep, OpenedBy, history
  <2>4. CASE x = c
    BY <1>1, <2>1, <2>2, <2>3, <2>4, NodeKept DEF Reads
  <2>5. CASE x # c
    <3>1. node'[x] = node[x]
      BY <2>1, <2>5 DEF Becomes
    <3> QED BY <1>1, <2>3, <3>1, NodeKept
  <2> QED BY <2>4, <2>5
<1> QED
  BY <1>2, <1>3, <1>4, <1>5, <1>6, <1>7, <1>8, <1>9, <1>10, <1>11, <1>12
  DEF Next, OpenerStep, SocketStep, MessageStep
-----------------------------------------------------------------------------

\* Two threads meet in a grant only if one of them found the node.
LEMMA NextClashed ==
    ASSUME ConnectionsTypeOK, PointersInv, SlotsInv, RefInv, clashed \subseteq found, [Next]_vars
    PROVE  clashed' \subseteq found'
<1> SUFFICES ASSUME NEW x \in clashed' PROVE x \in found'
  OBVIOUS
<1>1. \A c \in CNodes : NodeInv(c) /\ GrantInv(c) /\ node[c] \in CNode /\ Held(c) \in {0, 1, 2}
  BY HeldType DEF RefInv, SlotsInv, ConnectionsTypeOK
<1>2. CASE QuietNext
  BY <1>2, QuietSteps DEF Quiet
<1>3. ASSUME NEW c \in CNodes, NEW o \in Moving(c), c \notin found
      PROVE  /\ o \in OpenedBy(c) /\ opener[o].pc = "released"
             /\ ~node[c].grantOutbound /\ node[c].where # "deleted"
             /\ node[c].where = "vNodesDisconnected" => node[c].nRefCount > 0
  <2>1. o \in OpenedBy(c) /\ opener[o].pc \in {"releasing", "released"}
    BY DEF Moving, OpenedBy
  <2>2. opener[o].pc = "released" /\ ~node[c].grantOutbound /\ node[c].where # "deleted"
    BY <1>1, <1>3, <2>1 DEF NodeInv
  <2>3. node[c].where = "vNodesDisconnected" => node[c].nRefCount = 1 + Held(c)
    BY <1>1, <1>3, <2>1 DEF NodeInv
  <2>4. node[c].where = "vNodesDisconnected" => node[c].nRefCount > 0
    BY <1>1, <2>3
  <2> QED BY <2>1, <2>2, <2>4
<1>4. ASSUME NEW o \in Openers, MoveToTests(o)
      PROVE  x \in found'
  <2>1. PICK c \in CNodes : opener[o].pnode = c
    BY <1>4, OpenerWritesNode
  <2>2. /\ opener[o].pc = "connected" /\ found' = found
        /\ \/ x \in clashed
           \/ /\ x = c
              /\ \/ Moving(c) # {} \/ node[c].where = "deleted"
                 \/ socketHandler.pc = "releasing" /\ socketHandler.pnode = c
    BY <1>4, <2>1 DEF MoveToTests
  <2>3. SUFFICES ASSUME x = c, c \notin found PROVE FALSE
    BY <2>2
  <2>4. o \in OpenedBy(c) /\ ~node[c].grantOutbound /\ node[c].where # "deleted"
    BY <1>1, <2>1, <2>2, <2>3 DEF NodeInv, OpenedBy
  <2>5. Moving(c) = {}
    <3>1. SUFFICES ASSUME NEW p \in Moving(c) PROVE FALSE
      OBVIOUS
    <3>2. p = o
      BY <1>1, <1>3, <2>3, <2>4 DEF NodeInv
    <3> QED BY <1>3, <2>2, <2>3, <3>2
  <2>6. ~(socketHandler.pc = "releasing" /\ socketHandler.pnode = c)
    BY <1>1, <2>3, <2>4 DEF GrantInv
  <2> QED BY <2>2, <2>3, <2>4, <2>5, <2>6
<1>5. ASSUME NEW c \in CNodes, DisconnectNode(c)
      PROVE  x \in found'
  <2>1. found' = found
    BY <1>5 DEF DisconnectNode
  <2>2. clashed' = clashed \cup (IF node[c].grantOutbound /\ Moving(c) # {} THEN {c} ELSE {})
    BY <1>5 DEF DisconnectNode
  <2>3. x \in clashed \/ (x = c /\ node[c].grantOutbound /\ Moving(c) # {})
    BY <2>2
  <2> QED BY <1>3, <2>1, <2>3
<1>6. CASE DeleteNodes
  <2>0. found' = found /\ clashed' = clashed \cup {c \in Done : Moving(c) # {}}
    BY <1>6 DEF DeleteNodes, Done
  <2>1. x \in clashed \/ (x \in Done /\ Moving(x) # {})
    BY <2>0
  <2>2. CASE x \in Done /\ Moving(x) # {} /\ x \notin found
    <3>1. /\ x \in CNodes /\ node[x].where = "vNodesDisconnected"
          /\ node[x].nRefCount <= 0 /\ node[x].nRefCount \in Int
      BY <1>1, <1>6, <2>2, DeletesWrites DEF Done, CNode
    <3>2. node[x].nRefCount > 0
      BY <1>3, <2>2, <3>1
    <3> QED BY <3>1, <3>2
  <2> QED BY <2>0, <2>1, <2>2
<1>7. CASE DisconnectReleases \/ \E o \in Openers : MoveToReleases(o) \/ MoveToGrants(o)
  BY <1>7 DEF DisconnectReleases, MoveToReleases, MoveToGrants, history
<1> QED
  BY <1>2, <1>4, <1>5, <1>6, <1>7 DEF Next, OpenerStep, SocketStep, MessageStep, QuietNext
-----------------------------------------------------------------------------

\* The invariant that the step lemmas above preserve.
ConnInv ==
    /\ ConnectionsTypeOK /\ PointersInv
    /\ SlotsInv /\ RefInv
    /\ clashed \subseteq found

LEMMA InitConnInv ==
    ASSUME Init
    PROVE  ConnInv
<1>1. NoNode("unused") \in CNode /\ ~NoNode("unused").grantOutbound
      /\ NoNode("unused").where = "unused"
  BY DEF NoNode, CNode
<1>2. Idle \in OpenerState /\ Idle.pc = "idle" /\ Idle.pnode = None
  BY DEF Idle, OpenerState
<1>3. MaxOutbound \in Nat /\ None \notin CNodes
  BY ConnectionsAssumption
<1>4. /\ socketHandler \in SocketState /\ socketHandler.pc = "disconnect"
      /\ socketHandler.copy = {} /\ messageHandler.copy = {} /\ messageHandler.pc = "copy"
      /\ messageHandler \in [pc : {"copy", "process"}, copy : SUBSET CNodes]
  BY DEF Init, SocketState
<1>5. ConnectionsTypeOK
  BY <1>1, <1>2, <1>3, <1>4 DEF Init, ConnectionsTypeOK
<1>6. PointersInv
  BY <1>1, <1>2, <1>4 DEF Init, PointersInv
<1>7. SlotsInv
  <2>1. Opening = {} /\ Granted = {} /\ \A c \in CNodes : Moving(c) = {}
    BY <1>1, <1>2 DEF Init, Opening, Granted, Moving
  <2>2. semOutbound + Cardinality(Opening) + Cardinality(Granted) = MaxOutbound
    BY <1>3, <2>1, FS_EmptySet DEF Init
  <2> QED BY <1>4, <2>1, <2>2 DEF SlotsInv, GrantInv
<1>8. RefInv
  <2> SUFFICES ASSUME NEW c \in CNodes PROVE NodeInv(c)
    BY DEF RefInv
  <2>1. node[c] = NoNode("unused") /\ node[c].where = "unused"
    BY <1>1 DEF Init
  <2>2. Held(c) = 0
    BY <1>4 DEF Held
  <2>3. OpenedBy(c) = {}
    BY <1>2, <1>3 DEF Init, OpenedBy
  <2> QED BY <2>1, <2>2, <2>3 DEF NodeInv
<1> QED BY <1>5, <1>6, <1>7, <1>8 DEF ConnInv, Init

\* The counts of references and of slots are right in every reachable state of
\* the threads of net.cpp that open, serve and drop connections: those of the
\* references for every node that one thread opened, those of the slots until
\* two threads are in one grant at once (net.cpp:692, 1575), which needs a node
\* that a second thread found.
THEOREM ConnInvHolds == Spec => []ConnInv
<1>1. ConnInv /\ [Next]_vars => ConnInv'
  BY NextTypes, NextSlots, NextRefInv, NextClashed DEF ConnInv
<1> QED BY InitConnInv, <1>1, PTL DEF Spec

\* The slots of semOutbound are conserved by CSemaphoreGrant::MoveTo, Release
\* and the destructor (sync.h:173-203) as long as no two threads meet in one
\* grant, and two threads meet only in the grant of a node that the second of
\* them found in vNodes (net.cpp:481), for every number of threads, nodes and
\* slots.
THEOREM SlotsAlwaysConserved == Spec => []SlotsConserved
<1>1. ConnInv => SlotsConserved
  BY DEF ConnInv, SlotsInv, SlotsConserved, Opening, Granted
<1> QED BY ConnInvHolds, <1>1, PTL

\* The types of the state of the threads, the nodes and the semaphore.
THEOREM ConnectionsTypeCorrect == Spec => []ConnectionsTypeOK
<1>1. ConnInv => ConnectionsTypeOK
  BY DEF ConnInv
<1> QED BY ConnInvHolds, <1>1, PTL

\* No CNode that one thread opened is deleted under a handler that has it in
\* its copy of vNodes, or under that thread (ThreadSocketHandler, "Delete
\* disconnected nodes"), for every number of threads, nodes and slots.
THEOREM NeverDeletedInUse == Spec => []NotDeletedInUse
<1>1. ConnInv => NotDeletedInUse
  <2> SUFFICES ASSUME ConnInv, NEW c \in CNodes, node[c].where = "deleted", c \notin found
               PROVE  /\ c \notin socketHandler.copy \cup messageHandler.copy
                      /\ \A o \in Openers : opener[o].pnode # c
    BY DEF NotDeletedInUse
  <2>1. Held(c) = 0 /\ OpenedBy(c) = {}
    BY DEF ConnInv, RefInv, NodeInv
  <2>2. c \notin socketHandler.copy /\ c \notin messageHandler.copy
    BY <2>1 DEF Held
  <2>3. \A o \in Openers : opener[o].pnode # c
    BY <2>1 DEF OpenedBy
  <2> QED BY <2>2, <2>3
<1> QED BY ConnInvHolds, <1>1, PTL
-----------------------------------------------------------------------------
(***************************************************************************)
(* Relay.                                                                  *)
(***************************************************************************)

\* Writing one entry of a map from node and peer.
LEMMA AtWrites ==
    ASSUME NEW S, NEW f \in [Nodes -> [Nodes -> S]], NEW n \in Nodes, NEW p \in Nodes,
           NEW v \in S
    PROVE  /\ At(f, n, p, v) \in [Nodes -> [Nodes -> S]]
           /\ At(f, n, p, v)[n][p] = v
           /\ \A x, y \in Nodes : ~(x = n /\ y = p) => At(f, n, p, v)[x][y] = f[x][y]
BY DEF At

\* What a lost connection leaves at its two ends.
Both(f, n, p, v) == At(At(f, n, p, v), p, n, v)

(***************************************************************************)
(* What a connection carries.  Carried counts positions; that there is at  *)
(* most one is easier to keep when said without counting.                  *)
(***************************************************************************)
Bears(m, type, t) == m.type = type /\ t \in (IF type = "tx" THEN {m.tx} ELSE m.txs)
Has(s, type, t) == \E i \in DOMAIN s : Bears(s[i], type, t)
OnceIn(s, type, t) ==
    \A i, j \in DOMAIN s : Bears(s[i], type, t) /\ Bears(s[j], type, t) => i = j

\* Taking the first message off a connection.
LEMMA TailBears ==
    ASSUME NEW M, NEW s \in Seq(M), s # <<>>, NEW type, NEW t
    PROVE  /\ Has(Tail(s), type, t) => Has(s, type, t)
           /\ OnceIn(s, type, t) => OnceIn(Tail(s), type, t)
           /\ OnceIn(s, type, t) /\ Bears(Head(s), type, t) => ~Has(Tail(s), type, t)
           /\ Bears(Head(s), type, t) => Has(s, type, t)
<1>1. /\ Head(s) = s[1] /\ 1 \in DOMAIN s
      /\ \A i \in DOMAIN Tail(s) : i \in Nat \ {0} /\ i + 1 \in DOMAIN s /\ Tail(s)[i] = s[i + 1]
  OBVIOUS
<1> QED BY <1>1 DEF Has, OnceIn

\* Putting messages at its end.
LEMMA ConcatBears ==
    ASSUME NEW M, NEW s \in Seq(M), NEW u \in Seq(M), NEW type, NEW t
    PROVE  /\ Has(s \o u, type, t) => Has(s, type, t) \/ Has(u, type, t)
           /\ OnceIn(s, type, t) /\ OnceIn(u, type, t) /\ ~(Has(s, type, t) /\ Has(u, type, t))
                 => OnceIn(s \o u, type, t)
<1>1. \A i \in DOMAIN (s \o u) :
         \/ i \in DOMAIN s /\ (s \o u)[i] = s[i]
         \/ i - Len(s) \in DOMAIN u /\ (s \o u)[i] = u[i - Len(s)] /\ i \in Int
  OBVIOUS
<1>2. Len(s) \in Nat
  OBVIOUS
<1>3. Has(s \o u, type, t) => Has(s, type, t) \/ Has(u, type, t)
  BY <1>1 DEF Has
<1>4. ASSUME OnceIn(s, type, t), OnceIn(u, type, t), ~(Has(s, type, t) /\ Has(u, type, t)),
             NEW i \in DOMAIN (s \o u), NEW j \in DOMAIN (s \o u),
             Bears((s \o u)[i], type, t), Bears((s \o u)[j], type, t)
      PROVE  i = j
  <2>1. CASE i \in DOMAIN s /\ (s \o u)[i] = s[i]
    BY <1>1, <1>4, <2>1 DEF Has, OnceIn
  <2>2. CASE i - Len(s) \in DOMAIN u /\ (s \o u)[i] = u[i - Len(s)] /\ i \in Int
    <3>1. ~(j \in DOMAIN s /\ (s \o u)[j] = s[j])
      BY <1>4, <2>2 DEF Has
    <3>2. j - Len(s) \in DOMAIN u /\ (s \o u)[j] = u[j - Len(s)] /\ j \in Int
      BY <1>1, <3>1
    <3>3. i - Len(s) = j - Len(s)
      BY <1>4, <2>2, <3>2 DEF OnceIn
    <3> QED BY <1>2, <2>2, <3>2, <3>3
  <2> QED BY <1>1, <2>1, <2>2
<1> QED BY <1>3, <1>4 DEF OnceIn

\* The messages of SendMessages.
LEMMA SentBears ==
    ASSUME NEW S \in SUBSET Txs, NEW type, NEW t
    PROVE  /\ InvMessage(S) \in Seq(Message) /\ GetDataMessage(S) \in Seq(Message)
           /\ Has(InvMessage(S), type, t) => type = "inv" /\ t \in S
           /\ Has(GetDataMessage(S), type, t) => type = "getdata" /\ t \in S
           /\ OnceIn(InvMessage(S), type, t) /\ OnceIn(GetDataMessage(S), type, t)
<1> DEFINE I == [type |-> "inv", txs |-> S]
           G == [type |-> "getdata", txs |-> S]
<1>1. I \in Message /\ G \in Message
  BY DEF Message
<1>2. /\ I.type = "inv" /\ I.txs = S /\ G.type = "getdata" /\ G.txs = S
  OBVIOUS
<1>3. /\ InvMessage(S) = IF S = {} THEN <<>> ELSE <<I>>
      /\ GetDataMessage(S) = IF S = {} THEN <<>> ELSE <<G>>
  BY DEF InvMessage, GetDataMessage
<1> HIDE DEF I, G
<1>4. /\ DOMAIN <<I>> = {1} /\ <<I>>[1] = I /\ DOMAIN <<G>> = {1} /\ <<G>>[1] = G
      /\ DOMAIN <<>> = {}
  OBVIOUS
<1>5. InvMessage(S) \in Seq(Message) /\ GetDataMessage(S) \in Seq(Message)
  BY <1>1, <1>3
<1>6. OnceIn(InvMessage(S), type, t) /\ OnceIn(GetDataMessage(S), type, t)
  BY <1>3, <1>4 DEF OnceIn
<1>7. Has(InvMessage(S), type, t) => Bears(I, type, t)
  BY <1>3, <1>4 DEF Has
<1>8. Has(GetDataMessage(S), type, t) => Bears(G, type, t)
  BY <1>3, <1>4 DEF Has
<1>9. /\ Bears(I, type, t) => type = "inv" /\ t \in S
      /\ Bears(G, type, t) => type = "getdata" /\ t \in S
  BY <1>2 DEF Bears
<1> QED BY <1>5, <1>6, <1>7, <1>8, <1>9

\* The tx messages that answer one getdata.
LEMMA AnswerBears ==
    ASSUME NEW S \in SUBSET Txs, NEW order \in [1 .. Cardinality(S) -> S], 
           \A i, j \in DOMAIN order : i < j => order[i] # order[j], NEW type, NEW t
    PROVE  LET u == [i \in DOMAIN order |-> [type |-> "tx", tx |-> order[i]]]
           IN  /\ u \in Seq(Message)
               /\ Has(u, type, t) => type = "tx" /\ t \in S
               /\ OnceIn(u, type, t)
<1> DEFINE tx(x) == [type |-> "tx", tx |-> x]
           u == [i \in DOMAIN order |-> tx(order[i])]
           c == Cardinality(S)
<1>1. c \in Nat
  BY FS_Subset, FS_CardinalityType, RelayAssumption DEF RelayAssumption
<1> HIDE DEF c
<1>2. DOMAIN order = 1 .. c /\ DOMAIN u = 1 .. c
  BY DEF c
<1>3. \A x \in Txs : tx(x) \in Message /\ tx(x).type = "tx" /\ tx(x).tx = x
  BY DEF Message
<1>4. \A i \in 1 .. c : u[i] \in Message /\ u[i].type = "tx" /\ u[i].tx = order[i] /\ order[i] \in S
  <2> HIDE DEF tx
  <2>1. \A i \in 1 .. c : order[i] \in S /\ u[i] = tx(order[i])
    BY DEF c
  <2> QED BY <1>3, <2>1
<1>5. u \in [1 .. c -> Message]
  BY <1>2, <1>4
<1> HIDE DEF u
<1>6. u \in Seq(Message)
  BY <1>1, <1>5
<1>7. \A i \in 1 .. c : Bears(u[i], type, t) => type = "tx" /\ t = order[i]
  BY <1>4 DEF Bears
<1>8. Has(u, type, t) => type = "tx" /\ t \in S
  BY <1>2, <1>4, <1>7 DEF Has
<1>9. \A i, j \in 1 .. c : order[i] = order[j] => i = j
  BY <1>1, <1>2
<1>10. OnceIn(u, type, t)
  BY <1>2, <1>7, <1>9 DEF OnceIn
<1> QED BY <1>6, <1>8, <1>10 DEF u, tx

-----------------------------------------------------------------------------
(***************************************************************************)
(* The invariant.                                                          *)
(***************************************************************************)

\* Nobody is connected with itself.
LinkInv == \A n \in Nodes : {n, n} \notin link /\ chan[n][n] = <<>>

Asks(S, t) == {e \in S : e[2] = t}

\* The stages of t on its way from n to p: announced, about to be asked for,
\* asked for, sent.
Announced(n, p, t) == Has(chan[n][p], "inv", t)
ToAsk(n, p, t) == Asks(askFor[p][n], t) # {}
AskedFor(n, p, t) == Has(chan[p][n], "getdata", t)
Sent(n, p, t) == Has(chan[n][p], "tx", t)
UnderWay(n, p, t) ==
    Announced(n, p, t) \/ ToAsk(n, p, t) \/ AskedFor(n, p, t) \/ Sent(n, p, t)

\* It is at one stage only, once, and n knows that it told p.
OneStage(n, p, t) ==
    /\ OnceIn(chan[n][p], "inv", t)
    /\ \A e, f \in Asks(askFor[p][n], t) : e = f
    /\ OnceIn(chan[p][n], "getdata", t)
    /\ OnceIn(chan[n][p], "tx", t)
    /\ Announced(n, p, t) => ~ToAsk(n, p, t) /\ ~AskedFor(n, p, t) /\ ~Sent(n, p, t)
    /\ ToAsk(n, p, t) => ~AskedFor(n, p, t) /\ ~Sent(n, p, t)
    /\ AskedFor(n, p, t) => ~Sent(n, p, t)
    /\ UnderWay(n, p, t) => t \in known[n][p]

RelayInv ==
    /\ RelayTypeOK /\ LinkInv
    /\ \A n, p \in Nodes, t \in Txs : OneStage(n, p, t)

\* Stages that nothing is added to stay as they should be.
LEMMA OneStageStays ==
    ASSUME NEW n \in Nodes, NEW p \in Nodes, NEW t \in Txs, OneStage(n, p, t),
           UNCHANGED <<chan[n][p], chan[p][n], askFor[p][n]>>,
           known[n][p] \subseteq known'[n][p]
    PROVE  OneStage(n, p, t)'
BY DEF OneStage, UnderWay, Announced, ToAsk, AskedFor, Sent

-----------------------------------------------------------------------------
\* One lemma per action.

LEMMA InitRelayInv == RelayInit => RelayInv
<1> SUFFICES ASSUME RelayInit PROVE RelayInv
  OBVIOUS
<1>1. RelayTypeOK
  <2>1. link \in SUBSET SUBSET Nodes
    <3> SUFFICES ASSUME NEW l \in FirstLinks PROVE l \subseteq Nodes
      BY DEF RelayInit
    <3> QED BY RelayAssumption DEF RelayAssumption
  <2>2. <<>> \in Seq(Message) /\ Gap \in Nat /\ MaxDrops \in Nat
    BY RelayAssumption DEF RelayAssumption
  <2> QED BY <2>1, <2>2 DEF RelayInit, RelayTypeOK
<1>2. LinkInv
  <2> SUFFICES ASSUME NEW n \in Nodes PROVE {n, n} \notin FirstLinks
    BY DEF LinkInv, RelayInit
  <2> QED BY RelayAssumption DEF RelayAssumption
<1>3. ASSUME NEW n \in Nodes, NEW p \in Nodes, NEW t \in Txs
      PROVE  OneStage(n, p, t)
  <2>1. chan[n][p] = <<>> /\ chan[p][n] = <<>> /\ askFor[p][n] = {} /\ DOMAIN <<>> = {}
    BY DEF RelayInit
  <2> QED BY <2>1 DEF OneStage, UnderWay, Announced, ToAsk, AskedFor, Sent, OnceIn, Has, Asks
<1> QED BY <1>1, <1>2, <1>3 DEF RelayInv

LEMMA RelayWalletTransactionInv ==
    ASSUME RelayInv, NEW n \in Nodes, NEW t \in Txs, RelayWalletTransaction(n, t)
    PROVE  RelayInv'
<1>1. RelayTypeOK'
  BY DEF RelayWalletTransaction, RelayMessage, RelayInv, RelayTypeOK
<1>2. UNCHANGED <<chan, askFor, known, link>>
  BY DEF RelayWalletTransaction
<1> QED BY <1>1, <1>2, OneStageStays DEF RelayInv, LinkInv

LEMMA TickInv ==
    ASSUME RelayInv, Tick
    PROVE  RelayInv'
<1>1. RelayTypeOK'
  <2>1. Gap \in Nat
    BY RelayAssumption DEF RelayAssumption
  <2>2. asked' \in [Nodes -> [Txs -> Int]]
    BY <2>1 DEF Tick, Larger, RelayInv, RelayTypeOK
  <2>3. askFor' \in [Nodes -> [Nodes -> SUBSET (Int \X Txs)]]
    <3>1. ASSUME NEW n \in Nodes, NEW p \in Nodes, NEW e \in askFor[n][p]
          PROVE  <<Larger(e[1] - 1, 0), e[2]>> \in Int \X Txs
      <4>1. e \in Int \X Txs
        BY DEF RelayInv, RelayTypeOK
      <4> QED BY <4>1 DEF Larger
    <3> QED BY <3>1 DEF Tick
  <2> QED BY <2>2, <2>3 DEF Tick, RelayInv, RelayTypeOK
<1>2. UNCHANGED <<chan, known, link>>
  BY DEF Tick
<1>3. ASSUME NEW n \in Nodes, NEW p \in Nodes, NEW t \in Txs
      PROVE  OneStage(n, p, t)'
  <2> DEFINE later(e) == <<Larger(e[1] - 1, 0), e[2]>>
  <2>1. askFor'[p][n] = {later(e) : e \in askFor[p][n]}
    BY DEF Tick
  <2>2. \A e : later(e)[2] = e[2]
    OBVIOUS
  <2> HIDE DEF later
  <2>3. Asks(askFor'[p][n], t) = {later(e) : e \in Asks(askFor[p][n], t)}
    BY <2>1, <2>2 DEF Asks
  <2>4. ToAsk(n, p, t)' <=> ToAsk(n, p, t)
    BY <2>3 DEF ToAsk
  <2>5. OneStage(n, p, t)
    BY DEF RelayInv
  <2>6. \A e, f \in Asks(askFor[p][n], t)' : e = f
    BY <2>3, <2>5 DEF OneStage
  <2> QED BY <1>2, <2>4, <2>5, <2>6 DEF OneStage, UnderWay, Announced, AskedFor, Sent
<1> QED BY <1>1, <1>2, <1>3 DEF RelayInv, LinkInv

LEMMA ReconnectInv ==
    ASSUME RelayInv, NEW n \in Nodes, NEW p \in Nodes, Reconnect(n, p)
    PROVE  RelayInv'
<1>1. UNCHANGED <<chan, askFor, known>>
  BY DEF Reconnect, cnodes
<1>2. RelayTypeOK'
  BY DEF Reconnect, cnodes, RelayInv, RelayTypeOK
<1>3. LinkInv'
  BY <1>1 DEF Reconnect, RelayInv, LinkInv
<1> QED BY <1>1, <1>2, <1>3, OneStageStays DEF RelayInv

LEMMA DisconnectInv ==
    ASSUME RelayInv, NEW n \in Nodes, NEW p \in Nodes, Disconnect(n, p)
    PROVE  RelayInv'
<1>2. /\ known \in [Nodes -> [Nodes -> SUBSET Txs]] /\ toSend \in [Nodes -> [Nodes -> SUBSET Txs]]
      /\ askFor \in [Nodes -> [Nodes -> SUBSET (Int \X Txs)]]
      /\ chan \in [Nodes -> [Nodes -> Seq(Message)]] /\ <<>> \in Seq(Message)
  BY DEF RelayInv, RelayTypeOK
<1>3. /\ known' = Both(known, n, p, {}) /\ toSend' = Both(toSend, n, p, {})
      /\ askFor' = Both(askFor, n, p, {}) /\ chan' = Both(chan, n, p, <<>>)
      /\ link' \subseteq link
  BY DEF Disconnect, Both
<1>4. {} \in SUBSET Txs /\ {} \in SUBSET (Int \X Txs)
  OBVIOUS
<1>1. /\ known' \in [Nodes -> [Nodes -> SUBSET Txs]]
      /\ \A x, y \in Nodes : ~(x = n /\ y = p) /\ ~(x = p /\ y = n) => known'[x][y] = known[x][y]
  <2> DEFINE S == SUBSET Txs
             g == Both(known, n, p, {})
  <2>1. known \in [Nodes -> [Nodes -> S]] /\ {} \in S
    BY <1>2, <1>4
  <2> HIDE DEF S
  <2>2. /\ g \in [Nodes -> [Nodes -> S]]
        /\ g[n][p] = {} /\ g[p][n] = {}
        /\ \A x, y \in Nodes : ~(x = n /\ y = p) /\ ~(x = p /\ y = n) => g[x][y] = known[x][y]
    BY <2>1 DEF Both, At
  <2> QED BY <1>3, <2>2 DEF S
<1>5. toSend' \in [Nodes -> [Nodes -> SUBSET Txs]]
  BY <1>2, <1>3, <1>4 DEF Both, At
<1>6. /\ askFor' \in [Nodes -> [Nodes -> SUBSET (Int \X Txs)]]
      /\ askFor'[n][p] = {} /\ askFor'[p][n] = {}
      /\ \A x, y \in Nodes : ~(x = n /\ y = p) /\ ~(x = p /\ y = n) => askFor'[x][y] = askFor[x][y]
  <2> DEFINE S == SUBSET (Int \X Txs)
             g == Both(askFor, n, p, {})
  <2>1. askFor \in [Nodes -> [Nodes -> S]] /\ {} \in S
    BY <1>2, <1>4
  <2> HIDE DEF S
  <2>2. /\ g \in [Nodes -> [Nodes -> S]]
        /\ g[n][p] = {} /\ g[p][n] = {}
        /\ \A x, y \in Nodes : ~(x = n /\ y = p) /\ ~(x = p /\ y = n) => g[x][y] = askFor[x][y]
    BY <2>1 DEF Both, At
  <2> QED BY <1>3, <2>2 DEF S
<1>7. /\ chan' \in [Nodes -> [Nodes -> Seq(Message)]]
      /\ chan'[n][p] = <<>> /\ chan'[p][n] = <<>>
      /\ \A x, y \in Nodes : ~(x = n /\ y = p) /\ ~(x = p /\ y = n) => chan'[x][y] = chan[x][y]
  <2> DEFINE S == Seq(Message)
             g == Both(chan, n, p, <<>>)
  <2>1. chan \in [Nodes -> [Nodes -> S]] /\ <<>> \in S
    BY <1>2, <1>4
  <2> HIDE DEF S
  <2>2. /\ g \in [Nodes -> [Nodes -> S]]
        /\ g[n][p] = <<>> /\ g[p][n] = <<>>
        /\ \A x, y \in Nodes : ~(x = n /\ y = p) /\ ~(x = p /\ y = n) => g[x][y] = chan[x][y]
    BY <2>1 DEF Both, At
  <2> QED BY <1>3, <2>2 DEF S
<1>8. RelayTypeOK'
  <2>1. drops' \in 0 .. MaxDrops
    BY RelayAssumption DEF RelayAssumption, Disconnect, RelayInv, RelayTypeOK
  <2> QED BY <1>1, <1>3, <1>5, <1>6, <1>7, <2>1 DEF Disconnect, RelayInv, RelayTypeOK
<1>9. LinkInv'
  BY <1>3, <1>7 DEF RelayInv, LinkInv
<1>10. ASSUME NEW x \in Nodes, NEW y \in Nodes, NEW t \in Txs
       PROVE  OneStage(x, y, t)'
  <2>1. CASE {x, y} = {n, p}
    <3>1. (x = n /\ y = p) \/ (x = p /\ y = n)
      BY <2>1
    <3>2. chan'[x][y] = <<>> /\ chan'[y][x] = <<>> /\ askFor'[y][x] = {} /\ DOMAIN <<>> = {}
      BY <1>6, <1>7, <3>1
    <3> QED BY <3>2 DEF OneStage, UnderWay, Announced, ToAsk, AskedFor, Sent, OnceIn, Has, Asks
  <2>2. CASE {x, y} # {n, p}
    <3>1. ~(x = n /\ y = p) /\ ~(x = p /\ y = n)
      BY <2>2
    <3> QED BY <1>1, <1>6, <1>7, <3>1, OneStageStays DEF RelayInv
  <2> QED BY <2>1, <2>2
<1> QED BY <1>8, <1>9, <1>10 DEF RelayInv

\* What a message is about.
LEMMA MessageTypes ==
    ASSUME NEW m \in Message
    PROVE  /\ m.type \in {"inv", "getdata"} => m.txs \in SUBSET Txs
           /\ m.type = "tx" => m.tx \in Txs
BY DEF Message

\* Stages that only lose what is in them stay as they should be.
LEMMA OneStageShrinks ==
    ASSUME NEW n \in Nodes, NEW p \in Nodes, NEW t \in Txs, OneStage(n, p, t),
           \A type \in {"inv", "tx"} :
              /\ Has(chan'[n][p], type, t) => Has(chan[n][p], type, t)
              /\ OnceIn(chan[n][p], type, t) => OnceIn(chan'[n][p], type, t),
           Has(chan'[p][n], "getdata", t) => Has(chan[p][n], "getdata", t),
           OnceIn(chan[p][n], "getdata", t) => OnceIn(chan'[p][n], "getdata", t),
           askFor'[p][n] \subseteq askFor[p][n],
           known[n][p] \subseteq known'[n][p]
    PROVE  OneStage(n, p, t)'
<1>1. Asks(askFor'[p][n], t) \subseteq Asks(askFor[p][n], t)
  BY DEF Asks
<1> QED BY <1>1 DEF OneStage, UnderWay, Announced, ToAsk, AskedFor, Sent

LEMMA SendMessagesInv ==
    ASSUME RelayInv, NEW n \in Nodes, NEW p \in Nodes, NEW fSendTrickle \in BOOLEAN,
           SendMessages(n, p, fSendTrickle)
    PROVE  RelayInv'
<1> DEFINE unknown == toSend[n][p] \ known[n][p]
           wait == unknown \cap TrickleWait(n, fSendTrickle)
           inv == unknown \ wait
           get == {e[2] : e \in Due(n, p)} \ AlreadyHave(n)
           other(x, y) == ~(x = n /\ y = p)
<1>1. /\ known \in [Nodes -> [Nodes -> SUBSET Txs]] /\ toSend \in [Nodes -> [Nodes -> SUBSET Txs]]
      /\ askFor \in [Nodes -> [Nodes -> SUBSET (Int \X Txs)]]
      /\ chan \in [Nodes -> [Nodes -> Seq(Message)]]
      /\ asked \in [Nodes -> [Txs -> Int]]
  BY DEF RelayInv, RelayTypeOK
<1>2. n # p
  BY DEF SendMessages, Peers, RelayInv, LinkInv
<1>3. inv \in SUBSET Txs /\ wait \in SUBSET Txs /\ inv \cap known[n][p] = {}
  BY <1>1
<1>4. get \in SUBSET Txs /\ \A t \in get : \E e \in Due(n, p) : e[2] = t
  <2>1. \A e \in Due(n, p) : e \in Int \X Txs
    BY <1>1 DEF Due
  <2> QED BY <2>1
<1>5. /\ known' = At(known, n, p, known[n][p] \cup inv)
      /\ toSend' = At(toSend, n, p, wait)
      /\ asked' = [asked EXCEPT ![n] = [t \in Txs |-> IF t \in get THEN 0 ELSE @[t]]]
      /\ askFor' = At(askFor, n, p, askFor[n][p] \ Due(n, p))
      /\ chan' = At(chan, n, p, chan[n][p] \o InvMessage(inv) \o GetDataMessage(get))
      /\ UNCHANGED <<pool, orphans, link, drops>>
  BY DEF SendMessages, AddInventoryKnown
<1> HIDE DEF inv, wait, get
<1>6. /\ known' \in [Nodes -> [Nodes -> SUBSET Txs]]
      /\ known'[n][p] = known[n][p] \cup inv
      /\ \A x, y \in Nodes : other(x, y) => known'[x][y] = known[x][y]
  BY <1>1, <1>3, <1>5 DEF At
<1>7. toSend' \in [Nodes -> [Nodes -> SUBSET Txs]]
  BY <1>1, <1>3, <1>5 DEF At
<1>8. asked' \in [Nodes -> [Txs -> Int]]
  BY <1>1, <1>5
<1>9. /\ askFor' \in [Nodes -> [Nodes -> SUBSET (Int \X Txs)]]
      /\ askFor'[n][p] = askFor[n][p] \ Due(n, p)
      /\ \A x, y \in Nodes : other(x, y) => askFor'[x][y] = askFor[x][y]
  BY <1>1, <1>5 DEF At
<1>10. LET new == chan[n][p] \o InvMessage(inv) \o GetDataMessage(get)
       IN  /\ new \in Seq(Message)
           /\ chan' \in [Nodes -> [Nodes -> Seq(Message)]]
           /\ chan'[n][p] = new
           /\ \A x, y \in Nodes : other(x, y) => chan'[x][y] = chan[x][y]
  <2> DEFINE M == Seq(Message)
             new == chan[n][p] \o InvMessage(inv) \o GetDataMessage(get)
  <2>1. InvMessage(inv) \in Seq(Message) /\ GetDataMessage(get) \in Seq(Message)
    BY <1>3, <1>4, SentBears
  <2>2. new \in M /\ chan \in [Nodes -> [Nodes -> M]]
    BY <1>1, <2>1
  <2> HIDE DEF M, new
  <2>3. /\ At(chan, n, p, new) \in [Nodes -> [Nodes -> M]]
        /\ At(chan, n, p, new)[n][p] = new
        /\ \A x, y \in Nodes : other(x, y) => At(chan, n, p, new)[x][y] = chan[x][y]
    BY <2>2 DEF At
  <2>4. chan' = At(chan, n, p, new)
    BY <1>5 DEF new
  <2> QED BY <2>2, <2>3, <2>4 DEF M, new
<1>11. RelayTypeOK'
  BY <1>5, <1>6, <1>7, <1>8, <1>9, <1>10 DEF RelayInv, RelayTypeOK
<1>12. LinkInv'
  BY <1>2, <1>5, <1>10 DEF RelayInv, LinkInv
<1>13. ASSUME NEW type, NEW t
       PROVE  LET has(s) == Has(s, type, t)
                  once(s) == OnceIn(s, type, t)
                  joins == (type = "inv" /\ t \in inv) \/ (type = "getdata" /\ t \in get)
              IN  /\ has(chan'[n][p]) => has(chan[n][p]) \/ joins
                  /\ once(chan[n][p]) /\ ~(has(chan[n][p]) /\ joins) => once(chan'[n][p])
  <2> DEFINE I == InvMessage(inv)
             G == GetDataMessage(get)
             both == chan[n][p] \o I
  <2>1. /\ I \in Seq(Message) /\ G \in Seq(Message)
        /\ Has(I, type, t) => type = "inv" /\ t \in inv
        /\ Has(G, type, t) => type = "getdata" /\ t \in get
        /\ OnceIn(I, type, t) /\ OnceIn(G, type, t)
    BY <1>3, <1>4, SentBears
  <2>2. chan[n][p] \in Seq(Message) /\ chan'[n][p] = both \o G
    BY <1>1, <1>10
  <2> HIDE DEF I, G
  <2>3. both \in Seq(Message)
    BY <2>1, <2>2
  <2>4. /\ Has(both, type, t) => Has(chan[n][p], type, t) \/ Has(I, type, t)
        /\ OnceIn(chan[n][p], type, t) /\ OnceIn(I, type, t)
           /\ ~(Has(chan[n][p], type, t) /\ Has(I, type, t)) => OnceIn(both, type, t)
    BY <2>1, <2>2, ConcatBears
  <2> HIDE DEF both
  <2>5. /\ Has(both \o G, type, t) => Has(both, type, t) \/ Has(G, type, t)
        /\ OnceIn(both, type, t) /\ OnceIn(G, type, t)
           /\ ~(Has(both, type, t) /\ Has(G, type, t)) => OnceIn(both \o G, type, t)
    BY <2>1, <2>3, ConcatBears
  <2> QED BY <2>1, <2>2, <2>4, <2>5
<1>14. ASSUME NEW x \in Nodes, NEW y \in Nodes, NEW t \in Txs
       PROVE  OneStage(x, y, t)'
  <2>1. OneStage(x, y, t)
    BY DEF RelayInv
  <2>2. CASE x = n /\ y = p
    <3>1. chan'[p][n] = chan[p][n] /\ askFor'[p][n] = askFor[p][n]
      BY <1>2, <1>9, <1>10
    <3>2. t \in inv => ~UnderWay(n, p, t)
      BY <1>3, <2>1, <2>2 DEF OneStage
    <3>3. known'[n][p] = known[n][p] \cup inv
      BY <1>6
    <3>4. /\ Has(chan'[n][p], "inv", t) => Has(chan[n][p], "inv", t) \/ t \in inv
          /\ OnceIn(chan'[n][p], "inv", t)
      BY <1>13, <2>1, <2>2, <3>2 DEF OneStage, UnderWay, Announced
    <3>5. /\ Has(chan'[n][p], "tx", t) => Has(chan[n][p], "tx", t)
          /\ OnceIn(chan'[n][p], "tx", t)
      BY <1>13, <2>1, <2>2 DEF OneStage
    <3> QED BY <2>1, <2>2, <3>1, <3>2, <3>3, <3>4, <3>5
            DEF OneStage, UnderWay, Announced, ToAsk, AskedFor, Sent
  <2>3. CASE x = p /\ y = n
    <3>1. chan'[p][n] = chan[p][n] /\ known'[p][n] = known[p][n]
      BY <1>2, <1>6, <1>10
    <3>2. Asks(askFor'[n][p], t) \subseteq Asks(askFor[n][p], t)
      BY <1>9 DEF Asks
    <3>3. t \in get => ToAsk(p, n, t) /\ Asks(askFor'[n][p], t) = {}
      <4> SUFFICES ASSUME t \in get
                   PROVE  ToAsk(p, n, t) /\ Asks(askFor'[n][p], t) = {}
        OBVIOUS
      <4>1. PICK e \in Due(n, p) : e[2] = t
        BY <1>4
      <4>2. e \in Asks(askFor[n][p], t)
        BY <4>1 DEF Asks, Due
      <4>3. e \notin Asks(askFor'[n][p], t)
        BY <1>9, <4>1 DEF Asks
      <4>4. \A f \in Asks(askFor[n][p], t) : f = e
        BY <2>1, <2>3, <4>2 DEF OneStage
      <4> QED BY <3>2, <4>2, <4>3, <4>4 DEF ToAsk
    <3>4. t \in get => ~Announced(p, n, t) /\ ~AskedFor(p, n, t) /\ ~Sent(p, n, t)
      BY <2>1, <2>3, <3>3 DEF OneStage
    <3>5. /\ Has(chan'[n][p], "getdata", t) => Has(chan[n][p], "getdata", t) \/ t \in get
          /\ OnceIn(chan'[n][p], "getdata", t)
      BY <1>13, <2>1, <2>3, <3>4 DEF OneStage, AskedFor
    <3> QED BY <2>1, <2>3, <3>1, <3>2, <3>3, <3>4, <3>5
            DEF OneStage, UnderWay, Announced, ToAsk, AskedFor, Sent
  <2>4. CASE ~(x = n /\ y = p) /\ ~(x = p /\ y = n)
    BY <1>6, <1>9, <1>10, <2>1, <2>4, OneStageStays
  <2> QED BY <2>2, <2>3, <2>4
<1> QED BY <1>11, <1>12, <1>14 DEF RelayInv

\* Taking the next message from p off its connection, which is not that of n
\* with itself.
LEMMA ConsumedWrites ==
    ASSUME RelayInv, NEW n \in Nodes, NEW p \in Nodes, chan[p][n] # <<>>
    PROVE  /\ n # p
           /\ chan[p][n] \in Seq(Message) /\ Head(chan[p][n]) \in Message
           /\ Consumed(p, n) \in [Nodes -> [Nodes -> Seq(Message)]]
           /\ Consumed(p, n)[p][n] = Tail(chan[p][n])
           /\ \A x, y \in Nodes :
                 ~(x = p /\ y = n) => Consumed(p, n)[x][y] = chan[x][y]
<1> DEFINE M == Seq(Message)
           rest == Tail(chan[p][n])
<1>1. n # p
  BY DEF RelayInv, LinkInv
<1>2. chan \in [Nodes -> [Nodes -> M]]
  BY DEF RelayInv, RelayTypeOK
<1>3. rest \in M /\ Head(chan[p][n]) \in Message
  BY <1>2
<1>4. chan[p][n] \in M
  BY <1>2
<1> HIDE DEF M, rest
<1>5. /\ At(chan, p, n, rest) \in [Nodes -> [Nodes -> M]]
      /\ At(chan, p, n, rest)[p][n] = rest
      /\ \A x, y \in Nodes : ~(x = p /\ y = n) => At(chan, p, n, rest)[x][y] = chan[x][y]
  BY <1>2, <1>3 DEF At
<1> QED BY <1>1, <1>3, <1>4, <1>5 DEF Consumed, M, rest

LEMMA ProcessTxInv ==
    ASSUME RelayInv, NEW n \in Nodes, NEW p \in Nodes, ProcessTx(n, p)
    PROVE  RelayInv'
<1> DEFINE t == Head(chan[p][n]).tx
           accepted == IF t \in pool[n] \/ ~(Needs[t] \subseteq pool[n]) THEN {}
                       ELSE {t} \cup Released(n, pool[n] \cup {t})
           held == IF t \in pool[n] THEN {} ELSE {t}
           kn == At(known, n, p, known[n][p] \cup {t})
<1>1. /\ known \in [Nodes -> [Nodes -> SUBSET Txs]] /\ toSend \in [Nodes -> [Nodes -> SUBSET Txs]]
      /\ pool \in [Nodes -> SUBSET Txs] /\ orphans \in [Nodes -> SUBSET Txs]
      /\ asked \in [Nodes -> [Txs -> Int]]
  BY DEF RelayInv, RelayTypeOK
<1>2. chan[p][n] # <<>> /\ Head(chan[p][n]).type = "tx"
  BY DEF ProcessTx, NextIs
<1>3. t \in Txs
  BY <1>2, ConsumedWrites, MessageTypes
<1>4. accepted \in SUBSET Txs
  BY <1>1, <1>3 DEF Released
<1>5. /\ known' = kn
      /\ pool' = [pool EXCEPT ![n] = @ \cup accepted]
      /\ toSend' = RelayMessage(n, accepted, kn)
      /\ asked' = [asked EXCEPT ![n] = [x \in Txs |-> IF x \in accepted THEN -Gap ELSE @[x]]]
      /\ orphans' = [orphans EXCEPT ![n] = (@ \cup held) \ accepted]
      /\ chan' = Consumed(p, n)
      /\ UNCHANGED <<askFor, link, drops>>
  BY DEF ProcessTx, AddInventoryKnown
<1>6. held \in SUBSET Txs
  BY <1>3
<1> HIDE DEF t, accepted, held
<1>7. /\ kn \in [Nodes -> [Nodes -> SUBSET Txs]]
      /\ \A x, y \in Nodes : known[x][y] \subseteq kn[x][y]
  BY <1>1, <1>3 DEF At
<1>8. toSend' \in [Nodes -> [Nodes -> SUBSET Txs]]
  BY <1>1, <1>4, <1>5 DEF RelayMessage
<1>9. pool' \in [Nodes -> SUBSET Txs] /\ orphans' \in [Nodes -> SUBSET Txs]
  BY <1>1, <1>4, <1>5, <1>6
<1>10. asked' \in [Nodes -> [Txs -> Int]]
  BY <1>1, <1>5, RelayAssumption DEF RelayAssumption
<1>11. /\ n # p
       /\ chan' \in [Nodes -> [Nodes -> Seq(Message)]]
       /\ chan'[p][n] = Tail(chan[p][n])
       /\ \A x, y \in Nodes : ~(x = p /\ y = n) => chan'[x][y] = chan[x][y]
  BY <1>2, <1>5, ConsumedWrites
<1> HIDE DEF kn
<1>12. RelayTypeOK'
  BY <1>5, <1>7, <1>8, <1>9, <1>10, <1>11 DEF RelayInv, RelayTypeOK
<1>13. LinkInv'
  BY <1>5, <1>11 DEF RelayInv, LinkInv
<1>14. ASSUME NEW x \in Nodes, NEW y \in Nodes, NEW type, NEW tx
       PROVE  /\ Has(chan'[x][y], type, tx) => Has(chan[x][y], type, tx)
              /\ OnceIn(chan[x][y], type, tx) => OnceIn(chan'[x][y], type, tx)
  <2>1. chan[p][n] \in Seq(Message)
    BY <1>2, ConsumedWrites
  <2>2. CASE x = p /\ y = n
    <3>1. chan'[x][y] = Tail(chan[p][n])
      BY <1>11, <2>2
    <3> QED BY <1>2, <2>1, <2>2, <3>1, TailBears
  <2>3. CASE ~(x = p /\ y = n)
    BY <1>11, <2>3
  <2> QED BY <2>2, <2>3
<1>15. ASSUME NEW x \in Nodes, NEW y \in Nodes, NEW tx \in Txs
       PROVE  OneStage(x, y, tx)'
  BY <1>5, <1>7, <1>14, OneStageShrinks DEF RelayInv
<1> QED BY <1>12, <1>13, <1>15 DEF RelayInv

LEMMA ProcessInvInv ==
    ASSUME RelayInv, NEW n \in Nodes, NEW p \in Nodes, ProcessInv(n, p)
    PROVE  RelayInv'
<1> DEFINE m == Head(chan[p][n])
           inv == m.txs
           S == inv \ AlreadyHave(n)
           other(x, y) == ~(x = n /\ y = p)
<1>1. /\ known \in [Nodes -> [Nodes -> SUBSET Txs]]
      /\ asked \in [Nodes -> [Txs -> Int]]
      /\ askFor \in [Nodes -> [Nodes -> SUBSET (Int \X Txs)]]
  BY DEF RelayInv, RelayTypeOK
<1>2. chan[p][n] # <<>> /\ m.type = "inv"
  BY DEF ProcessInv, NextIs
<1>3. inv \in SUBSET Txs
  BY <1>2, ConsumedWrites, MessageTypes
<1>4. S \in SUBSET inv
  OBVIOUS
<1>5. /\ known' = At(known, n, p, known[n][p] \cup inv)
      /\ asked' = [asked EXCEPT ![n] = [t \in Txs |-> IF t \in S THEN RequestTime(n, t) ELSE @[t]]]
      /\ askFor' = At(askFor, n, p, askFor[n][p] \cup {<<RequestTime(n, t), t>> : t \in S})
      /\ chan' = Consumed(p, n)
      /\ UNCHANGED <<pool, orphans, toSend, link, drops>>
  BY DEF ProcessInv, AddInventoryKnown, AskFor
<1>6. /\ n # p /\ chan[p][n] \in Seq(Message)
      /\ chan' \in [Nodes -> [Nodes -> Seq(Message)]]
      /\ chan'[p][n] = Tail(chan[p][n])
      /\ \A x, y \in Nodes : ~(x = p /\ y = n) => chan'[x][y] = chan[x][y]
  BY <1>2, <1>5, ConsumedWrites
<1>7. ASSUME NEW t
      PROVE  t \in inv => Bears(m, "inv", t)
  BY <1>2 DEF Bears
<1>8. \A t \in S : RequestTime(n, t) \in Int
  BY <1>1, <1>3, <1>4, RelayAssumption DEF RelayAssumption, RequestTime, Larger
<1> HIDE DEF inv, S
<1>9. /\ known' \in [Nodes -> [Nodes -> SUBSET Txs]]
      /\ \A x, y \in Nodes : known[x][y] \subseteq known'[x][y]
      /\ known'[p][n] = known[p][n]
  BY <1>1, <1>3, <1>5, <1>6 DEF At
<1>10. asked' \in [Nodes -> [Txs -> Int]]
  BY <1>1, <1>5, <1>8
<1>11. /\ askFor' \in [Nodes -> [Nodes -> SUBSET (Int \X Txs)]]
       /\ askFor'[n][p] = askFor[n][p] \cup {<<RequestTime(n, t), t>> : t \in S}
       /\ \A x, y \in Nodes : other(x, y) => askFor'[x][y] = askFor[x][y]
  <2> DEFINE new == {<<RequestTime(n, t), t>> : t \in S}
             Q == SUBSET (Int \X Txs)
  <2>1. new \in Q
    BY <1>3, <1>4, <1>8
  <2>2. askFor \in [Nodes -> [Nodes -> Q]] /\ askFor[n][p] \cup new \in Q
    BY <1>1, <2>1
  <2> HIDE DEF new, Q
  <2>3. /\ At(askFor, n, p, askFor[n][p] \cup new) \in [Nodes -> [Nodes -> Q]]
        /\ At(askFor, n, p, askFor[n][p] \cup new)[n][p] = askFor[n][p] \cup new
        /\ \A x, y \in Nodes :
              other(x, y) => At(askFor, n, p, askFor[n][p] \cup new)[x][y] = askFor[x][y]
    BY <2>2 DEF At
  <2>4. askFor' = At(askFor, n, p, askFor[n][p] \cup new)
    BY <1>5 DEF new
  <2> QED BY <2>3, <2>4 DEF new, Q
<1>12. RelayTypeOK'
  BY <1>5, <1>6, <1>9, <1>10, <1>11 DEF RelayInv, RelayTypeOK
<1>13. LinkInv'
  BY <1>5, <1>6 DEF RelayInv, LinkInv
<1>14. ASSUME NEW type, NEW t
       PROVE  /\ Has(chan'[p][n], type, t) => Has(chan[p][n], type, t)
              /\ OnceIn(chan[p][n], type, t) => OnceIn(chan'[p][n], type, t)
              /\ OnceIn(chan[p][n], type, t) /\ Bears(m, type, t) =>
                    Has(chan[p][n], type, t) /\ ~Has(chan'[p][n], type, t)
  BY <1>2, <1>6, TailBears
<1>15. ASSUME NEW x \in Nodes, NEW y \in Nodes, NEW t \in Txs
       PROVE  OneStage(x, y, t)'
  <2>1. OneStage(x, y, t)
    BY DEF RelayInv
  <2>2. CASE x = p /\ y = n
    <3> DEFINE e == <<RequestTime(n, t), t>>
    <3>1. Asks(askFor'[n][p], t) = Asks(askFor[n][p], t) \cup (IF t \in S THEN {e} ELSE {})
      <4>1. \A u : <<RequestTime(n, u), u>>[2] = u
        OBVIOUS
      <4> QED BY <1>11, <4>1 DEF Asks
    <3> HIDE DEF e
    <3>2. chan'[n][p] = chan[n][p]
      BY <1>6
    <3>3. t \in S => Announced(p, n, t) /\ ~Announced(p, n, t)'
      BY <1>4, <1>7, <1>14, <2>1, <2>2 DEF OneStage, Announced
    <3>4. t \in S => ~ToAsk(p, n, t) /\ ~AskedFor(p, n, t) /\ ~Sent(p, n, t)
                     /\ t \in known[p][n]
      BY <2>1, <2>2, <3>3 DEF OneStage, UnderWay
    <3>5. \A g, f \in Asks(askFor'[n][p], t) : g = f
      BY <2>1, <2>2, <3>1, <3>4 DEF OneStage, ToAsk
    <3>6. /\ Has(chan'[p][n], "inv", t) => Has(chan[p][n], "inv", t)
          /\ Has(chan'[p][n], "tx", t) => Has(chan[p][n], "tx", t)
          /\ OnceIn(chan'[p][n], "inv", t) /\ OnceIn(chan'[p][n], "tx", t)
      BY <1>14, <2>1, <2>2 DEF OneStage
    <3>7. CASE t \in S
      BY <1>9, <2>1, <2>2, <3>1, <3>2, <3>3, <3>4, <3>5, <3>6, <3>7
      DEF OneStage, UnderWay, Announced, ToAsk, AskedFor, Sent
    <3>8. CASE t \notin S
      <4>1. Asks(askFor'[n][p], t) = Asks(askFor[n][p], t)
        BY <3>1, <3>8
      <4> QED BY <1>9, <2>1, <2>2, <3>2, <3>6, <4>1
              DEF OneStage, UnderWay, Announced, ToAsk, AskedFor, Sent
    <3> QED BY <3>7, <3>8
  <2>3. CASE ~(x = p /\ y = n)
    <3>1. chan'[x][y] = chan[x][y] /\ askFor'[y][x] = askFor[y][x]
      BY <1>6, <1>11, <2>3
    <3>2. /\ Has(chan'[y][x], "getdata", t) => Has(chan[y][x], "getdata", t)
          /\ OnceIn(chan[y][x], "getdata", t) => OnceIn(chan'[y][x], "getdata", t)
      <4>1. CASE y = p /\ x = n
        BY <1>14, <4>1
      <4>2. CASE ~(y = p /\ x = n)
        BY <1>6, <4>2
      <4> QED BY <4>1, <4>2
    <3>3. known[x][y] \subseteq known'[x][y]
      BY <1>9
    <3> QED BY <2>1, <3>1, <3>2, <3>3, OneStageShrinks
  <2> QED BY <2>2, <2>3
<1> QED BY <1>12, <1>13, <1>15 DEF RelayInv

LEMMA ProcessGetDataInv ==
    ASSUME RelayInv, NEW n \in Nodes, NEW p \in Nodes, ProcessGetData(n, p)
    PROVE  RelayInv'
<1> DEFINE m == Head(chan[p][n])
           S == m.txs \cap pool[n]
           answer(o) == [i \in DOMAIN o |-> [type |-> "tx", tx |-> o[i]]]
<1>1. chan[p][n] # <<>> /\ m.type = "getdata"
  BY DEF ProcessGetData, NextIs
<1>2. S \in SUBSET Txs
  BY <1>1, ConsumedWrites, MessageTypes
<1>3. PICK order \in [1 .. Cardinality(S) -> S] :
         /\ \A i, j \in DOMAIN order : i < j => order[i] # order[j]
         /\ chan' = At(Consumed(p, n), n, p, chan[n][p] \o answer(order))
  BY DEF ProcessGetData
<1> DEFINE u == answer(order)
<1>4. UNCHANGED <<pool, orphans, asked, known, toSend, askFor, link, drops>>
  BY DEF ProcessGetData
<1>5. ASSUME NEW type, NEW t
      PROVE  /\ u \in Seq(Message)
             /\ Has(u, type, t) => type = "tx" /\ t \in S
             /\ OnceIn(u, type, t)
  BY <1>2, <1>3, AnswerBears
<1>6. \A t \in S : Bears(m, "getdata", t)
  BY <1>1 DEF Bears
<1> HIDE DEF S, answer, u
<1>7. /\ n # p
      /\ chan[p][n] \in Seq(Message) /\ chan[n][p] \in Seq(Message)
      /\ chan[n][p] \o u \in Seq(Message)
  <2>1. chan[n][p] \in Seq(Message)
    BY DEF RelayInv, RelayTypeOK
  <2>2. u \in Seq(Message)
    BY <1>5
  <2>3. n # p /\ chan[p][n] \in Seq(Message)
    BY <1>1, ConsumedWrites
  <2> QED BY <2>1, <2>2, <2>3
<1>8. /\ chan' \in [Nodes -> [Nodes -> Seq(Message)]]
      /\ chan'[n][p] = chan[n][p] \o u
      /\ chan'[p][n] = Tail(chan[p][n])
      /\ \A x, y \in Nodes :
            ~(x = n /\ y = p) /\ ~(x = p /\ y = n) => chan'[x][y] = chan[x][y]
  <2> DEFINE M == Seq(Message)
             f == Consumed(p, n)
             new == chan[n][p] \o u
  <2>1. /\ f \in [Nodes -> [Nodes -> M]] /\ new \in M
        /\ f[p][n] = Tail(chan[p][n])
        /\ \A x, y \in Nodes : ~(x = p /\ y = n) => f[x][y] = chan[x][y]
    BY <1>1, <1>7, ConsumedWrites
  <2>2. chan' = At(f, n, p, new)
    BY <1>3 DEF u
  <2> HIDE DEF M, f, new
  <2>3. /\ At(f, n, p, new) \in [Nodes -> [Nodes -> M]]
        /\ At(f, n, p, new)[n][p] = new
        /\ \A x, y \in Nodes : ~(x = n /\ y = p) => At(f, n, p, new)[x][y] = f[x][y]
    BY <2>1 DEF At
  <2>4. /\ chan' \in [Nodes -> [Nodes -> M]]
        /\ chan'[n][p] = new
    BY <2>2, <2>3
  <2>5. chan'[p][n] = Tail(chan[p][n])
    BY <1>7, <2>1, <2>2, <2>3
  <2>6. ASSUME NEW x \in Nodes, NEW y \in Nodes, ~(x = n /\ y = p), ~(x = p /\ y = n)
        PROVE  chan'[x][y] = chan[x][y]
    BY <2>1, <2>2, <2>3, <2>6
  <2> QED BY <2>4, <2>5, <2>6 DEF M, new
<1>9. RelayTypeOK'
  BY <1>4, <1>8 DEF RelayInv, RelayTypeOK
<1>10. LinkInv'
  BY <1>4, <1>7, <1>8 DEF RelayInv, LinkInv
<1>11. ASSUME NEW type, NEW t
       PROVE  /\ Has(chan'[p][n], type, t) => Has(chan[p][n], type, t)
              /\ OnceIn(chan[p][n], type, t) => OnceIn(chan'[p][n], type, t)
              /\ OnceIn(chan[p][n], type, t) /\ Bears(m, type, t) =>
                    Has(chan[p][n], type, t) /\ ~Has(chan'[p][n], type, t)
  BY <1>1, <1>7, <1>8, TailBears
<1>12. ASSUME NEW type, NEW t
       PROVE  /\ Has(chan'[n][p], type, t) =>
                    Has(chan[n][p], type, t) \/ (type = "tx" /\ t \in S)
              /\ OnceIn(chan[n][p], type, t)
                 /\ ~(Has(chan[n][p], type, t) /\ type = "tx" /\ t \in S) =>
                    OnceIn(chan'[n][p], type, t)
  <2>1. /\ Has(chan[n][p] \o u, type, t) => Has(chan[n][p], type, t) \/ Has(u, type, t)
        /\ OnceIn(chan[n][p], type, t) /\ OnceIn(u, type, t)
           /\ ~(Has(chan[n][p], type, t) /\ Has(u, type, t)) =>
              OnceIn(chan[n][p] \o u, type, t)
    BY <1>5, <1>7, ConcatBears
  <2> QED BY <1>5, <1>8, <2>1
<1>13. ASSUME NEW x \in Nodes, NEW y \in Nodes, NEW t \in Txs
       PROVE  OneStage(x, y, t)'
  <2>1. OneStage(x, y, t)
    BY DEF RelayInv
  <2>2. CASE x = n /\ y = p
    <3>1. t \in S => AskedFor(n, p, t) /\ ~AskedFor(n, p, t)'
      BY <1>6, <1>11, <2>1, <2>2 DEF OneStage, AskedFor
    <3>2. t \in S => ~Announced(n, p, t) /\ ~ToAsk(n, p, t) /\ ~Sent(n, p, t)
      BY <2>1, <2>2, <3>1 DEF OneStage
    <3>3. /\ Has(chan'[n][p], "inv", t) => Has(chan[n][p], "inv", t)
          /\ OnceIn(chan'[n][p], "inv", t)
      BY <1>12, <2>1, <2>2 DEF OneStage
    <3>4. /\ Has(chan'[n][p], "tx", t) => Has(chan[n][p], "tx", t) \/ t \in S
          /\ OnceIn(chan'[n][p], "tx", t)
      BY <1>12, <2>1, <2>2, <3>2 DEF OneStage, Sent
    <3>5. /\ Has(chan'[p][n], "getdata", t) => Has(chan[p][n], "getdata", t)
          /\ OnceIn(chan'[p][n], "getdata", t)
      BY <1>11, <2>1, <2>2 DEF OneStage
    <3>6. askFor' = askFor /\ known' = known
      BY <1>4
    <3> QED BY <2>1, <2>2, <3>1, <3>2, <3>3, <3>4, <3>5, <3>6
            DEF OneStage, UnderWay, Announced, ToAsk, AskedFor, Sent
  <2>3. CASE x = p /\ y = n
    <3>1. /\ Has(chan'[n][p], "getdata", t) => Has(chan[n][p], "getdata", t)
          /\ OnceIn(chan'[n][p], "getdata", t)
      BY <1>12, <2>1, <2>3 DEF OneStage
    <3> QED BY <1>4, <1>11, <2>1, <2>3, <3>1, OneStageShrinks DEF OneStage
  <2>4. CASE ~(x = n /\ y = p) /\ ~(x = p /\ y = n)
    BY <1>4, <1>8, <2>1, <2>4, OneStageStays
  <2> QED BY <2>2, <2>3, <2>4
<1> QED BY <1>9, <1>10, <1>13 DEF RelayInv

LEMMA RelayNextInv == RelayInv /\ [RelayNext]_relayVars => RelayInv'
<1> SUFFICES ASSUME RelayInv, [RelayNext]_relayVars PROVE RelayInv'
  OBVIOUS
<1>1. CASE UNCHANGED relayVars
  <2>1. RelayTypeOK' /\ LinkInv'
    BY <1>1 DEF relayVars, RelayInv, RelayTypeOK, LinkInv
  <2> QED BY <1>1, <2>1, OneStageStays DEF relayVars, RelayInv
<1>2. ASSUME NEW n \in Nodes, NEW t \in Txs, RelayWalletTransaction(n, t)
      PROVE  RelayInv'
  BY <1>2, RelayWalletTransactionInv
<1>3. ASSUME NEW n \in Nodes, NEW p \in Nodes,
             \/ \E fSendTrickle \in BOOLEAN : SendMessages(n, p, fSendTrickle)
             \/ Disconnect(n, p) \/ Reconnect(n, p)
      PROVE  RelayInv'
  BY <1>3, SendMessagesInv, DisconnectInv, ReconnectInv
<1>4. ASSUME NEW n \in Nodes, NEW p \in Nodes, ProcessMessages(n, p)
      PROVE  RelayInv'
  BY <1>4, ProcessInvInv, ProcessGetDataInv, ProcessTxInv DEF ProcessMessages
<1>5. CASE Tick
  BY <1>5, TickInv
<1> QED BY <1>1, <1>2, <1>3, <1>4, <1>5 DEF RelayNext

\* The invariant holds in every state, whoever is connected with whom and
\* however often connections are lost.
THEOREM RelayInvHolds == RelaySpec => []RelayInv
BY InitRelayInv, RelayNextInv, PTL DEF RelaySpec

\* The types of the network tables of every node.
THEOREM RelayTypeCorrect == RelaySpec => []RelayTypeOK
<1>1. RelayInv => RelayTypeOK
  BY DEF RelayInv
<1> QED BY <1>1, RelayInvHolds, PTL

\* What there is once counts as one.
LEMMA CarriedIs ==
    ASSUME NEW n \in Nodes, NEW p \in Nodes, NEW type, NEW t, OnceIn(chan[n][p], type, t)
    PROVE  Carried(n, p, type, t) = IF Has(chan[n][p], type, t) THEN 1 ELSE 0
<1> DEFINE S == {i \in DOMAIN chan[n][p] : Bears(chan[n][p][i], type, t)}
<1>1. Carried(n, p, type, t) = Cardinality(S)
  BY DEF Carried, Bears
<1>2. CASE Has(chan[n][p], type, t)
  <2>1. PICK i \in DOMAIN chan[n][p] : Bears(chan[n][p][i], type, t)
    BY <1>2 DEF Has
  <2>2. S = {i}
    BY <2>1 DEF OnceIn
  <2> QED BY <1>1, <1>2, <2>2, FS_Singleton
<1>3. CASE ~Has(chan[n][p], type, t)
  <2>1. S = {}
    BY <1>3 DEF Has
  <2> QED BY <1>1, <1>3, <2>1, FS_EmptySet
<1> QED BY <1>2, <1>3

\* Over one connection a transaction is announced, asked for and sent once,
\* however often the wallet relays it and other peers announce it.
THEOREM AlwaysAnsweredOnce == RelaySpec => []AnsweredOnce
<1>1. ASSUME RelayInv, NEW n \in Nodes, NEW p \in Nodes, NEW t \in Txs
      PROVE  LET stages == Carried(n, p, "inv", t)
                           + Cardinality({e \in askFor[p][n] : e[2] = t})
                           + Carried(p, n, "getdata", t) + Carried(n, p, "tx", t)
             IN  stages <= 1 /\ (stages = 1 => t \in known[n][p])
  <2>1. OneStage(n, p, t)
    BY <1>1 DEF RelayInv
  <2>2. /\ Carried(n, p, "inv", t) = IF Announced(n, p, t) THEN 1 ELSE 0
        /\ Carried(p, n, "getdata", t) = IF AskedFor(n, p, t) THEN 1 ELSE 0
        /\ Carried(n, p, "tx", t) = IF Sent(n, p, t) THEN 1 ELSE 0
    BY <2>1, CarriedIs DEF OneStage, Announced, AskedFor, Sent
  <2>3. Cardinality({e \in askFor[p][n] : e[2] = t}) = IF ToAsk(n, p, t) THEN 1 ELSE 0
    <3> DEFINE A == Asks(askFor[p][n], t)
    <3>1. CASE A # {}
      <4>1. PICK e : A = {e}
        BY <2>1, <3>1 DEF OneStage
      <4> QED BY <3>1, <4>1, FS_Singleton DEF Asks, ToAsk
    <3>2. CASE A = {}
      BY <3>2, FS_EmptySet DEF Asks, ToAsk
    <3> QED BY <3>1, <3>2
  <2> QED BY <2>1, <2>2, <2>3 DEF OneStage, UnderWay
<1>2. RelayInv => AnsweredOnce
  BY <1>1 DEF AnsweredOnce
<1> QED BY <1>2, RelayInvHolds, PTL

-----------------------------------------------------------------------------
(***************************************************************************)
(* Address manager                                                         *)
(***************************************************************************)

Ids(m) == DOMAIN m.mapInfo

\* mapAddr and mapInfo are each other's inverse.
AddrsAgree(m) ==
    /\ \A i \in Ids(m) : /\ m.mapInfo[i].addr \in DOMAIN m.mapAddr
                         /\ m.mapAddr[m.mapInfo[i].addr] = i
    /\ \A a \in DOMAIN m.mapAddr : /\ m.mapAddr[a] \in Ids(m)
                                   /\ m.mapInfo[m.mapAddr[a]].addr = a

\* So are vRandom and nRandomPos.
RandomAgrees(m) ==
    /\ \A i \in Ids(m) : /\ m.mapInfo[i].nRandomPos \in 1 .. Len(m.vRandom)
                         /\ m.vRandom[m.mapInfo[i].nRandomPos] = i
    /\ \A p \in 1 .. Len(m.vRandom) : /\ m.vRandom[p] \in Ids(m)
                                      /\ m.mapInfo[m.vRandom[p]].nRandomPos = p

\* The part of the invariant that swaps, additions and removals of entries keep.
Indexed(m) ==
    /\ IsAddrMan(m)
    /\ \A i \in Ids(m) : i < m.nIdCount
    /\ AddrsAgree(m)
    /\ RandomAgrees(m)

In(m, i) == {b \in NewBuckets : i \in m.vvNew[b]}
NewIds(m) == {i \in Ids(m) : ~m.mapInfo[i].fInTried}

\* The new buckets hold entries that are not tried, each in as many buckets as
\* it has references; of entry x one reference is not in its bucket yet.
NewFiled(m, x) ==
    /\ \A b \in NewBuckets : m.vvNew[b] \subseteq Ids(m)
    /\ \A i \in Ids(m) :
          m.mapInfo[i].nRefCount = Cardinality(In(m, i)) + (IF i = x THEN 1 ELSE 0)
    /\ \A i \in NewIds(m) : m.mapInfo[i].nRefCount \in 1 .. BucketsPerAddress
    /\ \A i \in TriedIds(m) : m.mapInfo[i].nRefCount = 0 /\ m.mapInfo[i].nLastSuccess # 0

\* The tried buckets hold the tried entries, each once, in its own bucket.
TriedFiled(m) ==
    /\ \A k \in TriedBuckets :
          /\ \A p \in 1 .. Len(m.vvTried[k]) :
                /\ m.vvTried[k][p] \in TriedIds(m)
                /\ GetTriedBucket[m.mapInfo[m.vvTried[k][p]].addr] = k
          /\ \A p, q \in 1 .. Len(m.vvTried[k]) : m.vvTried[k][p] = m.vvTried[k][q] => p = q
    /\ \A i \in TriedIds(m) :
          \E p \in 1 .. Len(m.vvTried[GetTriedBucket[m.mapInfo[i].addr]]) :
             m.vvTried[GetTriedBucket[m.mapInfo[i].addr]][p] = i

Counted(m) ==
    /\ m.nNew = Cardinality(NewIds(m))
    /\ m.nTried = Cardinality(TriedIds(m))
    /\ Len(m.vRandom) = m.nNew + m.nTried

Bounded(m) ==
    /\ \A b \in NewBuckets : Cardinality(m.vvNew[b]) <= NewBucketSize
    /\ \A k \in TriedBuckets : Len(m.vvTried[k]) <= TriedBucketSize

Consistent(m, x) ==
    Indexed(m) /\ NewFiled(m, x) /\ TriedFiled(m) /\ Counted(m) /\ Bounded(m)

\* No entry has this id.
Nobody == -1

AddrManInv == Consistent(am, Nobody) /\ now \in 0 .. MaxTime

Fields == {"mapInfo", "mapAddr", "vRandom", "vvNew", "vvTried", "nNew", "nTried", "nIdCount"}

\* The entries of S are the same, but for their places in vRandom.
SameEntries(m, n, S) ==
    \A i \in S : /\ n.mapInfo[i].addr = m.mapInfo[i].addr
                 /\ n.mapInfo[i].source = m.mapInfo[i].source
                 /\ n.mapInfo[i].nLastSuccess = m.mapInfo[i].nLastSuccess
                 /\ n.mapInfo[i].nRefCount = m.mapInfo[i].nRefCount
                 /\ n.mapInfo[i].fInTried = m.mapInfo[i].fInTried

SameBuckets(m, n) == n.vvNew = m.vvNew /\ n.vvTried = m.vvTried

-----------------------------------------------------------------------------

\* A swap of two places of a sequence.
LEMMA SwapPlaces ==
    ASSUME NEW S, NEW v \in Seq(S), NEW p \in 1 .. Len(v), NEW q \in 1 .. Len(v)
    PROVE  LET w == [v EXCEPT ![p] = v[q], ![q] = v[p]] IN
           /\ w \in Seq(S) /\ Len(w) = Len(v)
           /\ w[p] = v[q] /\ w[q] = v[p]
           /\ \A k \in 1 .. Len(v) : k # p /\ k # q => w[k] = v[k]
<1> DEFINE u == [v EXCEPT ![p] = v[q]]
           w == [u EXCEPT ![q] = v[p]]
<1>1. v[p] \in S /\ v[q] \in S
  OBVIOUS
<1>2. u \in Seq(S) /\ Len(u) = Len(v) /\ u[p] = v[q]
      /\ \A k \in 1 .. Len(v) : k # p => u[k] = v[k]
  BY <1>1
<1>3. /\ [v EXCEPT ![p] = v[q], ![q] = v[p]] = w
  OBVIOUS
<1> HIDE DEF u
<1>4. w \in Seq(S) /\ Len(w) = Len(u) /\ w[q] = v[p]
      /\ \A k \in 1 .. Len(u) : k # q => w[k] = u[k]
  BY <1>1, <1>2
<1> QED BY <1>2, <1>3, <1>4

\* What SwapRandom writes when the two entries differ.
LEMMA SwapFields ==
    ASSUME NEW m, DOMAIN m = Fields, NEW p, NEW q, p # q,
           m.vRandom[p] # m.vRandom[q],
           m.vRandom[p] \in DOMAIN m.mapInfo, m.vRandom[q] \in DOMAIN m.mapInfo
    PROVE  LET n == SwapRandom(m, p, q) IN
           /\ DOMAIN n = Fields
           /\ n.mapInfo = [m.mapInfo EXCEPT ![m.vRandom[p]].nRandomPos = q,
                                            ![m.vRandom[q]].nRandomPos = p]
           /\ n.vRandom = [m.vRandom EXCEPT ![p] = m.vRandom[q], ![q] = m.vRandom[p]]
           /\ n.mapAddr = m.mapAddr /\ n.vvNew = m.vvNew /\ n.vvTried = m.vvTried
           /\ n.nNew = m.nNew /\ n.nTried = m.nTried /\ n.nIdCount = m.nIdCount
BY DEF SwapRandom, Fields

\* SwapRandom keeps vRandom and nRandomPos each other's inverse.
LEMMA SwapKeeps ==
    ASSUME NEW m, Indexed(m), NEW p \in 1 .. Len(m.vRandom), NEW q \in 1 .. Len(m.vRandom)
    PROVE  LET n == SwapRandom(m, p, q) IN
           /\ Indexed(n) /\ Ids(n) = Ids(m) /\ SameEntries(m, n, Ids(m)) /\ SameBuckets(m, n)
           /\ n.nNew = m.nNew /\ n.nTried = m.nTried /\ n.nIdCount = m.nIdCount
           /\ n.mapAddr = m.mapAddr
           /\ Len(n.vRandom) = Len(m.vRandom) /\ n.vRandom[q] = m.vRandom[p]
<1>1. CASE p = q
  BY <1>1 DEF SwapRandom, SameEntries, SameBuckets
<1>2. CASE p # q
  <2> DEFINE n == SwapRandom(m, p, q)
             i == m.vRandom[p]
             j == m.vRandom[q]
             mi == [m.mapInfo EXCEPT ![i].nRandomPos = q, ![j].nRandomPos = p]
             vr == [m.vRandom EXCEPT ![p] = j, ![q] = i]
  <2>1. /\ i \in Ids(m) /\ j \in Ids(m) /\ i # j
        /\ m.mapInfo[i].nRandomPos = p /\ m.mapInfo[j].nRandomPos = q
    BY <1>2 DEF Indexed, RandomAgrees
  <2>2. DOMAIN m = Fields /\ m.mapInfo \in [Ids(m) -> Info] /\ m.vRandom \in Seq(0 .. MaxId - 1)
    BY DEF Indexed, IsAddrMan, Fields, Ids
  <2>3. /\ DOMAIN n = Fields /\ n.mapInfo = mi /\ n.vRandom = vr
        /\ n.mapAddr = m.mapAddr /\ n.vvNew = m.vvNew /\ n.vvTried = m.vvTried
        /\ n.nNew = m.nNew /\ n.nTried = m.nTried /\ n.nIdCount = m.nIdCount
    <3>1. i \in DOMAIN m.mapInfo /\ j \in DOMAIN m.mapInfo
      BY <2>1 DEF Ids
    <3> QED BY <1>2, <2>1, <2>2, <3>1, SwapFields
  <2>4. /\ mi \in [Ids(m) -> Info]
        /\ mi[i].nRandomPos = q /\ mi[j].nRandomPos = p
        /\ \A k \in Ids(m) \ {i, j} : mi[k] = m.mapInfo[k]
    <3> DEFINE ei == [m.mapInfo[i] EXCEPT !.nRandomPos = q]
               ej == [m.mapInfo[j] EXCEPT !.nRandomPos = p]
    <3>1. ei \in Info /\ ej \in Info /\ ei.nRandomPos = q /\ ej.nRandomPos = p
      <4>1. m.mapInfo[i] \in Info /\ m.mapInfo[j] \in Info /\ p \in Nat /\ q \in Nat
        BY <2>1, <2>2
      <4> QED BY <4>1 DEF Info
    <3>2. mi = [[m.mapInfo EXCEPT ![i] = ei] EXCEPT ![j] = ej]
      BY <2>1, <2>2
    <3>3. i \in Ids(m) /\ j \in Ids(m) /\ i # j /\ m.mapInfo \in [Ids(m) -> Info]
      BY <2>1, <2>2
    <3> HIDE DEF ei, ej, mi, i, j
    <3> QED BY <3>1, <3>2, <3>3
  <2>5. \A k \in Ids(m) : /\ mi[k].addr = m.mapInfo[k].addr
                          /\ mi[k].source = m.mapInfo[k].source
                          /\ mi[k].nLastSuccess = m.mapInfo[k].nLastSuccess
                          /\ mi[k].nRefCount = m.mapInfo[k].nRefCount
                          /\ mi[k].fInTried = m.mapInfo[k].fInTried
    BY <2>1, <2>2 DEF Info
  <2>6. /\ vr \in Seq(0 .. MaxId - 1) /\ Len(vr) = Len(m.vRandom)
        /\ vr[p] = j /\ vr[q] = i
        /\ \A k \in 1 .. Len(m.vRandom) : k # p /\ k # q => vr[k] = m.vRandom[k]
    <3> DEFINE D == 0 .. MaxId - 1
    <3>1. m.vRandom \in Seq(D)
      BY <2>2
    <3> HIDE DEF D
    <3>2. /\ vr \in Seq(D) /\ Len(vr) = Len(m.vRandom)
          /\ vr[p] = j /\ vr[q] = i
          /\ \A k \in 1 .. Len(m.vRandom) : k # p /\ k # q => vr[k] = m.vRandom[k]
      BY <3>1, SwapPlaces
    <3> QED BY <3>2 DEF D
  <2> HIDE DEF n, mi, vr
  <2>7. Ids(n) = Ids(m) /\ SameEntries(m, n, Ids(m)) /\ SameBuckets(m, n)
    BY <2>3, <2>4, <2>5 DEF Ids, SameEntries, SameBuckets
  <2>8. IsAddrMan(n)
    BY <2>3, <2>4, <2>6, <2>7 DEF Indexed, IsAddrMan, Fields, Ids
  <2>9. AddrsAgree(n)
    BY <2>3, <2>5, <2>7 DEF Indexed, AddrsAgree
  <2>10. RandomAgrees(n)
    <3>1. ASSUME NEW k \in Ids(m)
          PROVE  mi[k].nRandomPos \in 1 .. Len(vr) /\ vr[mi[k].nRandomPos] = k
      <4>1. CASE k = i \/ k = j
        BY <2>1, <2>4, <2>6, <4>1
      <4>2. CASE k \notin {i, j}
        <5>1. /\ m.mapInfo[k].nRandomPos \in 1 .. Len(m.vRandom)
              /\ m.vRandom[m.mapInfo[k].nRandomPos] = k
          BY DEF Indexed, RandomAgrees
        <5>2. m.mapInfo[k].nRandomPos # p /\ m.mapInfo[k].nRandomPos # q
          BY <4>2, <5>1
        <5> QED BY <2>4, <2>6, <4>2, <5>1, <5>2
      <4> QED BY <4>1, <4>2
    <3>2. ASSUME NEW k \in 1 .. Len(vr)
          PROVE  vr[k] \in Ids(m) /\ mi[vr[k]].nRandomPos = k
      BY <2>1, <2>4, <2>6 DEF Indexed, RandomAgrees
    <3> QED BY <2>3, <2>7, <3>1, <3>2 DEF RandomAgrees
  <2> QED BY <2>3, <2>6, <2>7, <2>8, <2>9, <2>10 DEF Indexed, n
<1> QED BY <1>1, <1>2

\* Delete takes one entry out of the table and of both its indexes.
LEMMA DeleteKeeps ==
    ASSUME NEW m, Indexed(m), NEW id \in Ids(m), m.nNew # 0
    PROVE  LET n == Delete(m, id) IN
           /\ Indexed(n) /\ Ids(n) = Ids(m) \ {id} /\ SameEntries(m, n, Ids(n))
           /\ SameBuckets(m, n) /\ n.nNew = m.nNew - 1 /\ n.nTried = m.nTried
           /\ Len(n.vRandom) = Len(m.vRandom) - 1
<1> DEFINE last == Len(m.vRandom)
           s == SwapRandom(m, m.mapInfo[id].nRandomPos, last)
           n == Delete(m, id)
           a == m.mapInfo[id].addr
<1>1. /\ last \in Nat \ {0} /\ m.mapInfo[id].nRandomPos \in 1 .. last
      /\ m.vRandom[m.mapInfo[id].nRandomPos] = id /\ last \in 1 .. last
  BY DEF Indexed, RandomAgrees, IsAddrMan
<1>2. /\ Indexed(s) /\ Ids(s) = Ids(m) /\ SameEntries(m, s, Ids(m)) /\ SameBuckets(m, s)
      /\ s.nNew = m.nNew /\ s.nTried = m.nTried
      /\ Len(s.vRandom) = last /\ s.vRandom[last] = id
  BY <1>1, SwapKeeps
<1> HIDE DEF s, last
<1>3. s.mapInfo[id].addr = a /\ s.mapInfo[id].nRandomPos = last
  BY <1>1, <1>2 DEF SameEntries, Indexed, RandomAgrees
<1>4. DOMAIN s = Fields
  BY <1>2 DEF Indexed, IsAddrMan, Fields
<1>5. /\ DOMAIN n = Fields
      /\ n.vRandom = SubSeq(s.vRandom, 1, Len(s.vRandom) - 1)
      /\ n.mapAddr = Without(s.mapAddr, a) /\ n.mapInfo = Without(s.mapInfo, id)
      /\ n.nNew = s.nNew - 1
      /\ n.vvNew = s.vvNew /\ n.vvTried = s.vvTried
      /\ n.nTried = s.nTried /\ n.nIdCount = s.nIdCount
  BY <1>4 DEF Delete, Fields, s, last
<1> HIDE DEF n
<1>6. /\ Ids(n) = Ids(m) \ {id} /\ \A i \in Ids(n) : n.mapInfo[i] = s.mapInfo[i]
      /\ DOMAIN n.mapAddr = DOMAIN s.mapAddr \ {a}
      /\ \A x \in DOMAIN n.mapAddr : n.mapAddr[x] = s.mapAddr[x]
      /\ n.mapInfo = [i \in Ids(n) |-> s.mapInfo[i]]
      /\ n.mapAddr = [x \in DOMAIN n.mapAddr |-> s.mapAddr[x]]
  BY <1>2, <1>5 DEF Without, Ids
<1>7. /\ n.vRandom \in Seq(0 .. MaxId - 1) /\ Len(n.vRandom) = last - 1
      /\ \A p \in 1 .. last - 1 : n.vRandom[p] = s.vRandom[p]
  <2> DEFINE D == 0 .. MaxId - 1
  <2>1. s.vRandom \in Seq(D) /\ Len(s.vRandom) = last
    BY <1>2 DEF Indexed, IsAddrMan
  <2> HIDE DEF D
  <2>2. /\ n.vRandom \in Seq(D) /\ Len(n.vRandom) = last - 1
        /\ \A p \in 1 .. last - 1 : n.vRandom[p] = s.vRandom[p]
    BY <1>1, <1>5, <2>1
  <2> QED BY <2>2 DEF D
<1>8. IsAddrMan(n)
  <2>4. Indexed(s) /\ s.nNew # 0
    BY <1>2
  <2>1. IsAddrMan(s) /\ s.nNew # 0
    BY <2>4 DEF Indexed
  <2>2. n.mapInfo \in [Ids(n) -> Info]
    <3>1. s.mapInfo \in [Ids(m) -> Info]
      <4>1. s.mapInfo \in [Ids(s) -> Info]
        BY <2>1 DEF IsAddrMan, Ids
      <4> QED BY <1>2, <4>1
    <3>2. Ids(n) \subseteq Ids(m) /\ n.mapInfo = [i \in Ids(n) |-> s.mapInfo[i]]
      BY <1>6
    <3> QED BY <3>1, <3>2
  <2>3. n.mapAddr \in [DOMAIN n.mapAddr -> 0 .. MaxId - 1]
    <3>1. \A x \in DOMAIN s.mapAddr : s.mapAddr[x] \in 0 .. MaxId - 1
      BY <2>1 DEF IsAddrMan
    <3> QED BY <1>6, <3>1
  <2> QED BY <1>2, <1>5, <1>6, <1>7, <2>1, <2>2, <2>3 DEF IsAddrMan, Fields, Ids
<1>9. AddrsAgree(n)
  BY <1>2, <1>3, <1>6 DEF Indexed, AddrsAgree
<1>10. RandomAgrees(n)
  <2>2. ASSUME NEW p \in 1 .. last - 1
        PROVE  s.vRandom[p] # id /\ p \in 1 .. last
    BY <1>1, <1>2, <1>3 DEF Indexed, RandomAgrees
  <2>3. \A i \in Ids(n) : s.vRandom[s.mapInfo[i].nRandomPos] = i /\ i # id
    BY <1>2, <1>6 DEF Indexed, RandomAgrees
  <2>4. ASSUME NEW i \in Ids(n)
        PROVE  /\ n.mapInfo[i].nRandomPos \in 1 .. Len(n.vRandom)
               /\ n.vRandom[n.mapInfo[i].nRandomPos] = i
    <3>1. n.mapInfo[i].nRandomPos \in 1 .. last /\ n.mapInfo[i].nRandomPos # last
      BY <1>2, <1>6, <2>3 DEF Indexed, RandomAgrees
    <3> QED BY <1>1, <1>6, <1>7, <2>3, <3>1
  <2>5. ASSUME NEW p \in 1 .. Len(n.vRandom)
        PROVE  n.vRandom[p] \in Ids(n) /\ n.mapInfo[n.vRandom[p]].nRandomPos = p
    <3>1. p \in 1 .. last - 1 /\ n.vRandom[p] = s.vRandom[p] /\ s.vRandom[p] # id
      BY <1>7, <2>2
    <3>2. s.vRandom[p] \in Ids(s) /\ s.mapInfo[s.vRandom[p]].nRandomPos = p
      BY <1>1, <1>2, <3>1 DEF Indexed, RandomAgrees
    <3> QED BY <1>2, <1>6, <3>1, <3>2
  <2> QED BY <2>4, <2>5 DEF RandomAgrees
<1>11. SameEntries(m, n, Ids(n)) /\ SameBuckets(m, n)
  BY <1>2, <1>5, <1>6 DEF SameEntries, SameBuckets
<1> QED BY <1>2, <1>5, <1>6, <1>7, <1>8, <1>9, <1>10, <1>11 DEF Indexed, n, last

\* Create adds one entry, not tried and without a reference, under a new id.
LEMMA CreateKeeps ==
    ASSUME NEW m, Indexed(m), NEW a \in Addresses, a \notin DOMAIN m.mapAddr, NEW s \in Sources,
           m.nIdCount < MaxId
    PROVE  LET n == Create(m, a, s)
               id == m.nIdCount
           IN /\ Indexed(n) /\ Ids(n) = Ids(m) \cup {id} /\ id \notin Ids(m)
              /\ \A i \in Ids(m) : n.mapInfo[i] = m.mapInfo[i]
              /\ n.mapInfo[id].addr = a /\ n.mapAddr[a] = id
              /\ ~n.mapInfo[id].fInTried /\ n.mapInfo[id].nRefCount = 0
              /\ SameBuckets(m, n) /\ n.nNew = m.nNew + 1 /\ n.nTried = m.nTried
              /\ Len(n.vRandom) = Len(m.vRandom) + 1
<1> DEFINE n == Create(m, a, s)
           id == m.nIdCount
           e == [addr |-> a, source |-> s, nLastSuccess |-> 0, nRefCount |-> 0,
                 fInTried |-> FALSE, nRandomPos |-> Len(m.vRandom) + 1]
<1>1. IsAddrMan(m) /\ DOMAIN m = Fields /\ id \in 0 .. MaxId - 1 /\ id + 1 \in 0 .. MaxId
      /\ id \notin Ids(m) /\ Len(m.vRandom) \in Nat /\ m.vRandom \in Seq(0 .. MaxId - 1)
  <2>1. /\ IsAddrMan(m) /\ DOMAIN m = Fields /\ id \in 0 .. MaxId
        /\ m.vRandom \in Seq(0 .. MaxId - 1)
    BY DEF Indexed, IsAddrMan, Fields
  <2>2. MaxId \in Nat
    BY AddrManAssumption DEF AddrManAssumption
  <2>3. id \in 0 .. MaxId - 1 /\ id + 1 \in 0 .. MaxId
    BY <2>1, <2>2
  <2>4. id \notin Ids(m)
    BY <2>3 DEF Indexed
  <2>5. Len(m.vRandom) \in Nat
    BY <2>1
  <2> QED BY <2>1, <2>3, <2>4, <2>5
<1>2. e \in Info
  BY <1>1, AddrManAssumption DEF AddrManAssumption, Info
<1>3. /\ DOMAIN n = Fields /\ n.nIdCount = id + 1
      /\ n.mapInfo = [i \in Ids(m) \cup {id} |-> IF i = id THEN e ELSE m.mapInfo[i]]
      /\ n.mapAddr = [x \in DOMAIN m.mapAddr \cup {a} |-> IF x = a THEN id ELSE m.mapAddr[x]]
      /\ n.vRandom = Append(m.vRandom, id) /\ n.nNew = m.nNew + 1
      /\ n.vvNew = m.vvNew /\ n.vvTried = m.vvTried /\ n.nTried = m.nTried
  BY <1>1 DEF Create, Fields, Ids
<1>4. /\ e.addr = a /\ ~e.fInTried /\ e.nRefCount = 0 /\ e.nRandomPos = Len(m.vRandom) + 1
  OBVIOUS
<1> HIDE DEF n, e
<1>5. /\ Ids(n) = Ids(m) \cup {id} /\ n.mapInfo[id] = e
      /\ \A i \in Ids(m) : n.mapInfo[i] = m.mapInfo[i]
      /\ n.mapAddr[a] = id /\ DOMAIN n.mapAddr = DOMAIN m.mapAddr \cup {a}
      /\ \A x \in DOMAIN m.mapAddr : n.mapAddr[x] = m.mapAddr[x]
  BY <1>1, <1>3 DEF Ids
<1>6. /\ n.vRandom \in Seq(0 .. MaxId - 1) /\ Len(n.vRandom) = Len(m.vRandom) + 1
      /\ n.vRandom[Len(m.vRandom) + 1] = id
      /\ \A p \in 1 .. Len(m.vRandom) : n.vRandom[p] = m.vRandom[p]
  BY <1>1, <1>3
<1>7. IsAddrMan(n)
  <2>1. n.mapInfo \in [Ids(n) -> Info]
    BY <1>1, <1>2, <1>3, <1>5 DEF IsAddrMan, Ids
  <2>2. n.mapAddr \in [DOMAIN n.mapAddr -> 0 .. MaxId - 1]
    BY <1>1, <1>3, <1>5 DEF IsAddrMan
  <2> QED BY <1>1, <1>3, <1>5, <1>6, <2>1, <2>2 DEF IsAddrMan, Fields, Ids
<1>8. AddrsAgree(n)
  BY <1>1, <1>4, <1>5 DEF Indexed, AddrsAgree
<1>9. RandomAgrees(n)
  <2>1. \A i \in Ids(m) : i # id
    BY <1>1
  <2>2. ASSUME NEW p \in 1 .. Len(m.vRandom) + 1
        PROVE  p = Len(m.vRandom) + 1 \/ p \in 1 .. Len(m.vRandom)
    BY <1>1
  <2>3. 1 .. Len(m.vRandom) \subseteq 1 .. Len(m.vRandom) + 1
        /\ Len(m.vRandom) + 1 \in 1 .. Len(m.vRandom) + 1
    BY <1>1
  <2>4. ASSUME NEW i \in Ids(n)
        PROVE  /\ n.mapInfo[i].nRandomPos \in 1 .. Len(n.vRandom)
               /\ n.vRandom[n.mapInfo[i].nRandomPos] = i
    <3>1. CASE i = id
      BY <1>4, <1>5, <1>6, <2>3, <3>1
    <3>2. CASE i \in Ids(m)
      <4>1. /\ m.mapInfo[i].nRandomPos \in 1 .. Len(m.vRandom)
            /\ m.vRandom[m.mapInfo[i].nRandomPos] = i
        BY <3>2 DEF Indexed, RandomAgrees
      <4> QED BY <1>5, <1>6, <2>3, <3>2, <4>1
    <3> QED BY <1>5, <3>1, <3>2
  <2>5. ASSUME NEW p \in 1 .. Len(n.vRandom)
        PROVE  n.vRandom[p] \in Ids(n) /\ n.mapInfo[n.vRandom[p]].nRandomPos = p
    <3>1. CASE p = Len(m.vRandom) + 1
      BY <1>4, <1>5, <1>6, <3>1
    <3>2. CASE p \in 1 .. Len(m.vRandom)
      <4>1. m.vRandom[p] \in Ids(m) /\ m.mapInfo[m.vRandom[p]].nRandomPos = p
        BY <3>2 DEF Indexed, RandomAgrees
      <4> QED BY <1>5, <1>6, <3>2, <4>1
    <3> QED BY <1>6, <2>2, <3>1, <3>2
  <2> QED BY <2>4, <2>5 DEF RandomAgrees
<1>10. \A i \in Ids(n) : i < n.nIdCount
  BY <1>1, <1>3, <1>5 DEF Indexed, IsAddrMan, Ids
<1> QED BY <1>1, <1>3, <1>4, <1>5, <1>6, <1>7, <1>8, <1>9, <1>10 DEF Indexed, SameBuckets, n

EntryChanged(m, n, id, e) == n = [m EXCEPT !.mapInfo[id] = e]

\* A change of an entry that leaves its address and its place alone.
LEMMA EntryKeeps ==
    ASSUME NEW m, Indexed(m), NEW id \in Ids(m), NEW e \in Info,
           e.addr = m.mapInfo[id].addr, e.nRandomPos = m.mapInfo[id].nRandomPos,
           NEW n, EntryChanged(m, n, id, e)
    PROVE  /\ Indexed(n) /\ Ids(n) = Ids(m) /\ n.mapInfo[id] = e
           /\ \A i \in Ids(m) \ {id} : n.mapInfo[i] = m.mapInfo[i]
           /\ SameBuckets(m, n) /\ n.nNew = m.nNew /\ n.nTried = m.nTried
           /\ n.vRandom = m.vRandom
<1>1. DOMAIN m = Fields /\ IsAddrMan(m) /\ m.mapInfo \in [Ids(m) -> Info]
  BY DEF Indexed, IsAddrMan, Fields, Ids
<1>2. /\ DOMAIN n = Fields /\ n.mapInfo = [m.mapInfo EXCEPT ![id] = e]
      /\ n.mapAddr = m.mapAddr /\ n.vRandom = m.vRandom
      /\ n.vvNew = m.vvNew /\ n.vvTried = m.vvTried
      /\ n.nNew = m.nNew /\ n.nTried = m.nTried /\ n.nIdCount = m.nIdCount
  BY <1>1 DEF EntryChanged, Fields
<1>3. /\ Ids(n) = Ids(m) /\ n.mapInfo[id] = e /\ n.mapInfo \in [Ids(m) -> Info]
      /\ \A i \in Ids(m) \ {id} : n.mapInfo[i] = m.mapInfo[i]
  BY <1>1, <1>2 DEF Ids
<1>4. \A i \in Ids(m) : /\ n.mapInfo[i].addr = m.mapInfo[i].addr
                        /\ n.mapInfo[i].nRandomPos = m.mapInfo[i].nRandomPos
  BY <1>3
<1>5. IsAddrMan(n)
  BY <1>1, <1>2, <1>3 DEF IsAddrMan, Fields, Ids
<1>6. AddrsAgree(n)
  BY <1>2, <1>3, <1>4 DEF Indexed, AddrsAgree
<1>7. RandomAgrees(n)
  BY <1>2, <1>3, <1>4 DEF Indexed, RandomAgrees
<1> QED BY <1>2, <1>3, <1>5, <1>6, <1>7 DEF Indexed, SameBuckets

\* What is about buckets only does not matter for the index.
LEMMA BucketsKeepIndex ==
    ASSUME NEW m, Indexed(m), NEW n, DOMAIN n = DOMAIN m,
           n.mapInfo = m.mapInfo, n.mapAddr = m.mapAddr, n.vRandom = m.vRandom,
           n.nIdCount = m.nIdCount,
           n.vvNew \in [NewBuckets -> SUBSET (0 .. MaxId - 1)],
           n.vvTried \in [TriedBuckets -> Seq(0 .. MaxId - 1)],
           n.nNew \in Nat, n.nTried \in Nat
    PROVE  Indexed(n) /\ Ids(n) = Ids(m)
BY DEF Indexed, IsAddrMan, AddrsAgree, RandomAgrees, Ids

\* What is counted is finite.
LEMMA Finite ==
    ASSUME NEW m, Indexed(m)
    PROVE  /\ IsFiniteSet(Ids(m)) /\ IsFiniteSet(NewIds(m)) /\ IsFiniteSet(TriedIds(m))
           /\ \A i : IsFiniteSet(In(m, i)) /\ Cardinality(In(m, i)) \in Nat
           /\ \A b \in NewBuckets : /\ IsFiniteSet(m.vvNew[b])
                                    /\ Cardinality(m.vvNew[b]) \in Nat
<1>1. 0 .. MaxId - 1 \in SUBSET Nat /\ IsFiniteSet(0 .. MaxId - 1)
  <2>1. 0 \in Int /\ MaxId - 1 \in Int
    BY AddrManAssumption DEF AddrManAssumption
  <2> QED BY <2>1, FS_Interval
<1>2. IsFiniteSet(Ids(m))
  <2>1. Ids(m) \in SUBSET (0 .. MaxId - 1)
    BY DEF Indexed, IsAddrMan, Ids
  <2> QED BY <1>1, <2>1, FS_Subset
<1>3. IsFiniteSet(NewIds(m)) /\ IsFiniteSet(TriedIds(m))
  <2>1. NewIds(m) \in SUBSET Ids(m) /\ TriedIds(m) \in SUBSET Ids(m)
    BY DEF NewIds, TriedIds, Ids
  <2> QED BY <1>2, <2>1, FS_Subset
<1>4. ASSUME NEW i
      PROVE  IsFiniteSet(In(m, i)) /\ Cardinality(In(m, i)) \in Nat
  <2>1. In(m, i) \in SUBSET NewBuckets
    BY DEF In
  <2>2. IsFiniteSet(In(m, i))
    BY <2>1, FS_Subset, AddrManAssumption DEF AddrManAssumption
  <2> QED BY <2>2, FS_CardinalityType
<1>5. ASSUME NEW b \in NewBuckets
      PROVE  IsFiniteSet(m.vvNew[b]) /\ Cardinality(m.vvNew[b]) \in Nat
  <2>1. m.vvNew[b] \in SUBSET (0 .. MaxId - 1)
    BY DEF Indexed, IsAddrMan
  <2>2. IsFiniteSet(m.vvNew[b])
    BY <1>1, <2>1, FS_Subset
  <2> QED BY <2>2, FS_CardinalityType
<1> QED BY <1>2, <1>3, <1>4, <1>5

\* TriedFiled depends on the tried buckets and the addresses in them only.
LEMMA SameTried ==
    ASSUME NEW m, TriedFiled(m), NEW n, n.vvTried = m.vvTried, TriedIds(n) = TriedIds(m),
           \A i \in TriedIds(m) : n.mapInfo[i].addr = m.mapInfo[i].addr
    PROVE  TriedFiled(n)
<1>1. ASSUME NEW k \in TriedBuckets, NEW p \in 1 .. Len(n.vvTried[k])
      PROVE  /\ n.vvTried[k][p] \in TriedIds(n)
             /\ GetTriedBucket[n.mapInfo[n.vvTried[k][p]].addr] = k
  <2>1. /\ m.vvTried[k][p] \in TriedIds(m)
        /\ GetTriedBucket[m.mapInfo[m.vvTried[k][p]].addr] = k
    BY DEF TriedFiled
  <2> QED BY <2>1
<1>2. ASSUME NEW k \in TriedBuckets,
             NEW p \in 1 .. Len(n.vvTried[k]), NEW q \in 1 .. Len(n.vvTried[k]),
             n.vvTried[k][p] = n.vvTried[k][q]
      PROVE  p = q
  BY <1>2 DEF TriedFiled
<1>3. ASSUME NEW i \in TriedIds(n)
      PROVE  \E p \in 1 .. Len(n.vvTried[GetTriedBucket[n.mapInfo[i].addr]]) :
                n.vvTried[GetTriedBucket[n.mapInfo[i].addr]][p] = i
  BY DEF TriedFiled
<1> QED BY <1>1, <1>2, <1>3 DEF TriedFiled

-----------------------------------------------------------------------------

\* An entry that loses its last reference is in no bucket any more; the
\* others stay where they are.
LEMMA ShrinkKeeps ==
    ASSUME NEW m, NEW x, Consistent(m, x), NEW b \in NewBuckets, NEW id \in m.vvNew[b], id # x
    PROVE  LET n == ShrinkNew(m, b, id) IN
           /\ Consistent(n, x)
           /\ n.vvNew[b] = m.vvNew[b] \ {id}
           /\ \A i \in Ids(m) \ {id} : i \in Ids(n)
           /\ SameEntries(m, n, Ids(m) \ {id})
           /\ id \notin TriedIds(m)
<1> DEFINE c == m.mapInfo[id].nRefCount
           e == [m.mapInfo[id] EXCEPT !.nRefCount = c - 1]
           less == [m EXCEPT !.mapInfo[id].nRefCount = @ - 1]
           mid == IF less.mapInfo[id].nRefCount = 0 THEN Delete(less, id) ELSE less
           n == ShrinkNew(m, b, id)
<1>1. Indexed(m) /\ NewFiled(m, x) /\ TriedFiled(m) /\ Counted(m) /\ Bounded(m)
  BY DEF Consistent
<1>2. id \in Ids(m) /\ c = Cardinality(In(m, id)) /\ b \in In(m, id)
  <2>1. id \in Ids(m) /\ b \in In(m, id)
    BY <1>1 DEF NewFiled, In
  <2>2. Cardinality(In(m, id)) \in Nat
    BY <1>1, Finite
  <2> QED BY <1>1, <2>1, <2>2 DEF NewFiled
<1>3. c \in Nat \ {0}
  <2>1. IsFiniteSet(In(m, id)) /\ In(m, id) # {} /\ Cardinality(In(m, id)) \in Nat
    BY <1>1, <1>2, Finite
  <2> QED BY <1>2, <2>1, FS_EmptySet
<1>4. id \in NewIds(m) /\ id \notin TriedIds(m)
  BY <1>1, <1>2, <1>3 DEF NewFiled, NewIds, TriedIds, Ids
<1>5. /\ e \in Info /\ e.addr = m.mapInfo[id].addr /\ e.nRandomPos = m.mapInfo[id].nRandomPos
      /\ e.nRefCount = c - 1 /\ e.fInTried = m.mapInfo[id].fInTried
      /\ e.source = m.mapInfo[id].source /\ e.nLastSuccess = m.mapInfo[id].nLastSuccess
  <2>1. m.mapInfo[id] \in Info
    BY <1>1, <1>2 DEF Indexed, IsAddrMan, Ids
  <2> QED BY <1>3, <2>1 DEF Info
<1>6. EntryChanged(m, less, id, e)
  BY DEF EntryChanged
<1> HIDE DEF e, less
<1>7. /\ Indexed(less) /\ Ids(less) = Ids(m) /\ less.mapInfo[id] = e
      /\ \A i \in Ids(m) \ {id} : less.mapInfo[i] = m.mapInfo[i]
      /\ SameBuckets(m, less) /\ less.nNew = m.nNew /\ less.nTried = m.nTried
      /\ less.vRandom = m.vRandom
  BY <1>1, <1>2, <1>5, <1>6, EntryKeeps
<1>8. m.nNew # 0 /\ m.nNew \in Nat /\ Cardinality(NewIds(m)) = m.nNew
      /\ Len(m.vRandom) \in Nat
  <2>1. IsFiniteSet(NewIds(m)) /\ NewIds(m) # {}
    BY <1>1, <1>4, Finite
  <2> QED BY <1>1, <2>1, FS_EmptySet DEF Counted, Indexed, IsAddrMan
<1>9. /\ Indexed(mid) /\ Ids(mid) = (IF c = 1 THEN Ids(m) \ {id} ELSE Ids(m))
      /\ SameEntries(less, mid, Ids(mid)) /\ SameBuckets(less, mid)
      /\ mid.nNew = (IF c = 1 THEN m.nNew - 1 ELSE m.nNew)
      /\ mid.nTried = m.nTried
      /\ Len(mid.vRandom) = (IF c = 1 THEN Len(m.vRandom) - 1 ELSE Len(m.vRandom))
  <2>1. CASE c = 1
    <3>1. mid = Delete(less, id)
      BY <1>5, <1>7, <2>1
    <3> QED BY <1>2, <1>7, <1>8, <2>1, <3>1, DeleteKeeps
  <2>2. CASE c # 1
    <3>1. mid = less
      BY <1>3, <1>5, <1>7, <2>2
    <3> QED BY <1>7, <2>2, <3>1 DEF SameEntries, SameBuckets
  <2> QED BY <2>1, <2>2
<1>10. n = [mid EXCEPT !.vvNew[b] = @ \ {id}]
  BY DEF ShrinkNew, less
<1> HIDE DEF n, mid, c
<1>11. /\ DOMAIN n = DOMAIN mid /\ n.vvNew = [m.vvNew EXCEPT ![b] = @ \ {id}]
       /\ n.mapInfo = mid.mapInfo /\ n.mapAddr = mid.mapAddr /\ n.vRandom = mid.vRandom
       /\ n.vvTried = m.vvTried /\ n.nNew = mid.nNew /\ n.nTried = mid.nTried
       /\ n.nIdCount = mid.nIdCount
  BY <1>7, <1>9, <1>10 DEF SameBuckets, Indexed, IsAddrMan
<1>12. /\ n.vvNew[b] = m.vvNew[b] \ {id} /\ \A d \in NewBuckets \ {b} : n.vvNew[d] = m.vvNew[d]
       /\ n.vvNew \in [NewBuckets -> SUBSET (0 .. MaxId - 1)]
  BY <1>1, <1>11 DEF Indexed, IsAddrMan
<1>13. Indexed(n) /\ Ids(n) = Ids(mid)
  <2>1. n.vvTried \in [TriedBuckets -> Seq(0 .. MaxId - 1)] /\ n.nNew \in Nat /\ n.nTried \in Nat
    BY <1>1, <1>9, <1>11 DEF Indexed, IsAddrMan
  <2> QED BY <1>9, <1>11, <1>12, <2>1, BucketsKeepIndex
<1>14. /\ SameEntries(m, n, Ids(m) \ {id}) /\ (Ids(m) \ {id}) \subseteq Ids(n)
       /\ id \in Ids(n) => /\ c # 1 /\ n.mapInfo[id].nRefCount = c - 1
                           /\ n.mapInfo[id].fInTried = m.mapInfo[id].fInTried
  BY <1>5, <1>7, <1>9, <1>11, <1>13 DEF SameEntries
<1>15. /\ NewIds(n) = (IF c = 1 THEN NewIds(m) \ {id} ELSE NewIds(m))
       /\ TriedIds(n) = TriedIds(m)
  BY <1>4, <1>9, <1>13, <1>14 DEF NewIds, TriedIds, SameEntries, Ids
<1>16. /\ In(n, id) = In(m, id) \ {b} /\ \A i \in Ids(m) \ {id} : In(n, i) = In(m, i)
       /\ Cardinality(In(n, id)) = c - 1
  <2>1. In(n, id) = In(m, id) \ {b} /\ \A i \in Ids(m) \ {id} : In(n, i) = In(m, i)
    BY <1>12 DEF In
  <2>2. IsFiniteSet(In(m, id))
    BY <1>1, Finite
  <2> QED BY <1>2, <2>1, <2>2, FS_RemoveElement
<1>17. NewFiled(n, x)
  <2>1. ASSUME NEW d \in NewBuckets
        PROVE  n.vvNew[d] \subseteq Ids(n)
    <3>1. n.vvNew[d] \subseteq Ids(m)
      BY <1>1, <1>12 DEF NewFiled
    <3>2. CASE c = 1
      <4>1. IsFiniteSet(In(n, id)) /\ Cardinality(In(n, id)) = 0
        <5>1. IsFiniteSet(In(n, id))
          BY <1>13, Finite
        <5>2. Cardinality(In(n, id)) = 0
          BY <1>16, <3>2
        <5> QED BY <5>1, <5>2
      <4>2. id \notin n.vvNew[d]
        BY <4>1, FS_EmptySet DEF In
      <4> QED BY <1>14, <3>1, <4>2
    <3>3. CASE c # 1
      BY <1>9, <1>13, <3>1, <3>3
    <3> QED BY <3>2, <3>3
  <2>2. ASSUME NEW i \in Ids(n)
        PROVE  n.mapInfo[i].nRefCount = Cardinality(In(n, i)) + (IF i = x THEN 1 ELSE 0)
    <3>1. CASE i = id
      <4>1. n.mapInfo[id].nRefCount = c - 1 /\ Cardinality(In(n, id)) = c - 1 /\ c - 1 \in Int
        BY <1>3, <1>14, <1>16, <3>1
      <4> QED BY <3>1, <4>1
    <3>2. CASE i # id
      <4>1. i \in Ids(m)
        BY <1>9, <1>13
      <4> QED BY <1>1, <1>14, <1>16, <3>2, <4>1 DEF NewFiled, SameEntries
    <3> QED BY <3>1, <3>2
  <2>3. ASSUME NEW i \in NewIds(n)
        PROVE  n.mapInfo[i].nRefCount \in 1 .. BucketsPerAddress
    <3>1. i \in NewIds(m) /\ m.mapInfo[i].nRefCount \in 1 .. BucketsPerAddress /\ i \in Ids(n)
          /\ i \in Ids(m)
      BY <1>1, <1>15 DEF NewFiled, NewIds
    <3>2. BucketsPerAddress \in Nat
      BY AddrManAssumption DEF AddrManAssumption
    <3> QED BY <1>3, <1>14, <3>1, <3>2 DEF SameEntries, c
  <2>4. ASSUME NEW i \in TriedIds(n)
        PROVE  n.mapInfo[i].nRefCount = 0 /\ n.mapInfo[i].nLastSuccess # 0
    <3>1. i \in TriedIds(m) /\ i # id /\ i \in Ids(m)
      BY <1>4, <1>15 DEF TriedIds, Ids
    <3> QED BY <1>1, <1>14, <3>1 DEF NewFiled, SameEntries
  <2> QED BY <2>1, <2>2, <2>3, <2>4 DEF NewFiled
<1>18. TriedFiled(n)
  <2>1. \A i \in TriedIds(m) : n.mapInfo[i].addr = m.mapInfo[i].addr
    BY <1>4, <1>14 DEF SameEntries, TriedIds, Ids
  <2> QED BY <1>1, <1>11, <1>15, <2>1, SameTried
<1>19. Counted(n)
  <2>1. IsFiniteSet(NewIds(m))
    BY <1>1, Finite
  <2>2. Cardinality(NewIds(m) \ {id}) = Cardinality(NewIds(m)) - 1
    BY <1>4, <2>1, FS_RemoveElement
  <2>3. m.nTried \in Nat
    BY <1>1 DEF Indexed, IsAddrMan
  <2> QED BY <1>1, <1>8, <1>9, <1>11, <1>15, <2>2, <2>3 DEF Counted
<1>20. Bounded(n)
  <2>2. Cardinality(n.vvNew[b]) <= NewBucketSize
    <3>1. /\ Cardinality(m.vvNew[b] \ {id}) = Cardinality(m.vvNew[b]) - 1
          /\ Cardinality(m.vvNew[b]) \in Nat
      <4>1. IsFiniteSet(m.vvNew[b]) /\ Cardinality(m.vvNew[b]) \in Nat
        BY <1>1, Finite
      <4> QED BY <4>1, FS_RemoveElement
    <3>2. Cardinality(m.vvNew[b]) <= NewBucketSize /\ NewBucketSize \in Nat
      BY <1>1, AddrManAssumption DEF Bounded, AddrManAssumption
    <3> QED BY <1>12, <3>1, <3>2
  <2> QED BY <1>1, <1>11, <1>12, <2>2 DEF Bounded
<1> QED BY <1>4, <1>12, <1>13, <1>14, <1>17, <1>18, <1>19, <1>20 DEF Consistent, n

\* The tried entries of m are tried in n.
KeepsTried(m, n) ==
    \A i \in TriedIds(m) : i \in TriedIds(n) /\ n.mapInfo[i].addr = m.mapInfo[i].addr

\* An entry with a reference to spare goes into a bucket, and another one out
\* of it when it is full.
LEMMA PutKeeps ==
    ASSUME NEW m, NEW b \in NewBuckets, NEW id \in NewIds(m), Consistent(m, id),
           id \notin m.vvNew[b], Cardinality(m.vvNew[b]) < NewBucketSize,
           NEW n, n = [m EXCEPT !.vvNew[b] = @ \cup {id}]
    PROVE  Consistent(n, Nobody) /\ Ids(n) = Ids(m) /\ n.mapInfo = m.mapInfo
<1>1. Indexed(m) /\ NewFiled(m, id) /\ TriedFiled(m) /\ Counted(m) /\ Bounded(m) /\ IsAddrMan(m)
  BY DEF Consistent, Indexed
<1>2. id \in Ids(m) /\ Ids(m) \subseteq 0 .. MaxId - 1
  BY <1>1 DEF NewIds, IsAddrMan, Ids
<1>3. /\ DOMAIN n = DOMAIN m /\ n.vvNew = [m.vvNew EXCEPT ![b] = @ \cup {id}]
      /\ n.mapInfo = m.mapInfo /\ n.mapAddr = m.mapAddr /\ n.vRandom = m.vRandom
      /\ n.vvTried = m.vvTried /\ n.nNew = m.nNew /\ n.nTried = m.nTried
      /\ n.nIdCount = m.nIdCount
  BY <1>1 DEF IsAddrMan
<1>4. /\ n.vvNew[b] = m.vvNew[b] \cup {id} /\ \A d \in NewBuckets \ {b} : n.vvNew[d] = m.vvNew[d]
      /\ n.vvNew \in [NewBuckets -> SUBSET (0 .. MaxId - 1)]
  BY <1>1, <1>2, <1>3 DEF IsAddrMan
<1>5. Indexed(n) /\ Ids(n) = Ids(m)
  <2>1. n.vvTried \in [TriedBuckets -> Seq(0 .. MaxId - 1)] /\ n.nNew \in Nat /\ n.nTried \in Nat
    BY <1>1, <1>3 DEF IsAddrMan
  <2> QED BY <1>1, <1>3, <1>4, <2>1, BucketsKeepIndex
<1>6. NewIds(n) = NewIds(m) /\ TriedIds(n) = TriedIds(m)
  BY <1>3 DEF NewIds, TriedIds, Ids
<1>7. NewFiled(n, Nobody)
  <2>1. In(n, id) = In(m, id) \cup {b} /\ b \notin In(m, id)
        /\ \A i \in Ids(m) \ {id} : In(n, i) = In(m, i)
    BY <1>4 DEF In
  <2>2. /\ Cardinality(In(n, id)) = Cardinality(In(m, id)) + 1
        /\ \A i \in Ids(m) : Cardinality(In(m, i)) \in Nat
    BY <1>1, <2>1, Finite, FS_AddElement
  <2>3. ASSUME NEW i \in Ids(n)
        PROVE  n.mapInfo[i].nRefCount = Cardinality(In(n, i)) + (IF i = Nobody THEN 1 ELSE 0)
    <3>1. i # Nobody /\ i \in Ids(m) /\ n.mapInfo[i] = m.mapInfo[i]
      BY <1>2, <1>3, <1>5 DEF Nobody
    <3>2. CASE i = id
      BY <1>1, <2>2, <3>1, <3>2 DEF NewFiled
    <3>3. CASE i # id
      BY <1>1, <2>1, <2>2, <3>1, <3>3 DEF NewFiled
    <3> QED BY <3>2, <3>3
  <2>4. \A d \in NewBuckets : n.vvNew[d] \subseteq Ids(n)
    BY <1>1, <1>2, <1>4, <1>5 DEF NewFiled
  <2> QED BY <1>1, <1>3, <1>6, <2>3, <2>4 DEF NewFiled
<1>8. TriedFiled(n)
  BY <1>1, <1>3, <1>6, SameTried
<1>9. Counted(n)
  BY <1>1, <1>3, <1>6 DEF Counted
<1>10. Bounded(n)
  <2>1. Cardinality(n.vvNew[b]) = Cardinality(m.vvNew[b]) + 1 /\ Cardinality(m.vvNew[b]) \in Nat
    BY <1>1, <1>4, Finite, FS_AddElement
  <2>2. Cardinality(n.vvNew[b]) <= NewBucketSize
    BY <2>1, AddrManAssumption DEF AddrManAssumption
  <2> QED BY <1>1, <1>3, <1>4, <2>2 DEF Bounded
<1> QED BY <1>3, <1>5, <1>7, <1>8, <1>9, <1>10 DEF Consistent

\* Once Add_ has shrunk a full bucket there is room for entry id.
LEMMA RoomKeeps ==
    ASSUME NEW m, NEW b \in NewBuckets, NEW id \in NewIds(m), Consistent(m, id),
           id \notin m.vvNew[b], NEW old \in Evictable(m, b), NEW room,
           room = IF Cardinality(m.vvNew[b]) = NewBucketSize THEN ShrinkNew(m, b, old) ELSE m
    PROVE  /\ Consistent(room, id) /\ id \in NewIds(room)
           /\ id \notin room.vvNew[b] /\ Cardinality(room.vvNew[b]) < NewBucketSize
           /\ KeepsTried(m, room)
<1>1. Indexed(m) /\ NewFiled(m, id) /\ Bounded(m) /\ id \in Ids(m)
  BY DEF Consistent, NewIds
<1>2. /\ Cardinality(m.vvNew[b]) <= NewBucketSize /\ NewBucketSize \in Nat \ {0}
      /\ Cardinality(m.vvNew[b]) \in Nat /\ IsFiniteSet(m.vvNew[b])
  BY <1>1, Finite, AddrManAssumption DEF Bounded, AddrManAssumption
<1>3. CASE Cardinality(m.vvNew[b]) # NewBucketSize
  BY <1>2, <1>3 DEF KeepsTried, TriedIds, Ids
<1>4. CASE Cardinality(m.vvNew[b]) = NewBucketSize
  <2>1. old \in m.vvNew[b] /\ old # id
    <3>1. m.vvNew[b] # {}
      BY <1>2, <1>4, FS_EmptySet
    <3> QED BY <3>1 DEF Evictable
  <2>2. /\ Consistent(room, id) /\ room.vvNew[b] = m.vvNew[b] \ {old}
        /\ \A i \in Ids(m) \ {old} : i \in Ids(room)
        /\ SameEntries(m, room, Ids(m) \ {old}) /\ old \notin TriedIds(m)
    <3>1. room = ShrinkNew(m, b, old)
      BY <1>4
    <3> HIDE DEF Consistent
    <3>2. LET n == ShrinkNew(m, b, old) IN
          /\ Consistent(n, id) /\ n.vvNew[b] = m.vvNew[b] \ {old}
          /\ \A i \in Ids(m) \ {old} : i \in Ids(n)
          /\ SameEntries(m, n, Ids(m) \ {old}) /\ old \notin TriedIds(m)
      BY <2>1, ShrinkKeeps
    <3> QED BY <3>1, <3>2
  <2>3. Cardinality(room.vvNew[b]) = Cardinality(m.vvNew[b]) - 1
    <3>1. Cardinality(m.vvNew[b] \ {old}) = Cardinality(m.vvNew[b]) - 1
      BY <1>2, <2>1, FS_RemoveElement
    <3> QED BY <2>2, <3>1
  <2>4. id \in NewIds(room)
    BY <1>1, <2>1, <2>2 DEF NewIds, SameEntries
  <2>5. KeepsTried(m, room)
    BY <2>2 DEF KeepsTried, SameEntries, TriedIds, Ids
  <2> QED BY <1>2, <2>2, <2>3, <2>4, <2>5
<1> QED BY <1>3, <1>4

\* The reference that Add_ counts before it makes room: an entry that may have
\* none yet gets one.
LEMMA RefKeeps ==
    ASSUME NEW m, Indexed(m), TriedFiled(m), Counted(m), Bounded(m), NEW id \in NewIds(m),
           \A b \in NewBuckets : m.vvNew[b] \subseteq Ids(m),
           \A i \in Ids(m) : m.mapInfo[i].nRefCount = Cardinality(In(m, i)),
           \A i \in NewIds(m) \ {id} : m.mapInfo[i].nRefCount \in 1 .. BucketsPerAddress,
           m.mapInfo[id].nRefCount \in 0 .. BucketsPerAddress - 1,
           \A i \in TriedIds(m) : m.mapInfo[i].nRefCount = 0 /\ m.mapInfo[i].nLastSuccess # 0
    PROVE  LET n == [m EXCEPT !.mapInfo[id].nRefCount = @ + 1] IN
           /\ Consistent(n, id) /\ id \in NewIds(n) /\ n.vvNew = m.vvNew
           /\ KeepsTried(m, n)
<1> DEFINE c == m.mapInfo[id].nRefCount
           e == [m.mapInfo[id] EXCEPT !.nRefCount = c + 1]
           n == [m EXCEPT !.mapInfo[id].nRefCount = @ + 1]
<1>1. id \in Ids(m) /\ id \notin TriedIds(m) /\ ~m.mapInfo[id].fInTried
  BY DEF NewIds, TriedIds
<1>2. c \in Nat /\ c + 1 \in 1 .. BucketsPerAddress
  BY AddrManAssumption DEF AddrManAssumption
<1>3. /\ e \in Info /\ e.addr = m.mapInfo[id].addr /\ e.nRandomPos = m.mapInfo[id].nRandomPos
      /\ e.nRefCount = c + 1 /\ e.fInTried = m.mapInfo[id].fInTried
  <2>1. m.mapInfo[id] \in Info
    BY <1>1 DEF Indexed, IsAddrMan, Ids
  <2> QED BY <1>2, <2>1 DEF Info
<1>4. EntryChanged(m, n, id, e)
  BY DEF EntryChanged
<1> HIDE DEF e, n
<1>5. /\ Indexed(n) /\ Ids(n) = Ids(m) /\ n.mapInfo[id] = e
      /\ \A i \in Ids(m) \ {id} : n.mapInfo[i] = m.mapInfo[i]
      /\ SameBuckets(m, n) /\ n.nNew = m.nNew /\ n.nTried = m.nTried
      /\ n.vRandom = m.vRandom
  BY <1>1, <1>3, <1>4, EntryKeeps
<1>6. NewIds(n) = NewIds(m) /\ TriedIds(n) = TriedIds(m)
  BY <1>1, <1>3, <1>5 DEF NewIds, TriedIds, Ids
<1>7. \A i \in Ids(m) : In(n, i) = In(m, i)
  BY <1>5 DEF In, SameBuckets
<1>8. NewFiled(n, id)
  <2>1. \A d \in NewBuckets : n.vvNew[d] \subseteq Ids(n)
    BY <1>5 DEF SameBuckets
  <2>2. ASSUME NEW i \in Ids(n)
        PROVE  n.mapInfo[i].nRefCount = Cardinality(In(n, i)) + (IF i = id THEN 1 ELSE 0)
    <3>1. Cardinality(In(m, i)) \in Nat
      BY Finite
    <3> QED BY <1>1, <1>3, <1>5, <1>7, <3>1
  <2>3. \A i \in NewIds(n) : n.mapInfo[i].nRefCount \in 1 .. BucketsPerAddress
    BY <1>2, <1>3, <1>5, <1>6 DEF NewIds
  <2>4. \A i \in TriedIds(n) : n.mapInfo[i].nRefCount = 0 /\ n.mapInfo[i].nLastSuccess # 0
    BY <1>1, <1>5, <1>6 DEF TriedIds, Ids
  <2> QED BY <2>1, <2>2, <2>3, <2>4 DEF NewFiled
<1>9. \A i \in TriedIds(m) : i \in TriedIds(n) /\ n.mapInfo[i].addr = m.mapInfo[i].addr
  BY <1>1, <1>5 DEF TriedIds, Ids
<1>10. TriedFiled(n)
  BY <1>5, <1>6, <1>9, SameTried DEF SameBuckets
<1>11. Counted(n) /\ Bounded(n)
  BY <1>5, <1>6 DEF Counted, Bounded, SameBuckets
<1> QED BY <1>5, <1>6, <1>8, <1>9, <1>10, <1>11 DEF Consistent, KeepsTried, SameBuckets, n

\* Add_.
LEMMA AddKeeps ==
    ASSUME Consistent(am, Nobody), NEW a \in Addresses, NEW s \in Sources, Add(a, s)
    PROVE  Consistent(am', Nobody) /\ KeepsTried(am, am')
<1> DEFINE isKnown == a \in DOMAIN am.mapAddr
           m == IF isKnown THEN am ELSE Create(am, a, s)
           id == m.mapAddr[a]
           b == GetNewBucket[a][s]
           more == [m EXCEPT !.mapInfo[id].nRefCount = @ + 1]
<1>1. /\ Indexed(am) /\ NewFiled(am, Nobody) /\ TriedFiled(am) /\ Counted(am) /\ Bounded(am)
      /\ b \in NewBuckets
  BY AddrManAssumption DEF Consistent, AddrManAssumption
<1>2. /\ isKnown => /\ ~am.mapInfo[id].fInTried
                  /\ am.mapInfo[id].nRefCount # BucketsPerAddress
      /\ isKnown \/ am.nIdCount < MaxId
      /\ \E old \in Evictable(m, b) : am' = Insert(m, id, b, old)
  BY DEF Add
<1>3. \A i \in Ids(am) : /\ i # Nobody /\ Cardinality(In(am, i)) \in Nat
                         /\ am.mapInfo[i].nRefCount = Cardinality(In(am, i))
  <2>1. \A i \in Ids(am) : i # Nobody /\ Cardinality(In(am, i)) \in Nat
    <3>1. Ids(am) \subseteq 0 .. MaxId - 1
      BY <1>1 DEF Indexed, IsAddrMan, Ids
    <3>2. \A i : Cardinality(In(am, i)) \in Nat
      BY <1>1, Finite
    <3> QED BY <3>1, <3>2 DEF Nobody
  <2> QED BY <1>1, <2>1 DEF NewFiled
<1>4. /\ Indexed(m) /\ TriedFiled(m) /\ Counted(m) /\ Bounded(m) /\ id \in NewIds(m)
      /\ \A d \in NewBuckets : m.vvNew[d] \subseteq Ids(m)
      /\ \A i \in Ids(m) : m.mapInfo[i].nRefCount = Cardinality(In(m, i))
      /\ \A i \in NewIds(m) \ {id} : m.mapInfo[i].nRefCount \in 1 .. BucketsPerAddress
      /\ m.mapInfo[id].nRefCount \in 0 .. BucketsPerAddress - 1
      /\ \A i \in TriedIds(m) : m.mapInfo[i].nRefCount = 0 /\ m.mapInfo[i].nLastSuccess # 0
      /\ KeepsTried(am, m)
  <2>1. CASE isKnown
    <3>1. id \in NewIds(am)
      BY <1>1, <1>2, <2>1 DEF Indexed, AddrsAgree, NewIds
    <3>2. am.mapInfo[id].nRefCount \in 0 .. BucketsPerAddress - 1
      <4>1. am.mapInfo[id].nRefCount \in 1 .. BucketsPerAddress
        BY <1>1, <3>1 DEF NewFiled
      <4>2. am.mapInfo[id].nRefCount # BucketsPerAddress
        BY <1>2, <2>1
      <4>3. BucketsPerAddress \in Nat
        BY AddrManAssumption DEF AddrManAssumption
      <4> HIDE DEF id
      <4> QED BY <4>1, <4>2, <4>3
    <3> QED BY <1>1, <1>3, <2>1, <3>1, <3>2 DEF NewFiled, KeepsTried, TriedIds, Ids
  <2>2. CASE ~isKnown
    <3> DEFINE i0 == am.nIdCount
    <3>1. m = Create(am, a, s)
      BY <2>2
    <3>2. /\ Indexed(m) /\ Ids(m) = Ids(am) \cup {i0} /\ i0 \notin Ids(am)
          /\ \A i \in Ids(am) : m.mapInfo[i] = am.mapInfo[i]
          /\ m.mapInfo[i0].addr = a /\ id = i0
          /\ ~m.mapInfo[i0].fInTried /\ m.mapInfo[i0].nRefCount = 0
          /\ SameBuckets(am, m) /\ m.nNew = am.nNew + 1 /\ m.nTried = am.nTried
          /\ Len(m.vRandom) = Len(am.vRandom) + 1
      BY <1>1, <1>2, <2>2, <3>1, CreateKeeps
    <3> HIDE DEF m, id, i0
    <3>3. NewIds(m) = NewIds(am) \cup {id} /\ TriedIds(m) = TriedIds(am) /\ id \notin NewIds(am)
      BY <3>2 DEF NewIds, TriedIds, Ids
    <3>4. \A d \in NewBuckets : m.vvNew[d] \subseteq Ids(m) /\ id \notin m.vvNew[d]
      BY <1>1, <3>2 DEF NewFiled, SameBuckets
    <3>5. \A i \in Ids(m) : m.mapInfo[i].nRefCount = Cardinality(In(m, i))
      <4>1. In(m, id) = {} /\ \A i \in Ids(am) : In(m, i) = In(am, i)
        BY <3>2, <3>4 DEF In, SameBuckets
      <4>2. Cardinality(In(m, id)) = 0
        BY <4>1, FS_EmptySet
      <4> QED BY <1>3, <3>2, <4>1, <4>2
    <3>6. /\ \A i \in NewIds(m) \ {id} : m.mapInfo[i].nRefCount \in 1 .. BucketsPerAddress
          /\ \A i \in TriedIds(m) : m.mapInfo[i].nRefCount = 0 /\ m.mapInfo[i].nLastSuccess # 0
      BY <1>1, <3>2, <3>3 DEF NewFiled, NewIds, TriedIds, Ids
    <3>7. m.mapInfo[id].nRefCount \in 0 .. BucketsPerAddress - 1
      BY <3>2, AddrManAssumption DEF AddrManAssumption
    <3>8. KeepsTried(am, m)
      BY <3>2 DEF KeepsTried, TriedIds, Ids
    <3>9. TriedFiled(m)
      BY <1>1, <3>2, <3>3, <3>8, SameTried DEF KeepsTried, SameBuckets
    <3>10. Counted(m)
      <4>1. IsFiniteSet(NewIds(am))
        BY <1>1, Finite
      <4>2. Cardinality(NewIds(m)) = Cardinality(NewIds(am)) + 1
        BY <3>3, <4>1, FS_AddElement
      <4>3. am.nNew \in Nat /\ am.nTried \in Nat /\ Len(am.vRandom) \in Nat
        BY <1>1 DEF Indexed, IsAddrMan
      <4> QED BY <1>1, <3>2, <3>3, <4>2, <4>3 DEF Counted
    <3>11. Bounded(m)
      BY <1>1, <3>2 DEF Bounded, SameBuckets
    <3> QED BY <3>2, <3>3, <3>4, <3>5, <3>6, <3>7, <3>8, <3>9, <3>10, <3>11
  <2> QED BY <2>1, <2>2
<1>5. PICK old \in Evictable(m, b) : am' = Insert(m, id, b, old)
  BY <1>2
<1>6. CASE id \in m.vvNew[b]
  <2>1. am' = m
    BY <1>5, <1>6 DEF Insert
  <2>2. isKnown
    <3> SUFFICES ASSUME ~isKnown PROVE FALSE
      OBVIOUS
    <3>1. id = am.nIdCount /\ am.nIdCount \notin Ids(am) /\ m.vvNew = am.vvNew
      BY <1>1, <1>2, CreateKeeps DEF SameBuckets
    <3> QED BY <1>1, <1>6, <3>1 DEF NewFiled
  <2> QED BY <2>1, <2>2 DEF KeepsTried, TriedIds, Ids
<1>7. CASE id \notin m.vvNew[b]
  <2> HIDE DEF m, id, b, isKnown
  <2>1. /\ Consistent(more, id) /\ id \in NewIds(more) /\ more.vvNew = m.vvNew
        /\ KeepsTried(m, more)
    BY <1>4, RefKeeps
  <2> DEFINE room == IF Cardinality(more.vvNew[b]) = NewBucketSize
                     THEN ShrinkNew(more, b, old) ELSE more
  <2>2. am' = [room EXCEPT !.vvNew[b] = @ \cup {id}]
    BY <1>5, <1>7, <2>1 DEF Insert
  <2> HIDE DEF more
  <2>3. old \in Evictable(more, b)
    BY <2>1 DEF Evictable
  <2>4. /\ Consistent(room, id) /\ id \in NewIds(room)
        /\ id \notin room.vvNew[b] /\ Cardinality(room.vvNew[b]) < NewBucketSize
        /\ KeepsTried(more, room)
    BY <1>1, <1>7, <2>1, <2>3, RoomKeeps
  <2> HIDE DEF room
  <2>5. Consistent(am', Nobody) /\ Ids(am') = Ids(room) /\ am'.mapInfo = room.mapInfo
    BY <1>1, <2>2, <2>4, PutKeeps
  <2>6. KeepsTried(am, am')
    <3>1. TriedIds(am') = TriedIds(room)
      BY <2>5 DEF TriedIds
    <3> QED BY <1>4, <2>1, <2>4, <2>5, <3>1 DEF KeepsTried
  <2> QED BY <2>5, <2>6
<1> QED BY <1>6, <1>7

-----------------------------------------------------------------------------

\* A set of numbers that is not empty has a least one.
LEMMA LeastNatural ==
    ASSUME NEW T \in SUBSET Nat, T # {}
    PROVE  \E m \in T : \A k \in T : m <= k
<1> DEFINE I == {0 .. x : x \in T}
<1>1. ASSUME NEW x \in T
      PROVE  0 .. x \in FiniteSubsetsOf(Nat)
  <2>1. IsFiniteSet(0 .. x)
    BY FS_Interval
  <2>2. 0 .. x \subseteq Nat
    OBVIOUS
  <2> QED BY <2>1, <2>2, Zenon DEF FiniteSubsetsOf
<1>2. \E x \in I : \A y \in I : ~ (<<y, x>> \in StrictSubsetOrdering(Nat))
  <2>1. I \subseteq FiniteSubsetsOf(Nat) /\ I # {}
    BY <1>1, Zenon
  <2> QED BY <2>1, FS_StrictSubsetOrderingWellFounded, WFMin, Zenon
<1>3. PICK m \in T : \A k \in T : ~ (<<0 .. k, 0 .. m>> \in StrictSubsetOrdering(Nat))
  BY <1>2, Zenon
<1>4. ASSUME NEW k \in T, k < m
      PROVE  FALSE
  <2>1. 0 .. k \subseteq 0 .. m /\ 0 .. k # 0 .. m
    <3>1. k \in Nat /\ m \in Nat
      OBVIOUS
    <3>2. m \in 0 .. m /\ m \notin 0 .. k
      BY <3>1, <1>4
    <3> QED BY <3>1, <3>2, <1>4
  <2>2. 0 .. k \in SUBSET Nat /\ 0 .. m \in SUBSET Nat
    OBVIOUS
  <2>3. <<0 .. k, 0 .. m>> \in StrictSubsetOrdering(Nat)
    BY <2>1, <2>2, Zenon DEF StrictSubsetOrdering
  <2> QED BY <2>3, <1>3, Zenon
<1> QED BY <1>3, <1>4

\* Induction over the turns of a loop.
LEMMA TurnInduction ==
    ASSUME NEW n \in Nat, NEW S \in SUBSET (0 .. n), 0 \in S,
           \A i \in S : i < n => i + 1 \in S
    PROVE  S = 0 .. n
<1> DEFINE T == (0 .. n) \ S
<1> SUFFICES ASSUME T # {} PROVE FALSE
  OBVIOUS
<1>1. PICK k \in T : \A j \in T : k <= j
  <2>1. T \in SUBSET Nat
    OBVIOUS
  <2> HIDE DEF T
  <2> QED BY <2>1, LeastNatural
<1>2. k # 0 /\ k - 1 \in 0 .. n /\ k - 1 < n
  BY <1>1
<1>3. k - 1 \in S
  BY <1>1, <1>2
<1> QED BY <1>1, <1>2, <1>3

\* f gives the state after each turn of GetAddr_'s shuffle, up to turn k.
ShuffleTurns(f, m, r, k) ==
    f = [i \in 0 .. k |-> IF i = 0 THEN m ELSE SwapRandom(f[i - 1], i, r[i])]

\* There is such an f: the recursive definition has a solution.
LEMMA ShuffleTurnsExist ==
    ASSUME NEW m, NEW r, NEW n \in Nat
    PROVE  \E f : ShuffleTurns(f, m, r, n)
<1> DEFINE S == {k \in 0 .. n : \E f : ShuffleTurns(f, m, r, k)}
<1>1. 0 \in S
  <2> DEFINE f == [i \in 0 .. 0 |-> m]
  <2>1. \A i \in 0 .. 0 : i = 0
    OBVIOUS
  <2>2. f = [i \in 0 .. 0 |-> IF i = 0 THEN m ELSE SwapRandom(f[i - 1], i, r[i])]
    BY <2>1
  <2>3. ShuffleTurns(f, m, r, 0)
    BY <2>2 DEF ShuffleTurns
  <2> QED BY <2>3
<1>2. ASSUME NEW k \in S, k < n
      PROVE  k + 1 \in S
  <2>1. PICK f : ShuffleTurns(f, m, r, k)
    OBVIOUS
  <2> DEFINE g == [i \in 0 .. k + 1 |-> IF i = k + 1 THEN SwapRandom(f[k], k + 1, r[k + 1])
                                        ELSE f[i]]
             h == [i \in 0 .. k + 1 |-> IF i = 0 THEN m ELSE SwapRandom(g[i - 1], i, r[i])]
  <2>2. k \in Nat /\ k + 1 \in 0 .. n
    BY <1>2
  <2>3. ASSUME NEW i \in 0 .. k + 1
        PROVE  g[i] = h[i]
    <3>1. CASE i = 0
      BY <2>1, <2>2, <3>1 DEF ShuffleTurns
    <3>2. CASE i # 0 /\ i # k + 1
      <4>1. i \in 0 .. k /\ i - 1 \in 0 .. k /\ i - 1 \in 0 .. k + 1 /\ i - 1 # k + 1
        BY <2>2, <3>2
      <4>2. g[i] = f[i] /\ g[i - 1] = f[i - 1]
        BY <3>2, <4>1
      <4>3. f[i] = SwapRandom(f[i - 1], i, r[i])
        BY <2>1, <3>2, <4>1 DEF ShuffleTurns
      <4> QED BY <3>2, <4>2, <4>3
    <3>3. CASE i = k + 1
      <4>1. k \in 0 .. k + 1 /\ k # k + 1 /\ i # 0 /\ i - 1 = k
        BY <2>2, <3>3
      <4>2. g[i] = SwapRandom(f[k], k + 1, r[k + 1]) /\ g[k] = f[k]
        BY <3>3, <4>1
      <4>3. h[i] = SwapRandom(g[k], k + 1, r[k + 1])
        BY <3>3, <4>1
      <4> QED BY <4>2, <4>3
    <3> QED BY <3>1, <3>2, <3>3
  <2>4. g = h
    BY <2>3, Zenon
  <2>5. ShuffleTurns(g, m, r, k + 1)
    BY <2>4 DEF ShuffleTurns
  <2> QED BY <2>2, <2>5
<1>3. S = 0 .. n
  BY <1>1, <1>2, TurnInduction
<1> QED BY <1>3

\* n is m with some entries of vRandom swapped.
Swapped(m, n) ==
    /\ Indexed(n) /\ Ids(n) = Ids(m) /\ SameEntries(m, n, Ids(m)) /\ SameBuckets(m, n)
    /\ n.nNew = m.nNew /\ n.nTried = m.nTried /\ Len(n.vRandom) = Len(m.vRandom)

\* A shuffle of vRandom, of any length, is a number of swaps.
LEMMA ShuffledKeeps ==
    ASSUME NEW m, Indexed(m), NEW n \in Nat, NEW r \in Shuffles(n, Len(m.vRandom))
    PROVE  Swapped(m, Shuffled(m, r, n))
<1> DEFINE turn[i \in 0 .. n] == IF i = 0 THEN m ELSE SwapRandom(turn[i - 1], i, r[i])
           S == {i \in 0 .. n : Swapped(m, turn[i])}
<1>1. ShuffleTurns(turn, m, r, n)
  <2> DEFINE E(f) == ShuffleTurns(f, m, r, n)
  <2>1. \E f : E(f)
    BY ShuffleTurnsExist
  <2>2. turn = CHOOSE f : E(f)
    BY DEF ShuffleTurns
  <2>3. E(CHOOSE f : E(f))
    <3> HIDE DEF E
    <3> QED BY <2>1, Zenon
  <2> HIDE DEF turn
  <2> QED BY <2>2, <2>3, Zenon
<1>2. Shuffled(m, r, n) = turn[n]
  BY DEF Shuffled
<1> HIDE DEF turn
<1>3. turn[0] = m
  BY <1>1 DEF ShuffleTurns
<1>4. ASSUME NEW i \in 0 .. n, i < n
      PROVE  turn[i + 1] = SwapRandom(turn[i], i + 1, r[i + 1])
  BY <1>1, <1>4 DEF ShuffleTurns
<1>5. 0 \in S
  BY <1>3 DEF Swapped, SameEntries, SameBuckets
<1>6. ASSUME NEW i \in S, i < n
      PROVE  i + 1 \in S
  <2>1. /\ i + 1 \in 1 .. n /\ r[i + 1] \in 1 .. Len(m.vRandom) /\ r[i + 1] >= i + 1
        /\ Len(m.vRandom) \in Nat
    BY <1>6 DEF Shuffles, Indexed, IsAddrMan
  <2>2. /\ i + 1 \in 1 .. Len(turn[i].vRandom) /\ r[i + 1] \in 1 .. Len(turn[i].vRandom)
        /\ Indexed(turn[i]) /\ Swapped(m, turn[i])
    BY <2>1 DEF Swapped
  <2>3. Swapped(turn[i], SwapRandom(turn[i], i + 1, r[i + 1]))
    BY <2>2, SwapKeeps DEF Swapped
  <2>4. Swapped(m, SwapRandom(turn[i], i + 1, r[i + 1]))
    BY <2>2, <2>3 DEF Swapped, SameEntries, SameBuckets
  <2> QED BY <1>4, <1>6, <2>1, <2>4
<1>7. S = 0 .. n
  <2> HIDE DEF S
  <2>1. S \in SUBSET (0 .. n)
    BY DEF S
  <2> QED BY <1>5, <1>6, <2>1, TurnInduction
<1> QED BY <1>2, <1>7

\* Where an entry is in vRandom does not matter for the buckets.
LEMMA SwappedKeeps ==
    ASSUME NEW m, Consistent(m, Nobody), NEW n, Swapped(m, n)
    PROVE  Consistent(n, Nobody) /\ KeepsTried(m, n)
<1>1. NewIds(n) = NewIds(m) /\ TriedIds(n) = TriedIds(m) /\ \A i : In(n, i) = In(m, i)
  BY DEF Swapped, SameEntries, SameBuckets, NewIds, TriedIds, Ids, In
<1>2. KeepsTried(m, n)
  BY <1>1 DEF KeepsTried, Swapped, SameEntries, TriedIds, Ids
<1>3. NewFiled(n, Nobody)
  <2>1. \A b \in NewBuckets : n.vvNew[b] \subseteq Ids(n)
    BY DEF Swapped, SameBuckets, Consistent, NewFiled
  <2>2. \A i \in Ids(n) :
           n.mapInfo[i].nRefCount = Cardinality(In(n, i)) + (IF i = Nobody THEN 1 ELSE 0)
    BY <1>1 DEF Swapped, SameEntries, Consistent, NewFiled
  <2>3. \A i \in NewIds(n) : n.mapInfo[i].nRefCount \in 1 .. BucketsPerAddress
    BY <1>1 DEF Swapped, SameEntries, Consistent, NewFiled, NewIds
  <2>4. \A i \in TriedIds(n) : n.mapInfo[i].nRefCount = 0 /\ n.mapInfo[i].nLastSuccess # 0
    BY <1>1 DEF Swapped, SameEntries, Consistent, NewFiled, TriedIds, Ids
  <2> QED BY <2>1, <2>2, <2>3, <2>4 DEF NewFiled
<1>4. TriedFiled(n)
  BY <1>1, <1>2, SameTried DEF Swapped, SameBuckets, Consistent, KeepsTried
<1>5. Counted(n) /\ Bounded(n)
  BY <1>1 DEF Swapped, SameBuckets, Consistent, Counted, Bounded
<1> QED BY <1>2, <1>3, <1>4, <1>5 DEF Consistent, Swapped

\* GetAddr_ changes the order of vRandom and nothing else.
LEMMA GetAddrKeeps ==
    ASSUME Consistent(am, Nobody), GetAddr
    PROVE  Consistent(am', Nobody) /\ KeepsTried(am, am')
<1> DEFINE nPct == (GetAddrPct * Len(am.vRandom)) \div 100
           n == IF nPct > GetAddrMax THEN GetAddrMax ELSE nPct
<1>1. n \in Nat
  <2>1. GetAddrPct \in Nat /\ GetAddrMax \in Nat /\ Len(am.vRandom) \in Nat
    <3>1. GetAddrPct \in 0 .. 100 /\ GetAddrMax \in Nat
      BY AddrManAssumption DEF AddrManAssumption
    <3>2. Len(am.vRandom) \in Nat
      BY DEF Consistent, Indexed, IsAddrMan
    <3> QED BY <3>1, <3>2
  <2>2. \A x, y \in Nat : x * y \in Nat
    OBVIOUS
  <2>3. \A x \in Nat : x \div 100 \in Nat
    OBVIOUS
  <2> QED BY <2>1, <2>2, <2>3
<1>2. PICK r \in Shuffles(n, Len(am.vRandom)) : am' = Shuffled(am, r, n)
  BY DEF GetAddr
<1>3. Swapped(am, am')
  BY <1>1, <1>2, ShuffledKeeps DEF Consistent
<1> QED BY <1>3, SwappedKeeps

-----------------------------------------------------------------------------

NoRepeats(v) == \A p, q \in 1 .. Len(v) : v[p] = v[q] => p = q

\* w has the elements of v in another order.
Permuted(v, w) ==
    /\ Len(w) = Len(v) /\ NoRepeats(w)
    /\ \A p \in 1 .. Len(v) : \E q \in 1 .. Len(v) : w[p] = v[q]
    /\ \A q \in 1 .. Len(v) : \E p \in 1 .. Len(v) : v[q] = w[p]

\* A further swap of a shuffled bucket leaves it a shuffled bucket.
LEMMA SwapPermutes ==
    ASSUME NEW S, NEW v \in Seq(S), NEW u \in Seq(S), Permuted(v, u),
           NEW p \in 1 .. Len(v), NEW q \in 1 .. Len(v),
           NEW w, w = [u EXCEPT ![p] = u[q], ![q] = u[p]]
    PROVE  w \in Seq(S) /\ Permuted(v, w)
<1> DEFINE other(k) == IF k = p THEN q ELSE IF k = q THEN p ELSE k
<1>1. Len(u) = Len(v) /\ p \in 1 .. Len(u) /\ q \in 1 .. Len(u)
  BY DEF Permuted
<1>2. /\ w \in Seq(S) /\ Len(w) = Len(u) /\ w[p] = u[q] /\ w[q] = u[p]
      /\ \A k \in 1 .. Len(u) : k # p /\ k # q => w[k] = u[k]
  BY <1>1, SwapPlaces
<1>3. \A k \in 1 .. Len(v) : /\ other(k) \in 1 .. Len(v) /\ w[k] = u[other(k)]
                             /\ other(other(k)) = k
  BY <1>1, <1>2
<1> HIDE DEF other
<1>4. NoRepeats(w)
  <2>1. ASSUME NEW k \in 1 .. Len(v), NEW l \in 1 .. Len(v), w[k] = w[l]
        PROVE  k = l
    <3>1. u[other(k)] = u[other(l)] /\ other(k) \in 1 .. Len(u) /\ other(l) \in 1 .. Len(u)
      BY <1>1, <1>3, <2>1
    <3>2. other(k) = other(l)
      BY <3>1 DEF Permuted, NoRepeats
    <3> QED BY <1>3, <3>2
  <2> QED BY <1>1, <1>2, <2>1 DEF NoRepeats
<1>5. ASSUME NEW k \in 1 .. Len(v)
      PROVE  \E l \in 1 .. Len(v) : w[k] = v[l]
  <2>1. other(k) \in 1 .. Len(v) /\ w[k] = u[other(k)]
    BY <1>3
  <2>2. PICK l \in 1 .. Len(v) : u[other(k)] = v[l]
    BY <2>1 DEF Permuted
  <2> QED BY <2>1, <2>2
<1>6. ASSUME NEW k \in 1 .. Len(v)
      PROVE  \E l \in 1 .. Len(v) : v[k] = w[l]
  <2>1. PICK l \in 1 .. Len(v) : v[k] = u[l]
    BY DEF Permuted
  <2>2. other(l) \in 1 .. Len(v) /\ w[other(l)] = u[l]
    BY <1>3
  <2> QED BY <2>1, <2>2
<1> QED BY <1>1, <1>2, <1>4, <1>5, <1>6 DEF Permuted

\* f gives the state after each turn of SelectTried, up to turn k.
SelectTurns(f, m, v, r, k) ==
    f = [i \in 0 .. k |->
            IF i = 0 THEN [v |-> v, nOldest |-> -1, nPos |-> 0]
            ELSE InspectTurn(m, f[i - 1], i, r[i])]

\* The function of turns in SelectTried exists.
LEMMA SelectTurnsExist ==
    ASSUME NEW m, NEW v, NEW r, NEW n \in Nat
    PROVE  \E f : SelectTurns(f, m, v, r, n)
<1> DEFINE S == {k \in 0 .. n : \E f : SelectTurns(f, m, v, r, k)}
           z == [v |-> v, nOldest |-> -1, nPos |-> 0]
<1> HIDE DEF z
<1>1. 0 \in S
  <2> DEFINE f == [i \in 0 .. 0 |-> z]
  <2>1. \A i \in 0 .. 0 : i = 0
    OBVIOUS
  <2>2. f = [i \in 0 .. 0 |-> IF i = 0 THEN z ELSE InspectTurn(m, f[i - 1], i, r[i])]
    BY <2>1
  <2>3. SelectTurns(f, m, v, r, 0)
    BY <2>2 DEF SelectTurns, z
  <2> QED BY <2>3
<1>2. ASSUME NEW k \in S, k < n
      PROVE  k + 1 \in S
  <2>1. PICK f : SelectTurns(f, m, v, r, k)
    OBVIOUS
  <2>2. /\ k \in Nat /\ k + 1 \in 0 .. n /\ f[0] = z
        /\ \A i \in 1 .. k : f[i] = InspectTurn(m, f[i - 1], i, r[i])
    BY <1>2, <2>1 DEF SelectTurns, z
  <2> DEFINE g == [i \in 0 .. k + 1 |-> IF i = k + 1 THEN InspectTurn(m, f[k], k + 1, r[k + 1])
                                        ELSE f[i]]
             h == [i \in 0 .. k + 1 |-> IF i = 0 THEN z
                                        ELSE InspectTurn(m, g[i - 1], i, r[i])]
  <2>3. ASSUME NEW i \in 0 .. k + 1
        PROVE  g[i] = h[i]
    <3>1. CASE i = 0
      BY <2>2, <3>1
    <3>2. CASE i # 0 /\ i # k + 1
      <4>1. i \in 1 .. k /\ i - 1 \in 0 .. k + 1 /\ i - 1 # k + 1
        BY <2>2, <3>2
      <4>2. g[i] = f[i] /\ g[i - 1] = f[i - 1]
        BY <3>2, <4>1
      <4> QED BY <2>2, <3>2, <4>1, <4>2
    <3>3. CASE i = k + 1
      <4>1. k \in 0 .. k + 1 /\ k # k + 1 /\ i # 0 /\ i - 1 = k
        BY <2>2, <3>3
      <4>2. g[i] = InspectTurn(m, f[k], k + 1, r[k + 1]) /\ g[k] = f[k]
        BY <3>3, <4>1
      <4>3. h[i] = InspectTurn(m, g[k], k + 1, r[k + 1])
        BY <3>3, <4>1
      <4> QED BY <4>2, <4>3
    <3> QED BY <3>1, <3>2, <3>3
  <2>4. g = h
    BY <2>3, Zenon
  <2>5. SelectTurns(g, m, v, r, k + 1)
    BY <2>4 DEF SelectTurns, z
  <2> QED BY <2>2, <2>5
<1>3. S = 0 .. n
  BY <1>1, <1>2, TurnInduction
<1> QED BY <1>3

\* SelectTried shuffles the bucket and picks one of its places.
LEMMA SelectPermutes ==
    ASSUME NEW m, NEW S, NEW v \in Seq(S), NoRepeats(v), Len(v) # 0,
           NEW r \in Shuffles(InspectCount(v), Len(v))
    PROVE  LET picked == SelectTried(m, v, r) IN
           picked.v \in Seq(S) /\ Permuted(v, picked.v) /\ picked.nPos \in 1 .. Len(v)
<1> DEFINE n == InspectCount(v)
           turn[i \in 0 .. n] ==
               IF i = 0 THEN [v |-> v, nOldest |-> -1, nPos |-> 0]
               ELSE InspectTurn(m, turn[i - 1], i, r[i])
           T == {i \in 0 .. n :
                   /\ DOMAIN turn[i] = {"v", "nOldest", "nPos"}
                   /\ turn[i].v \in Seq(S) /\ Permuted(v, turn[i].v)
                   /\ i = 0 => turn[i].nOldest = -1
                   /\ i # 0 => turn[i].nPos \in 1 .. Len(v)}
<1>1. n \in Nat \ {0} /\ Len(v) \in Nat
  BY AddrManAssumption DEF AddrManAssumption, InspectCount
<1>2. SelectTurns(turn, m, v, r, n)
  <2> DEFINE E(f) == SelectTurns(f, m, v, r, n)
  <2>1. \E f : E(f)
    BY <1>1, SelectTurnsExist
  <2>2. turn = CHOOSE f : E(f)
    BY DEF SelectTurns
  <2>3. E(CHOOSE f : E(f))
    <3> HIDE DEF E
    <3> QED BY <2>1, Zenon
  <2> HIDE DEF turn
  <2> QED BY <2>2, <2>3, Zenon
<1>3. SelectTried(m, v, r) = turn[n]
  BY DEF SelectTried
<1> HIDE DEF turn, n
<1>4. /\ turn[0] = [v |-> v, nOldest |-> -1, nPos |-> 0]
      /\ \A i \in 1 .. n : turn[i] = InspectTurn(m, turn[i - 1], i, r[i])
  BY <1>1, <1>2 DEF SelectTurns
<1>5. 0 \in T
  <2>1. Permuted(v, v)
    BY DEF Permuted
  <2>2. 0 \in 0 .. n
    BY <1>1
  <2> QED BY <1>4, <2>1, <2>2
<1>6. ASSUME NEW i \in T, i < n
      PROVE  i + 1 \in T
  <2> DEFINE last == turn[i]
             j == i + 1
             p == r[i + 1]
             w == [last.v EXCEPT ![p] = last.v[j], ![j] = last.v[p]]
  <2>1. /\ j \in 1 .. n /\ p \in 1 .. Len(v) /\ j \in 1 .. Len(v) /\ j - 1 = i /\ j # 0
    <3>1. j \in 1 .. n /\ j - 1 = i /\ j # 0
      BY <1>1, <1>6
    <3>2. r[j] \in 1 .. Len(v) /\ r[j] >= j
      BY <3>1 DEF Shuffles, n
    <3> QED BY <1>1, <3>1, <3>2
  <2>2. turn[j] = InspectTurn(m, last, j, p)
    BY <1>4, <2>1
  <2>3. /\ DOMAIN last = {"v", "nOldest", "nPos"} /\ last.v \in Seq(S) /\ Permuted(v, last.v)
        /\ last.nOldest # -1 => last.nPos \in 1 .. Len(v)
    OBVIOUS
  <2>4. w \in Seq(S) /\ Permuted(v, w)
    BY <2>1, <2>3, SwapPermutes
  <2> HIDE DEF last, p, w, T
  <2>5. \/ turn[j] = [v |-> w, nOldest |-> last.v[p], nPos |-> p]
        \/ last.nOldest # -1 /\ turn[j] = [last EXCEPT !.v = w]
    BY <2>2 DEF InspectTurn, w
  <2>6. /\ DOMAIN turn[j] = {"v", "nOldest", "nPos"} /\ turn[j].v = w
        /\ turn[j].nPos \in 1 .. Len(v)
    <3>1. CASE turn[j] = [v |-> w, nOldest |-> last.v[p], nPos |-> p]
      BY <2>1, <3>1
    <3>2. CASE last.nOldest # -1 /\ turn[j] = [last EXCEPT !.v = w]
      BY <2>3, <3>2
    <3> QED BY <2>5, <3>1, <3>2
  <2> QED BY <2>1, <2>4, <2>6 DEF T
<1>7. T = 0 .. n
  <2>1. T \in SUBSET (0 .. n)
    OBVIOUS
  <2> HIDE DEF T
  <2> QED BY <1>1, <1>5, <1>6, <2>1, TurnInduction
<1>8. n \in T
  BY <1>1, <1>7
<1> QED BY <1>1, <1>3, <1>8

-----------------------------------------------------------------------------

\* Good_ first notes the time.
LEMMA SuccessKeeps ==
    ASSUME Consistent(am, Nobody), now \in 0 .. MaxTime - 1, NEW id \in Ids(am),
           NEW m, EntryChanged(am, m, id, [am.mapInfo[id] EXCEPT !.nLastSuccess = now + 1])
    PROVE  /\ Consistent(m, Nobody) /\ m.mapInfo[id].nLastSuccess # 0
           /\ Ids(m) = Ids(am) /\ NewIds(m) = NewIds(am) /\ KeepsTried(am, m)
           /\ \A i \in Ids(am) : m.mapInfo[i].addr = am.mapInfo[i].addr
<1> DEFINE e == [am.mapInfo[id] EXCEPT !.nLastSuccess = now + 1]
<1>1. /\ Indexed(am) /\ NewFiled(am, Nobody) /\ TriedFiled(am) /\ Counted(am) /\ Bounded(am)
  BY DEF Consistent
<1>2. now + 1 \in 0 .. MaxTime /\ now + 1 # 0
  BY AddrManAssumption DEF AddrManAssumption
<1>3. /\ e \in Info /\ e.addr = am.mapInfo[id].addr /\ e.nRandomPos = am.mapInfo[id].nRandomPos
      /\ e.nRefCount = am.mapInfo[id].nRefCount /\ e.fInTried = am.mapInfo[id].fInTried
      /\ e.nLastSuccess = now + 1
  <2>1. am.mapInfo[id] \in Info
    BY <1>1 DEF Indexed, IsAddrMan, Ids
  <2> QED BY <1>2, <2>1 DEF Info
<1>4. EntryChanged(am, m, id, e)
  OBVIOUS
<1> HIDE DEF e
<1>5. /\ Indexed(m) /\ Ids(m) = Ids(am) /\ m.mapInfo[id] = e
      /\ \A i \in Ids(am) \ {id} : m.mapInfo[i] = am.mapInfo[i]
      /\ SameBuckets(am, m) /\ m.nNew = am.nNew /\ m.nTried = am.nTried
      /\ m.vRandom = am.vRandom
  BY <1>1, <1>3, <1>4, EntryKeeps
<1>6. \A i \in Ids(am) : /\ m.mapInfo[i].addr = am.mapInfo[i].addr
                         /\ m.mapInfo[i].nRefCount = am.mapInfo[i].nRefCount
                         /\ m.mapInfo[i].fInTried = am.mapInfo[i].fInTried
                         /\ \/ m.mapInfo[i].nLastSuccess = am.mapInfo[i].nLastSuccess
                            \/ m.mapInfo[i].nLastSuccess # 0
  BY <1>2, <1>3, <1>5
<1>7. /\ NewIds(m) = NewIds(am) /\ TriedIds(m) = TriedIds(am) /\ \A i : In(m, i) = In(am, i)
  BY <1>5, <1>6 DEF NewIds, TriedIds, Ids, In, SameBuckets
<1>8. NewFiled(m, Nobody)
  <2>1. NewIds(m) \subseteq Ids(m) /\ TriedIds(m) \subseteq Ids(m)
    BY DEF NewIds, TriedIds, Ids
  <2> QED BY <1>1, <1>5, <1>6, <1>7, <2>1 DEF NewFiled, SameBuckets
<1>9. \A i \in TriedIds(am) : i \in TriedIds(m) /\ m.mapInfo[i].addr = am.mapInfo[i].addr
  BY <1>6, <1>7 DEF TriedIds, Ids
<1>10. TriedFiled(m)
  BY <1>1, <1>5, <1>7, <1>9, SameTried DEF SameBuckets
<1>11. Counted(m) /\ Bounded(m)
  BY <1>1, <1>5, <1>7 DEF Counted, Bounded, SameBuckets
<1> QED BY <1>2, <1>3, <1>5, <1>6, <1>7, <1>8, <1>9, <1>10, <1>11 DEF Consistent, KeepsTried

\* An entry that leaves the new buckets has no references, and is nowhere until
\* MakeTried puts it into its tried bucket.
LEMMA LeaveKeeps ==
    ASSUME NEW m, Consistent(m, Nobody), NEW id \in NewIds(m), m.mapInfo[id].nLastSuccess # 0
    PROVE  LET n == LeaveNew(m, id) IN
           /\ Indexed(n) /\ NewFiled(n, Nobody) /\ Bounded(n)
           /\ Ids(n) = Ids(m) /\ NewIds(n) = NewIds(m) \ {id}
           /\ TriedIds(n) = TriedIds(m) \cup {id} /\ id \notin TriedIds(m)
           /\ \A i \in Ids(m) : n.mapInfo[i].addr = m.mapInfo[i].addr
           /\ \A i \in Ids(m) : n.mapInfo[i].source = m.mapInfo[i].source
           /\ \A b \in NewBuckets : n.vvNew[b] = m.vvNew[b] \ {id}
           /\ n.vvTried = m.vvTried /\ n.vRandom = m.vRandom
           /\ n.nNew = m.nNew - 1 /\ n.nTried = m.nTried
           /\ n.nNew = Cardinality(NewIds(n)) /\ n.nTried + 1 = Cardinality(TriedIds(n))
<1> DEFINE c == m.mapInfo[id].nRefCount - Cardinality({b \in NewBuckets : id \in m.vvNew[b]})
           e == [m.mapInfo[id] EXCEPT !.nRefCount = c, !.fInTried = TRUE]
           u == [m EXCEPT !.mapInfo[id] = e]
           n == LeaveNew(m, id)
<1>1. /\ Indexed(m) /\ NewFiled(m, Nobody) /\ TriedFiled(m) /\ Counted(m) /\ Bounded(m)
      /\ IsAddrMan(m)
  BY DEF Consistent, Indexed
<1>2. id \in Ids(m) /\ id \notin TriedIds(m) /\ id # Nobody
  <2>1. Ids(m) \subseteq 0 .. MaxId - 1
    BY <1>1 DEF IsAddrMan, Ids
  <2> QED BY <2>1 DEF NewIds, TriedIds, Nobody
<1>3. c = 0
  <2>1. Cardinality(In(m, id)) \in Nat /\ m.mapInfo[id].nRefCount = Cardinality(In(m, id)) + 0
    BY <1>1, <1>2, Finite DEF NewFiled
  <2> QED BY <2>1 DEF In
<1> HIDE DEF c
<1>4. /\ e \in Info /\ e.addr = m.mapInfo[id].addr /\ e.nRandomPos = m.mapInfo[id].nRandomPos
      /\ e.nRefCount = 0 /\ e.fInTried /\ e.source = m.mapInfo[id].source
      /\ e.nLastSuccess = m.mapInfo[id].nLastSuccess
  <2>1. m.mapInfo[id] \in Info
    BY <1>1, <1>2 DEF IsAddrMan, Ids
  <2> QED BY <1>3, <2>1 DEF Info
<1>5. EntryChanged(m, u, id, e)
  BY DEF EntryChanged
<1>6. /\ DOMAIN n = DOMAIN u /\ n.mapInfo = u.mapInfo /\ n.mapAddr = u.mapAddr
      /\ n.vRandom = u.vRandom /\ n.nIdCount = u.nIdCount /\ n.vvTried = u.vvTried
      /\ n.nTried = u.nTried /\ n.nNew = m.nNew - 1
      /\ n.vvNew = [b \in NewBuckets |-> m.vvNew[b] \ {id}]
  <2> DEFINE K == Cardinality({b \in NewBuckets : id \in m.vvNew[b]})
             mi == [m.mapInfo EXCEPT ![id].nRefCount = @ - K, ![id].fInTried = TRUE]
  <2>1. DOMAIN m = Fields /\ id \in DOMAIN m.mapInfo
    BY <1>1, <1>2 DEF IsAddrMan, Fields, Ids
  <2>2. e = [m.mapInfo[id] EXCEPT !.nRefCount = m.mapInfo[id].nRefCount - K, !.fInTried = TRUE]
    BY DEF c
  <2>3. n = [m EXCEPT !.vvNew = [b \in NewBuckets |-> @[b] \ {id}],
                      !.mapInfo[id].nRefCount = @ - K,
                      !.mapInfo[id].fInTried = TRUE,
                      !.nNew = @ - 1]
    BY DEF LeaveNew
  <2> HIDE DEF K, n, e
  <2>4. /\ DOMAIN n = Fields /\ n.mapInfo = mi /\ n.mapAddr = m.mapAddr
        /\ n.vRandom = m.vRandom /\ n.nIdCount = m.nIdCount /\ n.vvTried = m.vvTried
        /\ n.nTried = m.nTried /\ n.nNew = m.nNew - 1
        /\ n.vvNew = [b \in NewBuckets |-> m.vvNew[b] \ {id}]
    BY <2>1, <2>3 DEF Fields
  <2>5. mi = [m.mapInfo EXCEPT ![id] = e]
    BY <2>1, <2>2
  <2>6. /\ DOMAIN u = Fields /\ u.mapInfo = [m.mapInfo EXCEPT ![id] = e]
        /\ u.mapAddr = m.mapAddr /\ u.vRandom = m.vRandom /\ u.nIdCount = m.nIdCount
        /\ u.vvTried = m.vvTried /\ u.nTried = m.nTried
    BY <2>1 DEF Fields
  <2> HIDE DEF u, mi
  <2> QED BY <2>4, <2>5, <2>6
<1> HIDE DEF e, u, n
<1>7. /\ Indexed(u) /\ Ids(u) = Ids(m) /\ u.mapInfo[id] = e
      /\ \A i \in Ids(m) \ {id} : u.mapInfo[i] = m.mapInfo[i]
      /\ SameBuckets(m, u) /\ u.nNew = m.nNew /\ u.nTried = m.nTried
      /\ u.vRandom = m.vRandom
  BY <1>1, <1>2, <1>4, <1>5, EntryKeeps
<1>8. /\ \A b \in NewBuckets : n.vvNew[b] = m.vvNew[b] \ {id}
      /\ n.vvNew \in [NewBuckets -> SUBSET (0 .. MaxId - 1)]
      /\ n.vvTried = m.vvTried /\ n.vRandom = m.vRandom /\ n.nTried = m.nTried
  BY <1>1, <1>6, <1>7 DEF IsAddrMan, SameBuckets
<1>9. Cardinality(NewIds(m) \ {id}) = m.nNew - 1 /\ m.nNew \in Nat \ {0}
  <2>1. IsFiniteSet(NewIds(m)) /\ NewIds(m) # {} /\ m.nNew \in Nat
    BY <1>1, Finite DEF IsAddrMan
  <2> QED BY <1>1, <2>1, FS_EmptySet, FS_RemoveElement DEF Counted
<1>10. Indexed(n) /\ Ids(n) = Ids(m)
  <2>1. n.vvTried \in [TriedBuckets -> Seq(0 .. MaxId - 1)] /\ n.nNew \in Nat /\ n.nTried \in Nat
    BY <1>1, <1>6, <1>8, <1>9 DEF IsAddrMan
  <2> QED BY <1>6, <1>7, <1>8, <2>1, BucketsKeepIndex
<1>11. /\ n.mapInfo[id] = e /\ \A i \in Ids(m) \ {id} : n.mapInfo[i] = m.mapInfo[i]
  BY <1>6, <1>7
<1>12. NewIds(n) = NewIds(m) \ {id} /\ TriedIds(n) = TriedIds(m) \cup {id}
  BY <1>2, <1>4, <1>10, <1>11 DEF NewIds, TriedIds, Ids
<1>13. Cardinality(TriedIds(m) \cup {id}) = m.nTried + 1
  <2>1. IsFiniteSet(TriedIds(m))
    BY <1>1, Finite
  <2> QED BY <1>1, <1>2, <2>1, FS_AddElement DEF Counted
<1>14. NewFiled(n, Nobody)
  <2>1. In(n, id) = {} /\ \A i \in Ids(m) \ {id} : In(n, i) = In(m, i)
    BY <1>8 DEF In
  <2>2. Cardinality(In(n, id)) = 0
    BY <2>1, FS_EmptySet
  <2>3. ASSUME NEW i \in Ids(n)
        PROVE  n.mapInfo[i].nRefCount = Cardinality(In(n, i)) + (IF i = Nobody THEN 1 ELSE 0)
    <3>1. CASE i = id
      BY <1>2, <1>4, <1>11, <2>2, <3>1
    <3>2. CASE i # id
      BY <1>1, <1>10, <1>11, <2>1, <3>2 DEF NewFiled
    <3> QED BY <3>1, <3>2
  <2>4. \A b \in NewBuckets : n.vvNew[b] \subseteq Ids(n)
    BY <1>1, <1>8, <1>10 DEF NewFiled
  <2>5. NewIds(m) \subseteq Ids(m) /\ TriedIds(m) \subseteq Ids(m)
    BY DEF NewIds, TriedIds, Ids
  <2>6. \A i \in NewIds(n) : n.mapInfo[i].nRefCount \in 1 .. BucketsPerAddress
    BY <1>1, <1>11, <1>12, <2>5 DEF NewFiled
  <2>7. \A i \in TriedIds(n) : n.mapInfo[i].nRefCount = 0 /\ n.mapInfo[i].nLastSuccess # 0
    BY <1>1, <1>2, <1>4, <1>11, <1>12, <2>5 DEF NewFiled
  <2> QED BY <2>3, <2>4, <2>6, <2>7 DEF NewFiled
<1>15. Bounded(n)
  <2>1. ASSUME NEW b \in NewBuckets
        PROVE  Cardinality(n.vvNew[b]) <= NewBucketSize
    <3>1. IsFiniteSet(m.vvNew[b]) /\ n.vvNew[b] \in SUBSET m.vvNew[b]
      BY <1>1, <1>8, Finite
    <3>2. Cardinality(n.vvNew[b]) <= Cardinality(m.vvNew[b])
      BY <3>1, FS_Subset
    <3>3. Cardinality(n.vvNew[b]) \in Nat /\ Cardinality(m.vvNew[b]) \in Nat
      BY <1>1, <1>10, Finite
    <3>4. Cardinality(m.vvNew[b]) <= NewBucketSize /\ NewBucketSize \in Nat
      BY <1>1, AddrManAssumption DEF Bounded, AddrManAssumption
    <3> QED BY <3>2, <3>3, <3>4
  <2> QED BY <1>1, <1>8, <2>1 DEF Bounded
<1>16. \A i \in Ids(m) : /\ n.mapInfo[i].addr = m.mapInfo[i].addr
                         /\ n.mapInfo[i].source = m.mapInfo[i].source
  BY <1>4, <1>11
<1> QED BY <1>2, <1>6, <1>8, <1>9, <1>10, <1>12, <1>13, <1>14, <1>15, <1>16 DEF n

\* A tried bucket is written anew; the other ones keep their entries.
LEMMA BucketRefiled ==
    ASSUME NEW m, TriedFiled(m), NEW k \in TriedBuckets, NEW w, NoRepeats(w),
           NEW n, DOMAIN m.vvTried = TriedBuckets, n.vvTried = [m.vvTried EXCEPT ![k] = w],
           \A i \in TriedIds(m) \cup TriedIds(n) : n.mapInfo[i].addr = m.mapInfo[i].addr,
           \A i \in TriedIds(n) : n.mapInfo[i].addr \in Addresses,
           \A p \in 1 .. Len(w) : /\ w[p] \in TriedIds(n)
                                  /\ GetTriedBucket[m.mapInfo[w[p]].addr] = k,
           \A i \in TriedIds(n) : GetTriedBucket[m.mapInfo[i].addr] = k
                                     => \E p \in 1 .. Len(w) : w[p] = i,
           \A i : GetTriedBucket[m.mapInfo[i].addr] # k
                     => (i \in TriedIds(m) <=> i \in TriedIds(n))
    PROVE  TriedFiled(n)
<1>1. n.vvTried[k] = w /\ \A d \in TriedBuckets \ {k} : n.vvTried[d] = m.vvTried[d]
  OBVIOUS
<1>2. ASSUME NEW d \in TriedBuckets, NEW p \in 1 .. Len(n.vvTried[d])
      PROVE  /\ n.vvTried[d][p] \in TriedIds(n)
             /\ GetTriedBucket[n.mapInfo[n.vvTried[d][p]].addr] = d
  <2>1. CASE d = k
    BY <1>1, <2>1
  <2>2. CASE d # k
    <3>1. /\ n.vvTried[d][p] = m.vvTried[d][p] /\ m.vvTried[d][p] \in TriedIds(m)
          /\ GetTriedBucket[m.mapInfo[m.vvTried[d][p]].addr] = d
      BY <1>1, <2>2 DEF TriedFiled
    <3> QED BY <2>2, <3>1
  <2> QED BY <2>1, <2>2
<1>3. ASSUME NEW d \in TriedBuckets,
             NEW p \in 1 .. Len(n.vvTried[d]), NEW q \in 1 .. Len(n.vvTried[d]),
             n.vvTried[d][p] = n.vvTried[d][q]
      PROVE  p = q
  <2>1. CASE d = k
    BY <1>1, <1>3, <2>1 DEF NoRepeats
  <2>2. CASE d # k
    BY <1>1, <1>3, <2>2 DEF TriedFiled
  <2> QED BY <2>1, <2>2
<1>4. ASSUME NEW i \in TriedIds(n)
      PROVE  \E p \in 1 .. Len(n.vvTried[GetTriedBucket[n.mapInfo[i].addr]]) :
                n.vvTried[GetTriedBucket[n.mapInfo[i].addr]][p] = i
  <2> DEFINE d == GetTriedBucket[m.mapInfo[i].addr]
  <2>1. n.mapInfo[i].addr = m.mapInfo[i].addr /\ d \in TriedBuckets
    BY AddrManAssumption DEF AddrManAssumption
  <2>2. CASE d = k
    BY <1>1, <2>1, <2>2
  <2>3. CASE d # k
    <3>1. i \in TriedIds(m) /\ n.vvTried[d] = m.vvTried[d]
      BY <1>1, <2>1, <2>3
    <3>2. \E p \in 1 .. Len(m.vvTried[d]) : m.vvTried[d][p] = i
      BY <3>1 DEF TriedFiled
    <3> QED BY <2>1, <3>1, <3>2
  <2> QED BY <2>2, <2>3
<1> QED BY <1>2, <1>3, <1>4 DEF TriedFiled

\* v is the tried bucket k, and holds the tried entries of its addresses.
IsBucket(m, k, v) ==
    /\ v = m.vvTried[k] /\ v \in Seq(0 .. MaxId - 1) /\ NoRepeats(v) /\ Len(v) \in Nat
    /\ DOMAIN m.vvTried = TriedBuckets
    /\ \A p \in 1 .. Len(v) : /\ v[p] \in TriedIds(m)
                              /\ GetTriedBucket[m.mapInfo[v[p]].addr] = k
    /\ \A i \in TriedIds(m) : GetTriedBucket[m.mapInfo[i].addr] = k
                                 => \E p \in 1 .. Len(v) : v[p] = i

\* TriedFiled, said of one bucket.
LEMMA BucketOf ==
    ASSUME NEW m, Indexed(m), TriedFiled(m), NEW k \in TriedBuckets
    PROVE  IsBucket(m, k, m.vvTried[k])
<1>1. m.vvTried[k] \in Seq(0 .. MaxId - 1) /\ DOMAIN m.vvTried = TriedBuckets
  BY DEF Indexed, IsAddrMan
<1>2. NoRepeats(m.vvTried[k])
  BY DEF TriedFiled, NoRepeats
<1> QED BY <1>1, <1>2 DEF TriedFiled, IsBucket

Appended(l, n, k, id) == n = [l EXCEPT !.vvTried[k] = Append(@, id), !.nTried = @ + 1]

\* MakeTried, when there is place in the tried bucket.
LEMMA AppendKeeps ==
    ASSUME NEW m, Consistent(m, Nobody), NEW id \in NewIds(m), m.mapInfo[id].nLastSuccess # 0,
           NEW k, k = GetTriedBucket[m.mapInfo[id].addr],
           Len(m.vvTried[k]) < TriedBucketSize,
           NEW n, Appended(LeaveNew(m, id), n, k, id)
    PROVE  /\ Consistent(n, Nobody) /\ Ids(n) = Ids(m)
           /\ \A i \in Ids(m) : n.mapInfo[i].addr = m.mapInfo[i].addr
<1> DEFINE v == m.vvTried[k]
           w == Append(v, id)
           l == LeaveNew(m, id)
<1>1. /\ Indexed(m) /\ NewFiled(m, Nobody) /\ TriedFiled(m) /\ Counted(m) /\ Bounded(m)
      /\ IsAddrMan(m) /\ id \in Ids(m)
  BY DEF Consistent, Indexed, NewIds
<1>2. /\ Indexed(l) /\ NewFiled(l, Nobody) /\ Bounded(l)
      /\ Ids(l) = Ids(m) /\ NewIds(l) = NewIds(m) \ {id}
      /\ TriedIds(l) = TriedIds(m) \cup {id} /\ id \notin TriedIds(m)
      /\ \A i \in Ids(m) : l.mapInfo[i].addr = m.mapInfo[i].addr
      /\ l.vvTried = m.vvTried /\ l.vRandom = m.vRandom
      /\ l.nNew = m.nNew - 1 /\ l.nTried = m.nTried
      /\ l.nNew = Cardinality(NewIds(l)) /\ l.nTried + 1 = Cardinality(TriedIds(l))
  BY LeaveKeeps
<1>0. Appended(l, n, k, id)
  OBVIOUS
<1> HIDE DEF l, v, w
<1>3. m.mapInfo[id].addr \in Addresses /\ k \in TriedBuckets
  <2>1. m.mapInfo[id].addr \in Addresses
    BY <1>1 DEF IsAddrMan, Info, Ids
  <2> QED BY <2>1, AddrManAssumption DEF AddrManAssumption
<1>4. IsBucket(m, k, v)
  BY <1>1, <1>3, BucketOf DEF v
<1>14. /\ NoRepeats(v) /\ Len(v) \in Nat
       /\ \A p \in 1 .. Len(v) : /\ v[p] \in TriedIds(m)
                                 /\ GetTriedBucket[m.mapInfo[v[p]].addr] = k
  BY <1>4 DEF IsBucket
<1>5. /\ DOMAIN n = DOMAIN l /\ n.mapInfo = l.mapInfo /\ n.mapAddr = l.mapAddr
      /\ n.vRandom = l.vRandom /\ n.nIdCount = l.nIdCount /\ n.vvNew = l.vvNew
      /\ n.nNew = l.nNew /\ n.nTried = l.nTried + 1
      /\ n.vvTried = [m.vvTried EXCEPT ![k] = w]
  BY <1>0, <1>2 DEF Indexed, IsAddrMan, Appended, v, w
<1>6. /\ w \in Seq(0 .. MaxId - 1) /\ Len(w) = Len(v) + 1 /\ w[Len(v) + 1] = id
      /\ \A p \in 1 .. Len(v) : w[p] = v[p]
      /\ \A p \in 1 .. Len(w) : p \in 1 .. Len(v) \/ p = Len(v) + 1
      /\ \A p \in 1 .. Len(v) : p \in 1 .. Len(w)
      /\ Len(v) + 1 \in 1 .. Len(w)
  <2> DEFINE D == 0 .. MaxId - 1
  <2>1. v \in Seq(D) /\ id \in D /\ Len(v) \in Nat /\ w = Append(v, id)
    BY <1>1, <1>4 DEF IsAddrMan, Ids, w, IsBucket
  <2> HIDE DEF D
  <2>2. /\ w \in Seq(D) /\ Len(w) = Len(v) + 1 /\ w[Len(v) + 1] = id
        /\ \A p \in 1 .. Len(v) : w[p] = v[p]
    BY <2>1
  <2> QED BY <2>1, <2>2 DEF D
<1>7. Indexed(n) /\ Ids(n) = Ids(m)
  <2>1. /\ n.vvNew \in [NewBuckets -> SUBSET (0 .. MaxId - 1)]
        /\ n.vvTried \in [TriedBuckets -> Seq(0 .. MaxId - 1)] /\ n.nNew \in Nat /\ n.nTried \in Nat
    BY <1>1, <1>2, <1>3, <1>5, <1>6 DEF Indexed, IsAddrMan
  <2> QED BY <1>2, <1>5, <2>1, BucketsKeepIndex
<1>8. /\ NewIds(n) = NewIds(l) /\ TriedIds(n) = TriedIds(m) \cup {id}
      /\ \A i : In(n, i) = In(l, i)
  BY <1>2, <1>5 DEF NewIds, TriedIds, Ids, In
<1>9. NewFiled(n, Nobody)
  <2>1. TriedIds(n) = TriedIds(l)
    BY <1>2, <1>8
  <2> QED BY <1>2, <1>5, <1>7, <1>8, <2>1 DEF NewFiled
<1>10. \A i \in Ids(m) : n.mapInfo[i].addr = m.mapInfo[i].addr /\ m.mapInfo[i].addr \in Addresses
  BY <1>1, <1>2, <1>5 DEF IsAddrMan, Info, Ids
<1>11. TriedFiled(n)
  <2>1. NoRepeats(w)
    BY <1>2, <1>6, <1>14 DEF NoRepeats
  <2>2. TriedIds(m) \cup TriedIds(n) \subseteq Ids(m)
    BY <1>7 DEF TriedIds, Ids
  <2>3. ASSUME NEW p \in 1 .. Len(w)
        PROVE  w[p] \in TriedIds(n) /\ GetTriedBucket[m.mapInfo[w[p]].addr] = k
    BY <1>6, <1>8, <1>14
  <2>4. ASSUME NEW i \in TriedIds(n), GetTriedBucket[m.mapInfo[i].addr] = k
        PROVE  \E p \in 1 .. Len(w) : w[p] = i
    <3>1. CASE i = id
      BY <1>6, <3>1
    <3>2. CASE i \in TriedIds(m)
      <4>1. PICK p \in 1 .. Len(v) : v[p] = i
        BY <1>4, <2>4, <3>2 DEF IsBucket
      <4> QED BY <1>6, <4>1
    <3> QED BY <1>8, <3>1, <3>2
  <2>5. ASSUME NEW i, GetTriedBucket[m.mapInfo[i].addr] # k
        PROVE  i \in TriedIds(m) <=> i \in TriedIds(n)
    BY <1>8, <2>5
  <2>6. n.vvTried = [m.vvTried EXCEPT ![k] = w]
    BY <1>5
  <2>7. \A i \in TriedIds(m) \cup TriedIds(n) : n.mapInfo[i].addr = m.mapInfo[i].addr
    BY <1>10, <2>2
  <2>8. \A i \in TriedIds(n) : n.mapInfo[i].addr \in Addresses
    BY <1>10, <2>2
  <2>9. DOMAIN m.vvTried = TriedBuckets
    BY <1>4 DEF IsBucket
  <2> QED BY <1>1, <1>3, <2>9, <2>1, <2>3, <2>4, <2>5, <2>6, <2>7, <2>8, BucketRefiled
<1>12. Counted(n)
  <2>1. TriedIds(n) = TriedIds(l) /\ m.nNew \in Nat /\ m.nTried \in Nat
    BY <1>1, <1>2, <1>8 DEF IsAddrMan
  <2> QED BY <1>1, <1>2, <1>5, <1>8, <2>1 DEF Counted
<1>13. Bounded(n)
  <2>1. \A d \in TriedBuckets : n.vvTried[d] = (IF d = k THEN w ELSE m.vvTried[d])
    BY <1>4, <1>5 DEF IsBucket
  <2>2. Len(w) <= TriedBucketSize
    <3>1. TriedBucketSize \in Nat /\ Len(v) < TriedBucketSize
      BY <1>4, AddrManAssumption DEF AddrManAssumption, IsBucket
    <3> QED BY <1>6, <1>14, <3>1
  <2> QED BY <1>1, <1>2, <1>5, <2>1, <2>2 DEF Bounded
<1> QED BY <1>7, <1>9, <1>10, <1>11, <1>12, <1>13 DEF Consistent

\* The place that MakeTried finds for an entry that makes place.
LEMMA BackBucketHasRoom ==
    ASSUME NEW m, Consistent(m, Nobody), NEW id \in NewIds(m), m.mapInfo[id].nLastSuccess # 0,
           NEW nOrigin \in In(m, id), NEW old \in Ids(m),
           NEW l, l = LeaveNew(m, id), NEW b, b = BackBucket(l, old, nOrigin)
    PROVE  b \in NewBuckets /\ Cardinality(l.vvNew[b]) < NewBucketSize
<1> DEFINE d == GetNewBucket[l.mapInfo[old].addr][l.mapInfo[old].source]
<1>1. Indexed(l) /\ Ids(l) = Ids(m) /\ \A x \in NewBuckets : l.vvNew[x] = m.vvNew[x] \ {id}
  BY LeaveKeeps
<1>2. d \in NewBuckets
  <2>1. l.mapInfo[old].addr \in Addresses /\ l.mapInfo[old].source \in Sources
    BY <1>1 DEF Indexed, IsAddrMan, Info, Ids
  <2> QED BY <2>1, AddrManAssumption DEF AddrManAssumption
<1>3. b = IF Cardinality(l.vvNew[d]) < NewBucketSize THEN d ELSE nOrigin
  BY DEF BackBucket
<1>4. nOrigin \in NewBuckets /\ Cardinality(l.vvNew[nOrigin]) < NewBucketSize
  <2>1. nOrigin \in NewBuckets /\ id \in m.vvNew[nOrigin]
    BY DEF In
  <2>2. /\ IsFiniteSet(m.vvNew[nOrigin]) /\ Cardinality(m.vvNew[nOrigin]) \in Nat
        /\ Cardinality(m.vvNew[nOrigin]) <= NewBucketSize
    BY <2>1, Finite DEF Consistent, Bounded
  <2>3. Cardinality(m.vvNew[nOrigin] \ {id}) = Cardinality(m.vvNew[nOrigin]) - 1
    BY <2>1, <2>2, FS_RemoveElement
  <2>4. NewBucketSize \in Nat
    BY AddrManAssumption DEF AddrManAssumption
  <2>5. l.vvNew[nOrigin] = m.vvNew[nOrigin] \ {id}
    BY <1>1, <2>1
  <2>6. Cardinality(l.vvNew[nOrigin]) = Cardinality(m.vvNew[nOrigin]) - 1
    BY <2>3, <2>5
  <2> QED BY <2>1, <2>2, <2>4, <2>6
<1> QED BY <1>2, <1>3, <1>4

\* n is l with entry old back in new bucket b and tried bucket k written anew.
Evicted(l, n, old, b, k, w) ==
    n = [l EXCEPT !.mapInfo[old].fInTried = FALSE,
                  !.mapInfo[old].nRefCount = 1,
                  !.vvNew[b] = @ \cup {old},
                  !.nNew = @ + 1,
                  !.vvTried[k] = w]

EvictedFields(l, n, old, b, k, w) ==
    /\ DOMAIN n = DOMAIN l
    /\ Ids(n) = Ids(l) /\ \A i \in Ids(l) \ {old} : n.mapInfo[i] = l.mapInfo[i]
    /\ n.mapInfo[old] \in Info
    /\ n.mapInfo[old].addr = l.mapInfo[old].addr
    /\ n.mapInfo[old].nRandomPos = l.mapInfo[old].nRandomPos
    /\ n.mapInfo[old].nRefCount = 1 /\ ~n.mapInfo[old].fInTried
    /\ n.mapInfo = [l.mapInfo EXCEPT ![old] = n.mapInfo[old]]
    /\ n.mapAddr = l.mapAddr /\ n.vRandom = l.vRandom /\ n.nIdCount = l.nIdCount
    /\ n.vvNew = [l.vvNew EXCEPT ![b] = @ \cup {old}]
    /\ n.vvTried = [l.vvTried EXCEPT ![k] = w]
    /\ n.nNew = l.nNew + 1 /\ n.nTried = l.nTried

\* What Evict writes.
LEMMA EvictFields ==
    ASSUME NEW l, Indexed(l), NEW old \in Ids(l), NEW b \in NewBuckets, NEW k \in TriedBuckets,
           NEW w, NEW n, Evicted(l, n, old, b, k, w)
    PROVE  EvictedFields(l, n, old, b, k, w)
<1> DEFINE e == [l.mapInfo[old] EXCEPT !.fInTried = FALSE, !.nRefCount = 1]
           mi == [l.mapInfo EXCEPT ![old].fInTried = FALSE, ![old].nRefCount = 1]
<1>1. /\ DOMAIN l = Fields /\ old \in DOMAIN l.mapInfo /\ l.mapInfo[old] \in Info
  BY DEF Indexed, IsAddrMan, Ids, Fields
<1>2. /\ DOMAIN n = Fields /\ n.mapInfo = mi /\ n.mapAddr = l.mapAddr
      /\ n.vRandom = l.vRandom /\ n.nIdCount = l.nIdCount
      /\ n.vvNew = [l.vvNew EXCEPT ![b] = @ \cup {old}]
      /\ n.vvTried = [l.vvTried EXCEPT ![k] = w]
      /\ n.nNew = l.nNew + 1 /\ n.nTried = l.nTried
  BY <1>1 DEF Evicted, Fields
<1>3. mi = [l.mapInfo EXCEPT ![old] = e]
  BY <1>1
<1>4. /\ e \in Info /\ e.addr = l.mapInfo[old].addr /\ e.nRandomPos = l.mapInfo[old].nRandomPos
      /\ e.nRefCount = 1 /\ ~e.fInTried
  BY <1>1 DEF Info
<1> HIDE DEF e, mi
<1>5. /\ n.mapInfo = [l.mapInfo EXCEPT ![old] = e] /\ n.mapInfo[old] = e
      /\ Ids(n) = Ids(l) /\ \A i \in Ids(l) \ {old} : n.mapInfo[i] = l.mapInfo[i]
  BY <1>1, <1>2, <1>3 DEF Ids
<1> QED BY <1>1, <1>2, <1>4, <1>5 DEF EvictedFields

\* w has the elements of v, with id in the place of old.
Replaced(v, w, old, id) ==
    /\ NoRepeats(w)
    /\ \E q \in 1 .. Len(v) : old = v[q]
    /\ \A q \in 1 .. Len(v) : \/ w[q] = id
                              \/ w[q] # old /\ \E x \in 1 .. Len(v) : w[q] = v[x]
    /\ \E q \in 1 .. Len(v) : w[q] = id
    /\ \A x \in 1 .. Len(v) : v[x] # old => \E q \in 1 .. Len(v) : w[q] = v[x]

\* An entry of a tried bucket replaces another one there.
LEMMA ReplacedBucket ==
    ASSUME NEW S, NEW v \in Seq(S), NoRepeats(v), NEW u \in Seq(S), Permuted(v, u),
           NEW p \in 1 .. Len(v), NEW id \in S, \A q \in 1 .. Len(v) : v[q] # id,
           NEW w, Len(w) = Len(v), w[p] = id, \A q \in 1 .. Len(v) : q # p => w[q] = u[q]
    PROVE  Replaced(v, w, u[p], id)
<1>1. Len(u) = Len(v) /\ p \in 1 .. Len(u)
  BY DEF Permuted
<1>2. /\ Len(w) = Len(v) /\ w[p] = id
      /\ \A q \in 1 .. Len(v) : q # p => w[q] = u[q]
  OBVIOUS
<1>3. \A q \in 1 .. Len(v) : q # p => u[q] # u[p] /\ u[q] # id
  <2>1. \A q \in 1 .. Len(v) : u[q] = u[p] => q = p
    BY <1>1 DEF Permuted, NoRepeats
  <2>2. ASSUME NEW q \in 1 .. Len(v)
        PROVE  u[q] # id
    <3>1. PICK x \in 1 .. Len(v) : u[q] = v[x]
      BY DEF Permuted
    <3> QED BY <3>1
  <2> QED BY <2>1, <2>2
<1>4. NoRepeats(w)
  <2>1. ASSUME NEW q \in 1 .. Len(v), NEW x \in 1 .. Len(v), w[q] = w[x]
        PROVE  q = x
    <3>1. CASE q # p /\ x # p
      <4>1. u[q] = u[x] /\ q \in 1 .. Len(u) /\ x \in 1 .. Len(u)
        BY <1>1, <2>1, <3>1
      <4> QED BY <4>1 DEF Permuted, NoRepeats
    <3>2. CASE q = p \/ x = p
      BY <1>2, <1>3, <2>1, <3>2
    <3> QED BY <3>1, <3>2
  <2> QED BY <1>2, <2>1 DEF NoRepeats
<1>5. \E q \in 1 .. Len(v) : u[p] = v[q]
  BY DEF Permuted
<1>6. \A q \in 1 .. Len(v) : \/ w[q] = id
                             \/ w[q] # u[p] /\ \E x \in 1 .. Len(v) : w[q] = v[x]
  <2>1. ASSUME NEW q \in 1 .. Len(v), q # p
        PROVE  w[q] # u[p] /\ \E x \in 1 .. Len(v) : w[q] = v[x]
    <3>1. w[q] = u[q] /\ u[q] # u[p]
      BY <1>2, <1>3, <2>1
    <3>2. \E x \in 1 .. Len(v) : u[q] = v[x]
      BY DEF Permuted
    <3> QED BY <3>1, <3>2
  <2> QED BY <1>2, <2>1
<1>7. ASSUME NEW x \in 1 .. Len(v), v[x] # u[p]
      PROVE  \E q \in 1 .. Len(v) : w[q] = v[x]
  <2>1. PICK q \in 1 .. Len(v) : v[x] = u[q]
    BY DEF Permuted
  <2> QED BY <1>2, <1>7, <2>1
<1> QED BY <1>2, <1>4, <1>5, <1>6, <1>7 DEF Replaced

Evicts(m, n, id, k, nOrigin, r) ==
    /\ GetTriedBucket[m.mapInfo[id].addr] = k /\ Len(m.vvTried[k]) # 0
    /\ r \in Shuffles(InspectCount(m.vvTried[k]), Len(m.vvTried[k]))
    /\ n = Evict(LeaveNew(m, id), id, k, nOrigin, SelectTried(m, m.vvTried[k], r))

\* MakeTried, when the tried bucket is full: the entry that makes place is in
\* one new bucket, which had room for it.
LEMMA EvictKeeps ==
    ASSUME NEW m, Consistent(m, Nobody), NEW id \in NewIds(m), m.mapInfo[id].nLastSuccess # 0,
           NEW k \in TriedBuckets, NEW nOrigin \in In(m, id), NEW r,
           NEW n, Evicts(m, n, id, k, nOrigin, r)
    PROVE  /\ Consistent(n, Nobody) /\ Ids(n) = Ids(m)
           /\ \A i \in Ids(m) : n.mapInfo[i].addr = m.mapInfo[i].addr
<1> DEFINE D == 0 .. MaxId - 1
           v == m.vvTried[k]
           l == LeaveNew(m, id)
           picked == SelectTried(m, v, r)
           u == picked.v
           p == picked.nPos
           old == u[p]
           w == [u EXCEPT ![p] = id]
           b == BackBucket(l, old, nOrigin)
<1>1. /\ Indexed(m) /\ NewFiled(m, Nobody) /\ TriedFiled(m) /\ Counted(m) /\ Bounded(m)
      /\ IsAddrMan(m) /\ id \in Ids(m)
  BY DEF Consistent, Indexed, NewIds
<1>2. /\ Indexed(l) /\ NewFiled(l, Nobody) /\ Bounded(l)
      /\ Ids(l) = Ids(m) /\ NewIds(l) = NewIds(m) \ {id}
      /\ TriedIds(l) = TriedIds(m) \cup {id} /\ id \notin TriedIds(m)
      /\ \A i \in Ids(m) : l.mapInfo[i].addr = m.mapInfo[i].addr
      /\ l.vvTried = m.vvTried /\ l.vRandom = m.vRandom
      /\ l.nNew = m.nNew - 1 /\ l.nTried = m.nTried
      /\ l.nNew = Cardinality(NewIds(l)) /\ l.nTried + 1 = Cardinality(TriedIds(l))
  BY LeaveKeeps
<1>3. IsBucket(m, k, v)
  BY <1>1, BucketOf
<1>4. /\ v \in Seq(D) /\ NoRepeats(v) /\ Len(v) \in Nat /\ id \in D
      /\ DOMAIN m.vvTried = TriedBuckets
      /\ \A q \in 1 .. Len(v) : /\ v[q] \in TriedIds(m)
                                /\ GetTriedBucket[m.mapInfo[v[q]].addr] = k
      /\ \A i \in TriedIds(m) : GetTriedBucket[m.mapInfo[i].addr] = k
                                   => \E q \in 1 .. Len(v) : v[q] = i
  BY <1>1, <1>3 DEF IsBucket, IsAddrMan, Ids
<1>5. Evicted(l, n, old, b, k, w)
  BY DEF Evict, Evicted, Evicts
<1> HIDE DEF D, l, v
<1>6. /\ Len(v) # 0 /\ r \in Shuffles(InspectCount(v), Len(v))
      /\ GetTriedBucket[m.mapInfo[id].addr] = k
  BY DEF v, Evicts
<1>7. u \in Seq(D) /\ Permuted(v, u) /\ p \in 1 .. Len(v)
  BY <1>4, <1>6, SelectPermutes
<1> HIDE DEF picked, u, p
<1>8. /\ w \in Seq(D) /\ Len(w) = Len(v) /\ w[p] = id
      /\ \A q \in 1 .. Len(v) : q # p => w[q] = u[q]
  BY <1>4, <1>7 DEF Permuted
<1> HIDE DEF w
<1>21. \A q \in 1 .. Len(v) : v[q] # id
  BY <1>2, <1>4
<1>22. Replaced(v, w, old, id)
  <2>1. v \in Seq(D) /\ NoRepeats(v) /\ id \in D
    BY <1>4
  <2> QED BY <1>7, <1>8, <1>21, <2>1, ReplacedBucket
<1> HIDE DEF old
<1>9. /\ NoRepeats(w)
      /\ \E q \in 1 .. Len(v) : old = v[q]
      /\ \A q \in 1 .. Len(v) : \/ w[q] = id
                                \/ w[q] # old /\ \E x \in 1 .. Len(v) : w[q] = v[x]
      /\ \E q \in 1 .. Len(v) : w[q] = id
      /\ \A x \in 1 .. Len(v) : v[x] # old => \E q \in 1 .. Len(v) : w[q] = v[x]
  BY <1>22 DEF Replaced
<1>10. /\ old \in TriedIds(m) /\ GetTriedBucket[m.mapInfo[old].addr] = k
       /\ old # id /\ old \in Ids(m)
  <2>1. old \in TriedIds(m) /\ GetTriedBucket[m.mapInfo[old].addr] = k
    BY <1>4, <1>9
  <2> QED BY <1>2, <2>1 DEF TriedIds, Ids
<1>11. b \in NewBuckets /\ Cardinality(l.vvNew[b]) < NewBucketSize
  BY <1>10, BackBucketHasRoom DEF l
<1> HIDE DEF b
<1>12. /\ DOMAIN n = DOMAIN l
       /\ Ids(n) = Ids(l) /\ \A i \in Ids(l) \ {old} : n.mapInfo[i] = l.mapInfo[i]
       /\ n.mapInfo[old] \in Info
       /\ n.mapInfo[old].addr = l.mapInfo[old].addr
       /\ n.mapInfo[old].nRandomPos = l.mapInfo[old].nRandomPos
       /\ n.mapInfo[old].nRefCount = 1 /\ ~n.mapInfo[old].fInTried
       /\ n.mapInfo = [l.mapInfo EXCEPT ![old] = n.mapInfo[old]]
       /\ n.mapAddr = l.mapAddr /\ n.vRandom = l.vRandom /\ n.nIdCount = l.nIdCount
       /\ n.vvNew = [l.vvNew EXCEPT ![b] = @ \cup {old}]
       /\ n.vvTried = [l.vvTried EXCEPT ![k] = w]
       /\ n.nNew = l.nNew + 1 /\ n.nTried = l.nTried
  <2>1. Indexed(l) /\ old \in Ids(l)
    BY <1>2, <1>10
  <2>2. EvictedFields(l, n, old, b, k, w)
    BY <1>5, <1>11, <2>1, EvictFields
  <2> QED BY <2>2 DEF EvictedFields
<1>13. /\ n.vvNew[b] = l.vvNew[b] \cup {old}
       /\ \A d \in NewBuckets \ {b} : n.vvNew[d] = l.vvNew[d]
       /\ n.vvNew \in [NewBuckets -> SUBSET (0 .. MaxId - 1)]
  <2>1. old \in 0 .. MaxId - 1
    BY <1>1, <1>10 DEF IsAddrMan, Ids
  <2>2. l.vvNew \in [NewBuckets -> SUBSET (0 .. MaxId - 1)]
    BY <1>2 DEF Indexed, IsAddrMan
  <2> QED BY <1>11, <1>12, <2>1, <2>2
<1>14. Indexed(n)
  <2> DEFINE x == [l EXCEPT !.mapInfo[old] = n.mapInfo[old]]
  <2>1. /\ DOMAIN x = DOMAIN l /\ x.mapInfo = n.mapInfo /\ x.mapAddr = l.mapAddr
        /\ x.vRandom = l.vRandom /\ x.nIdCount = l.nIdCount
    BY <1>2, <1>12 DEF Indexed, IsAddrMan
  <2>2. EntryChanged(l, x, old, n.mapInfo[old])
    BY DEF EntryChanged
  <2> HIDE DEF x
  <2>3. Indexed(x)
    BY <1>2, <1>10, <1>12, <2>2, EntryKeeps
  <2>4. n.vvTried \in [TriedBuckets -> Seq(0 .. MaxId - 1)]
    <3>1. l.vvTried \in [TriedBuckets -> Seq(D)]
      BY <1>2 DEF Indexed, IsAddrMan, D
    <3>2. n.vvTried \in [TriedBuckets -> Seq(D)]
      BY <1>8, <1>12, <3>1
    <3> QED BY <3>2 DEF D
  <2>5. n.nNew \in Nat /\ n.nTried \in Nat
    BY <1>2, <1>12 DEF Indexed, IsAddrMan
  <2>6. /\ DOMAIN n = DOMAIN x /\ n.mapInfo = x.mapInfo /\ n.mapAddr = x.mapAddr
        /\ n.vRandom = x.vRandom /\ n.nIdCount = x.nIdCount
    BY <1>12, <2>1
  <2> QED BY <1>13, <2>3, <2>4, <2>5, <2>6, BucketsKeepIndex
<1>15. NewIds(n) = NewIds(l) \cup {old} /\ TriedIds(n) = TriedIds(l) \ {old}
       /\ old \notin NewIds(l) /\ old \in TriedIds(l)
  BY <1>2, <1>10, <1>12 DEF NewIds, TriedIds, Ids
<1>16. \A i \in Ids(m) : n.mapInfo[i].addr = m.mapInfo[i].addr /\ m.mapInfo[i].addr \in Addresses
  <2>1. \A i \in Ids(m) : m.mapInfo[i].addr \in Addresses
    BY <1>1 DEF IsAddrMan, Info, Ids
  <2> QED BY <1>2, <1>12, <2>1
<1>17. NewFiled(n, Nobody)
  <2>1. In(l, old) = {}
    <3>1. Cardinality(In(l, old)) = 0
      <4>1. l.mapInfo[old].nRefCount = 0 /\ old # Nobody
        BY <1>1, <1>2, <1>10, <1>15 DEF NewFiled, IsAddrMan, Ids, Nobody
      <4>2. Cardinality(In(l, old)) \in Nat
        BY <1>2, Finite
      <4> QED BY <1>2, <1>10, <4>1, <4>2 DEF NewFiled
    <3> QED BY <1>2, <3>1, Finite, FS_EmptySet
  <2>2. In(n, old) = {b} /\ \A i \in Ids(m) \ {old} : In(n, i) = In(l, i)
    BY <1>11, <1>13, <2>1 DEF In
  <2>3. Cardinality(In(n, old)) = 1
    BY <2>2, FS_Singleton
  <2>4. ASSUME NEW i \in Ids(n)
        PROVE  n.mapInfo[i].nRefCount = Cardinality(In(n, i)) + (IF i = Nobody THEN 1 ELSE 0)
    <3>1. i # Nobody
      BY <1>1, <1>2, <1>12 DEF IsAddrMan, Ids, Nobody
    <3>2. CASE i = old
      BY <1>12, <2>3, <3>1, <3>2
    <3>3. CASE i # old
      BY <1>2, <1>12, <2>2, <3>3 DEF NewFiled
    <3> QED BY <3>2, <3>3
  <2>5. \A d \in NewBuckets : n.vvNew[d] \subseteq Ids(n)
    BY <1>2, <1>10, <1>12, <1>13 DEF NewFiled
  <2>6. NewIds(l) \subseteq Ids(l) /\ TriedIds(l) \subseteq Ids(l)
    BY DEF NewIds, TriedIds, Ids
  <2>7. ASSUME NEW i \in NewIds(n)
        PROVE  n.mapInfo[i].nRefCount \in 1 .. BucketsPerAddress
    <3>1. CASE i = old
      BY <1>12, <3>1, AddrManAssumption DEF AddrManAssumption
    <3>2. CASE i # old
      BY <1>2, <1>12, <1>15, <2>6, <3>2 DEF NewFiled
    <3> QED BY <3>1, <3>2
  <2>8. \A i \in TriedIds(n) : n.mapInfo[i].nRefCount = 0 /\ n.mapInfo[i].nLastSuccess # 0
    BY <1>2, <1>12, <1>15, <2>6 DEF NewFiled
  <2> QED BY <2>4, <2>5, <2>7, <2>8 DEF NewFiled
<1>18. TriedFiled(n)
  <2>1. TriedIds(n) = (TriedIds(m) \cup {id}) \ {old}
    BY <1>2, <1>15
  <2>2. TriedIds(m) \cup TriedIds(n) \subseteq Ids(m)
    BY <1>2, <1>12 DEF TriedIds, Ids
  <2>3. ASSUME NEW q \in 1 .. Len(w)
        PROVE  w[q] \in TriedIds(n) /\ GetTriedBucket[m.mapInfo[w[q]].addr] = k
    <3>1. CASE w[q] = id
      BY <1>6, <1>10, <2>1, <3>1
    <3>2. CASE w[q] # id
      <4>1. w[q] # old /\ \E x \in 1 .. Len(v) : w[q] = v[x]
        BY <1>8, <1>9, <3>2
      <4> QED BY <1>4, <2>1, <4>1
    <3> QED BY <3>1, <3>2
  <2>4. ASSUME NEW i \in TriedIds(n), GetTriedBucket[m.mapInfo[i].addr] = k
        PROVE  \E q \in 1 .. Len(w) : w[q] = i
    <3>1. CASE i = id
      BY <1>8, <1>9, <3>1
    <3>2. CASE i # id
      <4>1. i \in TriedIds(m) /\ i # old
        BY <2>1, <3>2
      <4>2. PICK x \in 1 .. Len(v) : v[x] = i
        BY <1>4, <2>4, <4>1
      <4> QED BY <1>8, <1>9, <4>1, <4>2
    <3> QED BY <3>1, <3>2
  <2>5. ASSUME NEW i, GetTriedBucket[m.mapInfo[i].addr] # k
        PROVE  i \in TriedIds(m) <=> i \in TriedIds(n)
    BY <1>6, <1>10, <2>1, <2>5
  <2>6. n.vvTried = [m.vvTried EXCEPT ![k] = w]
    BY <1>2, <1>12
  <2>7. \A i \in TriedIds(m) \cup TriedIds(n) : n.mapInfo[i].addr = m.mapInfo[i].addr
    BY <1>16, <2>2
  <2>8. \A i \in TriedIds(n) : n.mapInfo[i].addr \in Addresses
    BY <1>16, <2>2
  <2>9. TriedFiled(m) /\ DOMAIN m.vvTried = TriedBuckets /\ NoRepeats(w)
    BY <1>1, <1>4, <1>9
  <2> HIDE DEF TriedFiled, NoRepeats
  <2> QED BY <2>3, <2>4, <2>5, <2>6, <2>7, <2>8, <2>9, BucketRefiled
<1>19. Counted(n)
  <2>1. IsFiniteSet(NewIds(l)) /\ IsFiniteSet(TriedIds(l)) /\ m.nNew \in Nat /\ m.nTried \in Nat
    BY <1>1, <1>2, Finite DEF IsAddrMan
  <2>2. Cardinality(NewIds(n)) = Cardinality(NewIds(l)) + 1
    BY <1>15, <2>1, FS_AddElement
  <2>3. Cardinality(TriedIds(n)) = Cardinality(TriedIds(l)) - 1
    BY <1>15, <2>1, FS_RemoveElement
  <2> QED BY <1>1, <1>2, <1>12, <2>1, <2>2, <2>3 DEF Counted
<1>20. Bounded(n)
  <2>1. Cardinality(n.vvNew[b]) <= NewBucketSize
    <3>1. /\ IsFiniteSet(l.vvNew[b]) /\ Cardinality(l.vvNew[b]) \in Nat
          /\ Cardinality(n.vvNew[b]) \in Nat
      BY <1>2, <1>11, <1>14, Finite
    <3>2. \/ Cardinality(n.vvNew[b]) = Cardinality(l.vvNew[b])
          \/ Cardinality(n.vvNew[b]) = Cardinality(l.vvNew[b]) + 1
      BY <1>13, <3>1, FS_AddElement
    <3>3. NewBucketSize \in Nat
      BY AddrManAssumption DEF AddrManAssumption
    <3> QED BY <1>11, <3>1, <3>2, <3>3
  <2>2. \A d \in NewBuckets : Cardinality(n.vvNew[d]) <= NewBucketSize
    BY <1>2, <1>13, <2>1 DEF Bounded
  <2>3. \A d \in TriedBuckets : n.vvTried[d] = (IF d = k THEN w ELSE m.vvTried[d])
    BY <1>2, <1>4, <1>12
  <2>4. Len(w) = Len(m.vvTried[k])
    BY <1>8 DEF v
  <2> QED BY <1>1, <2>2, <2>3, <2>4 DEF Bounded
<1> QED BY <1>2, <1>12, <1>14, <1>16, <1>17, <1>18, <1>19, <1>20 DEF Consistent

\* A call of Good loses no entry.
LEMMA GoodKeeps ==
    ASSUME Consistent(am, Nobody), now \in 0 .. MaxTime, NEW a \in Addresses, Good(a)
    PROVE  /\ Consistent(am', Nobody) /\ now' \in 0 .. MaxTime /\ Ids(am') = Ids(am)
           /\ \A i \in Ids(am) : am'.mapInfo[i].addr = am.mapInfo[i].addr
<1> DEFINE id == am.mapAddr[a]
           m == [am EXCEPT !.mapInfo[id].nLastSuccess = now']
           k == GetTriedBucket[a]
           v == m.vvTried[k]
<1>1. now < MaxTime /\ now' = now + 1 /\ a \in DOMAIN am.mapAddr /\ MaxTime \in Nat
  BY AddrManAssumption DEF Good, AddrManAssumption
<1>2. id \in Ids(am) /\ am.mapInfo[id].addr = a /\ k \in TriedBuckets
  BY <1>1, AddrManAssumption DEF Consistent, Indexed, AddrsAgree, AddrManAssumption
<1>3. EntryChanged(am, m, id, [am.mapInfo[id] EXCEPT !.nLastSuccess = now + 1])
  BY <1>1 DEF EntryChanged
<1>4. IF m.mapInfo[id].fInTried THEN am' = m
      ELSE \E nOrigin \in {b \in NewBuckets : id \in m.vvNew[b]} :
              IF Len(v) < TriedBucketSize
              THEN am' = [LeaveNew(m, id) EXCEPT !.vvTried[k] = Append(@, id), !.nTried = @ + 1]
              ELSE \E r \in Shuffles(InspectCount(v), Len(v)) :
                      am' = Evict(LeaveNew(m, id), id, k, nOrigin, SelectTried(m, v, r))
  BY DEF Good
<1> HIDE DEF m, id, k
<1>5. /\ Consistent(m, Nobody) /\ m.mapInfo[id].nLastSuccess # 0
      /\ Ids(m) = Ids(am)
      /\ \A i \in Ids(am) : m.mapInfo[i].addr = am.mapInfo[i].addr
  <2>1. now \in 0 .. MaxTime - 1
    BY <1>1
  <2> QED BY <1>2, <1>3, <2>1, SuccessKeeps
<1>6. now' \in 0 .. MaxTime
  BY <1>1
<1>7. CASE m.mapInfo[id].fInTried
  BY <1>4, <1>5, <1>6, <1>7
<1>8. CASE ~m.mapInfo[id].fInTried
  <2>1. id \in NewIds(m) /\ GetTriedBucket[m.mapInfo[id].addr] = k
    BY <1>2, <1>5, <1>8 DEF NewIds, k
  <2>2. PICK nOrigin \in In(m, id) :
           IF Len(v) < TriedBucketSize
           THEN am' = [LeaveNew(m, id) EXCEPT !.vvTried[k] = Append(@, id), !.nTried = @ + 1]
           ELSE \E r \in Shuffles(InspectCount(v), Len(v)) :
                   am' = Evict(LeaveNew(m, id), id, k, nOrigin, SelectTried(m, v, r))
    BY <1>4, <1>8 DEF In
  <2>3. /\ Consistent(am', Nobody) /\ Ids(am') = Ids(m)
        /\ \A i \in Ids(m) : am'.mapInfo[i].addr = m.mapInfo[i].addr
    <3>1. CASE Len(v) < TriedBucketSize
      <4>1. Appended(LeaveNew(m, id), am', k, id)
        BY <2>2, <3>1 DEF Appended
      <4> QED BY <1>5, <2>1, <3>1, <4>1, AppendKeeps
    <3>2. CASE ~(Len(v) < TriedBucketSize)
      <4>1. PICK r \in Shuffles(InspectCount(v), Len(v)) :
               am' = Evict(LeaveNew(m, id), id, k, nOrigin, SelectTried(m, v, r))
        BY <2>2, <3>2
      <4>2. Len(m.vvTried[k]) # 0
        BY <3>2, AddrManAssumption DEF AddrManAssumption
      <4>3. r \in Shuffles(InspectCount(m.vvTried[k]), Len(m.vvTried[k]))
        OBVIOUS
      <4>4. Evicts(m, am', id, k, nOrigin, r)
        BY <2>1, <4>1, <4>2, <4>3 DEF Evicts
      <4> QED BY <1>2, <1>5, <2>1, <4>4, EvictKeeps
    <3> QED BY <3>1, <3>2
  <2> QED BY <1>5, <1>6, <2>3
<1> QED BY <1>7, <1>8

-----------------------------------------------------------------------------

\* The places of the numbers of a set in their order are 0, 1, ...
LEMMA RankBijective ==
    ASSUME NEW S \in SUBSET Nat, IsFiniteSet(S)
    PROVE  /\ \A i \in S : Rank(i, S) \in 0 .. Cardinality(S) - 1
           /\ \A i, j \in S : Rank(i, S) = Rank(j, S) => i = j
           /\ \A p \in 0 .. Cardinality(S) - 1 : \E i \in S : Rank(i, S) = p
<1> DEFINE below(i) == {j \in S : j < i}
           n == Cardinality(S)
           f == [i \in S |-> Rank(i, S)]
<1>1. n \in Nat
  BY FS_CardinalityType
<1>2. ASSUME NEW i \in S
      PROVE  /\ IsFiniteSet(below(i)) /\ Cardinality(below(i)) \in Nat
             /\ Cardinality(below(i)) <= n - 1
  <2>1. below(i) \in SUBSET (S \ {i})
    OBVIOUS
  <2>2. IsFiniteSet(S \ {i}) /\ Cardinality(S \ {i}) = n - 1
    BY FS_RemoveElement
  <2> HIDE DEF below, n
  <2>3. IsFiniteSet(below(i)) /\ Cardinality(below(i)) <= n - 1
    BY <2>1, <2>2, FS_Subset
  <2> QED BY <2>3, FS_CardinalityType
<1>3. ASSUME NEW i \in S, NEW j \in S, i < j
      PROVE  Cardinality(below(i)) < Cardinality(below(j))
  <2>4. i \in Nat /\ j \in Nat /\ S \subseteq Nat
    OBVIOUS
  <2>5. \A k \in below(i) : k \in S /\ k < j
    BY <1>3, <2>4
  <2>6. i \notin below(i)
    BY <2>4
  <2>1. below(i) \cup {i} \in SUBSET below(j) /\ i \notin below(i)
    <3>1. \A k \in below(i) \cup {i} : k \in below(j)
      BY <1>3, <2>5
    <3> HIDE DEF below
    <3> QED BY <2>6, <3>1
  <2> HIDE DEF below
  <2>2. Cardinality(below(i) \cup {i}) = Cardinality(below(i)) + 1
    BY <1>2, <2>1, FS_AddElement
  <2>3. Cardinality(below(i) \cup {i}) <= Cardinality(below(j))
    BY <1>2, <2>1, FS_Subset
  <2> QED BY <1>2, <2>2, <2>3
<1>4. \A i \in S : f[i] = Cardinality(below(i)) /\ f[i] = Rank(i, S)
  BY DEF Rank
<1> HIDE DEF below
<1>5. ASSUME NEW i \in S
      PROVE  f[i] \in 0 .. n - 1
  BY <1>1, <1>2, <1>4
<1>6. ASSUME NEW i \in S, NEW j \in S, f[i] = f[j]
      PROVE  i = j
  <2>1. ~(i < j) /\ ~(j < i)
    BY <1>2, <1>3, <1>4, <1>6
  <2> QED BY <2>1
<1>7. f \in [S -> 0 .. n - 1] /\ DOMAIN f = S
  BY <1>5
<1> HIDE DEF f
<1>8. f \in Injection(S, 0 .. n - 1)
  BY <1>6, <1>7 DEF Injection, IsInjective
<1>9. IsFiniteSet(0 .. n - 1) /\ Cardinality(0 .. n - 1) = n
  <2>1. 0 \in Int /\ n - 1 \in Int
    BY <1>1
  <2>2. IsFiniteSet(0 .. n - 1) /\ Cardinality(0 .. n - 1) = IF 0 > n - 1 THEN 0 ELSE n - 1 - 0 + 1
    BY <2>1, FS_Interval
  <2> QED BY <1>1, <2>2
<1>10. f \in Surjection(S, 0 .. n - 1)
  <2> DEFINE T == 0 .. n - 1
  <2> HIDE DEF T
  <2>1. f \in Injection(S, T) /\ IsFiniteSet(T) /\ Cardinality(S) = Cardinality(T)
    BY <1>8, <1>9 DEF T
  <2>2. f \in Surjection(S, T)
    BY <2>1, FS_Injection
  <2> QED BY <2>2 DEF T
<1>11. \A p \in 0 .. n - 1 : \E i \in S : f[i] = p
  BY <1>7, <1>10 DEF Surjection
<1> QED BY <1>4, <1>5, <1>6, <1>11

\* The entries with a reference are those that are not tried.
LEMMA FreshAreNew ==
    ASSUME NEW m, Consistent(m, Nobody)
    PROVE  FreshIds(m) = NewIds(m)
<1>1. \A i \in NewIds(m) : m.mapInfo[i].nRefCount \in 1 .. BucketsPerAddress
  BY DEF Consistent, NewFiled
<1>2. \A i \in TriedIds(m) : m.mapInfo[i].nRefCount = 0
  BY DEF Consistent, NewFiled
<1>3. Ids(m) = NewIds(m) \cup TriedIds(m)
  BY DEF NewIds, TriedIds, Ids
<1>4. \A i \in Ids(m) : i \in NewIds(m) <=> m.mapInfo[i].nRefCount # 0
  BY <1>1, <1>2, <1>3
<1> QED BY <1>3, <1>4 DEF FreshIds, Ids

\* The entry that is read as entry j.
OldIds(m) ==
    [j \in 0 .. (m.nNew + m.nTried) - 1 |->
        CHOOSE i \in DOMAIN Renumbered(m) : Renumbered(m)[i] = j]

\* old[j] is each entry once, those that are not tried first.
Renames(m, old, n) ==
    /\ n = m.nNew + m.nTried /\ n \in 0 .. MaxId /\ m.nNew \in 0 .. n
    /\ \A j \in 0 .. n - 1 : old[j] \in Ids(m) /\ (j < m.nNew <=> old[j] \in NewIds(m))
    /\ \A j, l \in 0 .. n - 1 : old[j] = old[l] => j = l
    /\ \A i \in Ids(m) : \E j \in 0 .. n - 1 : old[j] = i

\* Each id that a read of peers.dat gives is that of one entry of the dump.
LEMMA OldIdsRename ==
    ASSUME NEW m, Consistent(m, Nobody)
    PROVE  Renames(m, OldIds(m), m.nNew + m.nTried)
<1> DEFINE id == Renumbered(m)
           N == NewIds(m)
           T == TriedIds(m)
           n == m.nNew + m.nTried
           old == OldIds(m)
<1>1. /\ Indexed(m) /\ Counted(m) /\ IsAddrMan(m)
      /\ Ids(m) \subseteq 0 .. MaxId - 1 /\ MaxId \in Nat
  BY AddrManAssumption DEF Consistent, Indexed, IsAddrMan, Ids, AddrManAssumption
<1>2. /\ N \in SUBSET Nat /\ T \in SUBSET Nat /\ N \cup T = Ids(m) /\ N \cap T = {}
      /\ IsFiniteSet(N) /\ IsFiniteSet(T) /\ IsFiniteSet(Ids(m))
  <2>1. N \cup T = Ids(m) /\ N \cap T = {}
    BY DEF NewIds, TriedIds, Ids
  <2>2. Ids(m) \subseteq Nat
    BY <1>1
  <2> QED BY <1>1, <2>1, <2>2, Finite
<1>3. m.nNew = Cardinality(N) /\ m.nTried = Cardinality(T) /\ m.nNew \in Nat /\ m.nTried \in Nat
  BY <1>1 DEF Counted, IsAddrMan
<1>4. n = Cardinality(Ids(m)) /\ n \in Nat
  <2>1. Cardinality(N \cup T) = Cardinality(N) + Cardinality(T) - Cardinality(N \cap T)
    BY <1>2, FS_Union
  <2>2. Cardinality(N \cap T) = 0
    BY <1>2, FS_EmptySet
  <2> HIDE DEF N, T
  <2>3. Cardinality(Ids(m)) = Cardinality(N) + Cardinality(T)
    BY <1>2, <1>3, <2>1, <2>2
  <2> QED BY <1>3, <2>3
<1>5. n <= MaxId
  <2>1. IsFiniteSet(0 .. MaxId - 1)
        /\ Cardinality(0 .. MaxId - 1) = IF 0 > MaxId - 1 THEN 0 ELSE MaxId - 1 - 0 + 1
    <3>1. 0 \in Int /\ MaxId - 1 \in Int
      BY <1>1
    <3> QED BY <3>1, FS_Interval
  <2>2. Cardinality(Ids(m)) <= Cardinality(0 .. MaxId - 1)
    BY <1>1, <2>1, FS_Subset
  <2> QED BY <1>1, <1>4, <2>1, <2>2
<1>6. id = [i \in Ids(m) |-> IF i \in N THEN Rank(i, N) ELSE m.nNew + Rank(i, T)]
  BY <1>2, FreshAreNew DEF Renumbered
<1> HIDE DEF id, N, T
<1>7. /\ \A i \in N : Rank(i, N) \in 0 .. m.nNew - 1
      /\ \A i, j \in N : Rank(i, N) = Rank(j, N) => i = j
      /\ \A p \in 0 .. m.nNew - 1 : \E i \in N : Rank(i, N) = p
  BY <1>2, <1>3, RankBijective
<1>8. /\ \A i \in T : Rank(i, T) \in 0 .. m.nTried - 1
      /\ \A i, j \in T : Rank(i, T) = Rank(j, T) => i = j
      /\ \A p \in 0 .. m.nTried - 1 : \E i \in T : Rank(i, T) = p
  BY <1>2, <1>3, RankBijective
<1>9. /\ DOMAIN id = Ids(m)
      /\ \A i \in N : id[i] = Rank(i, N) /\ i \in Ids(m)
      /\ \A i \in T : id[i] = m.nNew + Rank(i, T) /\ i \in Ids(m)
  BY <1>2, <1>6
<1>10. ASSUME NEW i \in Ids(m)
       PROVE  id[i] \in 0 .. n - 1 /\ (id[i] < m.nNew <=> i \in N)
  <2>1. CASE i \in N
    BY <1>3, <1>7, <1>9, <2>1
  <2>2. CASE i \in T
    BY <1>2, <1>3, <1>8, <1>9, <2>2
  <2> QED BY <1>2, <2>1, <2>2
<1>11. ASSUME NEW i \in Ids(m), NEW j \in Ids(m), id[i] = id[j]
       PROVE  i = j
  <2>1. i \in N <=> j \in N
    BY <1>10, <1>11
  <2>2. CASE i \in N
    BY <1>7, <1>9, <1>11, <2>1, <2>2
  <2>3. CASE i \notin N
    <3>1. i \in T /\ j \in T
      BY <1>2, <2>1, <2>3
    <3>2. Rank(i, T) = Rank(j, T)
      BY <1>3, <1>8, <1>9, <1>11, <3>1
    <3> QED BY <1>8, <3>1, <3>2
  <2> QED BY <2>2, <2>3
<1>12. ASSUME NEW p \in 0 .. n - 1
       PROVE  \E i \in Ids(m) : id[i] = p
  <2>1. CASE p < m.nNew
    <3>1. p \in 0 .. m.nNew - 1
      BY <1>3, <2>1
    <3> QED BY <1>7, <1>9, <3>1
  <2>2. CASE ~(p < m.nNew)
    <3>1. p - m.nNew \in 0 .. m.nTried - 1
      BY <1>3, <2>2
    <3>2. PICK i \in T : Rank(i, T) = p - m.nNew
      BY <1>8, <3>1
    <3> QED BY <1>3, <1>9, <3>2
  <2> QED BY <2>1, <2>2
<1>13. ASSUME NEW p \in 0 .. n - 1
       PROVE  old[p] \in Ids(m) /\ id[old[p]] = p
  <2>2. old = [j \in 0 .. n - 1 |-> CHOOSE i \in DOMAIN id : id[i] = j]
    BY DEF OldIds, id
  <2> HIDE DEF old, n
  <2>3. old[p] = CHOOSE i \in DOMAIN id : id[i] = p
    BY <2>2
  <2>1. old[p] = CHOOSE i \in Ids(m) : id[i] = p
    BY <1>9, <2>3
  <2> QED BY <1>12, <2>1
<1> HIDE DEF old, n
<1>14. \A i \in Ids(m) : \E j \in 0 .. n - 1 : old[j] = i
  <2>1. ASSUME NEW i \in Ids(m)
        PROVE  id[i] \in 0 .. n - 1 /\ old[id[i]] = i
    <3>1. id[i] \in 0 .. n - 1
      BY <1>10
    <3>2. old[id[i]] \in Ids(m) /\ id[old[id[i]]] = id[i]
      BY <1>13, <3>1
    <3> QED BY <1>11, <3>1, <3>2
  <2> QED BY <2>1
<1>15. \A j \in 0 .. n - 1 : old[j] \in Ids(m) /\ (j < m.nNew <=> old[j] \in N)
  BY <1>10, <1>13
<1>16. \A j, l \in 0 .. n - 1 : old[j] = old[l] => j = l
  BY <1>13
<1>17. n = m.nNew + m.nTried /\ n \in 0 .. MaxId /\ m.nNew \in 0 .. n
  BY <1>1, <1>3, <1>4, <1>5 DEF n
<1> QED BY <1>14, <1>15, <1>16, <1>17 DEF Renames, old, n, N

\* The numbers of a set in their order, as a sequence.
InOrder(T) == [p \in 1 .. Cardinality(T) |-> CHOOSE j \in T : Rank(j, T) = p - 1]

\* The ids of T in increasing order are a list of T without repeats.
LEMMA InOrderLists ==
    ASSUME NEW D, NEW T \in SUBSET D, T \in SUBSET Nat, IsFiniteSet(T)
    PROVE  /\ InOrder(T) \in Seq(D) /\ Len(InOrder(T)) = Cardinality(T) /\ NoRepeats(InOrder(T))
           /\ \A p \in 1 .. Cardinality(T) : InOrder(T)[p] \in T
           /\ \A j \in T : \E p \in 1 .. Cardinality(T) : InOrder(T)[p] = j
<1> DEFINE c == Cardinality(T)
           s == InOrder(T)
<1>1. c \in Nat
  BY FS_CardinalityType
<1>2. /\ \A i \in T : Rank(i, T) \in 0 .. c - 1
      /\ \A i, j \in T : Rank(i, T) = Rank(j, T) => i = j
      /\ \A p \in 0 .. c - 1 : \E i \in T : Rank(i, T) = p
  BY RankBijective
<1>3. s = [p \in 1 .. c |-> CHOOSE j \in T : Rank(j, T) = p - 1]
  BY DEF InOrder
<1> HIDE DEF s, c
<1>4. ASSUME NEW p \in 1 .. c
      PROVE  s[p] \in T /\ Rank(s[p], T) = p - 1
  <2>1. p - 1 \in 0 .. c - 1
    BY <1>1
  <2>2. \E j \in T : Rank(j, T) = p - 1
    BY <1>2, <2>1
  <2>3. s[p] = CHOOSE j \in T : Rank(j, T) = p - 1
    BY <1>3
  <2> QED BY <2>2, <2>3
<1>5. s \in Seq(D) /\ Len(s) = c
  <2>1. s \in [1 .. c -> D]
    <3>1. \A p \in 1 .. c : s[p] \in D
      BY <1>4
    <3>2. s = [p \in 1 .. c |-> s[p]]
      BY <1>3
    <3> QED BY <3>1, <3>2
  <2> QED BY <1>1, <2>1
<1>6. NoRepeats(s)
  <2>1. ASSUME NEW p \in 1 .. c, NEW q \in 1 .. c, s[p] = s[q]
        PROVE  p = q
    <3>1. p - 1 = q - 1
      BY <1>4, <2>1
    <3> QED BY <1>1, <3>1
  <2> QED BY <1>5, <2>1 DEF NoRepeats
<1>7. ASSUME NEW j \in T
      PROVE  \E p \in 1 .. c : s[p] = j
  <2>1. Rank(j, T) + 1 \in 1 .. c /\ (Rank(j, T) + 1) - 1 = Rank(j, T)
    BY <1>1, <1>2
  <2>2. s[Rank(j, T) + 1] \in T /\ Rank(s[Rank(j, T) + 1], T) = Rank(j, T)
    BY <1>4, <2>1
  <2>3. s[Rank(j, T) + 1] = j
    BY <1>2, <2>2
  <2> QED BY <2>1, <2>3
<1> QED BY <1>4, <1>5, <1>6, <1>7 DEF s, c

\* The entries that are read into tried bucket k.
ReadTried(m, old, n, k) ==
    {j \in m.nNew .. n - 1 : GetTriedBucket[m.mapInfo[old[j]].addr] = k}

\* L is what Loaded makes of m, with entry old[j] read as entry j.
LoadedFrom(m, L, old, n) ==
    /\ DOMAIN L = Fields
    /\ L.mapInfo = [j \in 0 .. n - 1 |->
                      [m.mapInfo[old[j]] EXCEPT
                          !.nRefCount  = Cardinality({b \in NewBuckets :
                                                         j < m.nNew /\ old[j] \in m.vvNew[b]}),
                          !.fInTried   = j >= m.nNew,
                          !.nRandomPos = j + 1]]
    /\ L.mapAddr = [a \in {m.mapInfo[old[j]].addr : j \in 0 .. n - 1} |->
                      CHOOSE j \in 0 .. n - 1 : m.mapInfo[old[j]].addr = a]
    /\ L.vRandom = [p \in 1 .. n |-> p - 1]
    /\ L.vvNew = [b \in NewBuckets |->
                    {j \in 0 .. n - 1 : j < m.nNew /\ old[j] \in m.vvNew[b]}]
    /\ L.vvTried = [k \in TriedBuckets |-> InOrder(ReadTried(m, old, n, k))]
    /\ L.nNew = m.nNew /\ L.nTried = m.nTried /\ L.nIdCount = n

\* Loaded, with the old ids as a parameter.
LEMMA LoadedIsFrom ==
    ASSUME NEW m
    PROVE  LoadedFrom(m, Loaded(m), OldIds(m), m.nNew + m.nTried)
BY DEF Loaded, LoadedFrom, OldIds, StoredIn, Fields, InOrder, ReadTried

\* Entry j of L is entry old[j] of m, with its references counted anew.
Reread(m, L, old, n) ==
    \A j \in 0 .. n - 1 :
        /\ L.mapInfo[j].addr = m.mapInfo[old[j]].addr
        /\ L.mapInfo[j].nLastSuccess = m.mapInfo[old[j]].nLastSuccess
        /\ L.mapInfo[j].nRefCount = Cardinality(In(L, j))
        /\ L.mapInfo[j].fInTried = (j >= m.nNew)
        /\ L.mapInfo[j].nRandomPos = j + 1
        /\ In(L, j) = {b \in NewBuckets : j < m.nNew /\ old[j] \in m.vvNew[b]}

\* The entries that a read makes, and which of them are tried.
LEMMA LoadedEntries ==
    ASSUME NEW m, Consistent(m, Nobody), NEW old, NEW n, Renames(m, old, n),
           NEW L, LoadedFrom(m, L, old, n)
    PROVE  /\ Ids(L) = 0 .. n - 1 /\ L.mapInfo \in [0 .. n - 1 -> Info]
           /\ Reread(m, L, old, n)
           /\ NewIds(L) = 0 .. m.nNew - 1 /\ TriedIds(L) = m.nNew .. n - 1
<1> DEFINE C(j) == {b \in NewBuckets : j < m.nNew /\ old[j] \in m.vvNew[b]}
<1>1. /\ Indexed(m) /\ m.mapInfo \in [Ids(m) -> Info]
      /\ n \in Nat /\ m.nNew \in Nat /\ m.nNew <= n
      /\ \A j \in 0 .. n - 1 : old[j] \in Ids(m)
  <2>1. Indexed(m) /\ m.mapInfo \in [Ids(m) -> Info] /\ m.nNew \in Nat
    BY DEF Consistent, Indexed, IsAddrMan, Ids
  <2>2. /\ n \in 0 .. MaxId /\ m.nNew \in 0 .. n
        /\ \A j \in 0 .. n - 1 : old[j] \in Ids(m)
    BY DEF Renames
  <2> QED BY <2>1, <2>2, AddrManAssumption DEF AddrManAssumption
<1>2. DOMAIN L.mapInfo = 0 .. n - 1 /\ Ids(L) = 0 .. n - 1
  BY DEF LoadedFrom, Ids
<1>3. ASSUME NEW j \in 0 .. n - 1
      PROVE  In(L, j) = C(j) /\ Cardinality(C(j)) \in Nat
  <2>4. \A b \in NewBuckets :
           L.vvNew[b] = {i \in 0 .. n - 1 : i < m.nNew /\ old[i] \in m.vvNew[b]}
    BY DEF LoadedFrom
  <2>5. \A b \in NewBuckets : j \in L.vvNew[b] <=> j < m.nNew /\ old[j] \in m.vvNew[b]
    BY <2>4
  <2>1. In(L, j) = C(j)
    BY <2>5 DEF In
  <2>2. C(j) \in SUBSET NewBuckets
    OBVIOUS
  <2> HIDE DEF C
  <2>3. IsFiniteSet(C(j))
    BY <2>2, FS_Subset, AddrManAssumption DEF AddrManAssumption
  <2> QED BY <2>1, <2>3, FS_CardinalityType
<1>4. ASSUME NEW j \in 0 .. n - 1
      PROVE  L.mapInfo[j] = [m.mapInfo[old[j]] EXCEPT !.nRefCount = Cardinality(C(j)),
                                                      !.fInTried = (j >= m.nNew),
                                                      !.nRandomPos = j + 1]
  BY DEF LoadedFrom
<1> HIDE DEF C
<1>5. ASSUME NEW j \in 0 .. n - 1
      PROVE  /\ L.mapInfo[j] \in Info
             /\ L.mapInfo[j].addr = m.mapInfo[old[j]].addr
             /\ L.mapInfo[j].nLastSuccess = m.mapInfo[old[j]].nLastSuccess
             /\ L.mapInfo[j].nRefCount = Cardinality(C(j))
             /\ L.mapInfo[j].fInTried = (j >= m.nNew)
             /\ L.mapInfo[j].nRandomPos = j + 1
  <2> DEFINE o == m.mapInfo[old[j]]
  <2>1. o \in Info /\ Cardinality(C(j)) \in Nat /\ j + 1 \in Nat /\ (j >= m.nNew) \in BOOLEAN
    BY <1>1, <1>3
  <2>2. L.mapInfo[j] = [o EXCEPT !.nRefCount = Cardinality(C(j)), !.fInTried = (j >= m.nNew),
                                 !.nRandomPos = j + 1]
    BY <1>4
  <2> HIDE DEF o
  <2>3. /\ L.mapInfo[j] \in Info
        /\ L.mapInfo[j].addr = o.addr /\ L.mapInfo[j].nLastSuccess = o.nLastSuccess
        /\ L.mapInfo[j].nRefCount = Cardinality(C(j))
        /\ L.mapInfo[j].fInTried = (j >= m.nNew) /\ L.mapInfo[j].nRandomPos = j + 1
    BY <2>1, <2>2 DEF Info
  <2> QED BY <2>3 DEF o
<1>6. L.mapInfo \in [0 .. n - 1 -> Info]
  <2>1. L.mapInfo = [j \in 0 .. n - 1 |-> L.mapInfo[j]]
    BY DEF LoadedFrom
  <2> QED BY <1>5, <2>1
<1>7. Reread(m, L, old, n)
  BY <1>3, <1>5 DEF Reread, C
<1>8. NewIds(L) = 0 .. m.nNew - 1 /\ TriedIds(L) = m.nNew .. n - 1
  <2>1. \A j \in 0 .. n - 1 : L.mapInfo[j].fInTried <=> j >= m.nNew
    BY <1>5
  <2>2. /\ \A j : j \in NewIds(L) <=> j \in 0 .. n - 1 /\ ~(j >= m.nNew)
        /\ \A j : j \in TriedIds(L) <=> j \in 0 .. n - 1 /\ j >= m.nNew
    BY <1>2, <2>1 DEF NewIds, TriedIds, Ids
  <2>3. \A j : j \in 0 .. n - 1 /\ ~(j >= m.nNew) <=> j \in 0 .. m.nNew - 1
    BY <1>1
  <2>4. \A j : j \in 0 .. n - 1 /\ j >= m.nNew <=> j \in m.nNew .. n - 1
    BY <1>1
  <2>5. \A j : j \in NewIds(L) <=> j \in 0 .. m.nNew - 1
    BY <2>2, <2>3
  <2>6. \A j : j \in TriedIds(L) <=> j \in m.nNew .. n - 1
    BY <2>2, <2>4
  <2> QED BY <2>5, <2>6
<1> QED BY <1>2, <1>6, <1>7, <1>8

\* What is read is indexed.
LEMMA LoadedIndexed ==
    ASSUME NEW m, Consistent(m, Nobody), NEW old, NEW n, Renames(m, old, n),
           NEW L, LoadedFrom(m, L, old, n)
    PROVE  Indexed(L)
<1> DEFINE D == 0 .. n - 1
           addr(j) == m.mapInfo[old[j]].addr
<1>1. /\ IsAddrMan(m) /\ AddrsAgree(m) /\ m.mapInfo \in [Ids(m) -> Info]
      /\ n \in Nat /\ n \in 0 .. MaxId /\ MaxId \in Nat
      /\ m.nNew \in Nat /\ m.nTried \in Nat /\ m.nNew <= n
      /\ \A j \in D : old[j] \in Ids(m)
      /\ \A j, l \in D : old[j] = old[l] => j = l
  BY AddrManAssumption DEF Consistent, Indexed, IsAddrMan, Ids, Renames, AddrManAssumption
<1>2. /\ Ids(L) = D /\ L.mapInfo \in [D -> Info] /\ Reread(m, L, old, n)
      /\ NewIds(L) = 0 .. m.nNew - 1 /\ TriedIds(L) = m.nNew .. n - 1
  BY LoadedEntries
<1>3. \A j \in D : L.mapInfo[j].addr = addr(j) /\ L.mapInfo[j].nRandomPos = j + 1
  BY <1>2 DEF Reread
<1>4. D \subseteq 0 .. MaxId - 1 /\ D \subseteq Nat
  BY <1>1
<1>5. \A j \in D : addr(j) \in Addresses
  BY <1>1 DEF Info
<1>6. \A j, l \in D : addr(j) = addr(l) => j = l
  BY <1>1 DEF AddrsAgree
<1>7. L.mapAddr = [a \in {addr(j) : j \in D} |-> CHOOSE j \in D : addr(j) = a]
  BY DEF LoadedFrom
<1>8. DOMAIN L = Fields /\ L.vRandom = [p \in 1 .. n |-> p - 1]
      /\ L.nNew = m.nNew /\ L.nTried = m.nTried /\ L.nIdCount = n
      /\ L.vvTried = [k \in TriedBuckets |-> InOrder(ReadTried(m, old, n, k))]
      /\ L.vvNew = [b \in NewBuckets |-> {j \in D : j < m.nNew /\ old[j] \in m.vvNew[b]}]
  BY DEF LoadedFrom
<1> HIDE DEF D, addr
<1>9. /\ DOMAIN L.mapAddr = {addr(j) : j \in D}
      /\ \A j \in D : addr(j) \in DOMAIN L.mapAddr /\ L.mapAddr[addr(j)] = j
  <2>1. DOMAIN L.mapAddr = {addr(j) : j \in D}
    BY <1>7
  <2>2. ASSUME NEW j \in D
        PROVE  addr(j) \in DOMAIN L.mapAddr /\ L.mapAddr[addr(j)] = j
    <3>1. addr(j) \in {addr(l) : l \in D}
      OBVIOUS
    <3>2. L.mapAddr[addr(j)] = CHOOSE l \in D : addr(l) = addr(j)
      BY <1>7, <3>1
    <3>3. \E l \in D : addr(l) = addr(j)
      OBVIOUS
    <3>4. (CHOOSE l \in D : addr(l) = addr(j)) \in D
          /\ addr(CHOOSE l \in D : addr(l) = addr(j)) = addr(j)
      BY <3>3
    <3> QED BY <1>6, <2>1, <3>1, <3>2, <3>4
  <2> QED BY <2>1, <2>2
<1>10. AddrsAgree(L)
  <2>1. ASSUME NEW a \in DOMAIN L.mapAddr
        PROVE  L.mapAddr[a] \in D /\ L.mapInfo[L.mapAddr[a]].addr = a
    <3>1. PICK j \in D : a = addr(j)
      BY <1>9
    <3> QED BY <1>3, <1>9, <3>1
  <2> QED BY <1>2, <1>3, <1>9, <2>1 DEF AddrsAgree
<1>11. /\ L.vRandom \in Seq(0 .. MaxId - 1) /\ Len(L.vRandom) = n
       /\ \A p \in 1 .. n : L.vRandom[p] = p - 1
  <2>1. \A p \in 1 .. n : p - 1 \in 0 .. MaxId - 1
    BY <1>1
  <2>2. L.vRandom \in [1 .. n -> 0 .. MaxId - 1]
    BY <1>8, <2>1
  <2> QED BY <1>1, <1>8, <2>2
<1>12. RandomAgrees(L)
  <2>1. ASSUME NEW j \in D
        PROVE  j + 1 \in 1 .. n /\ L.vRandom[j + 1] = j
    <3>1. j + 1 \in 1 .. n /\ (j + 1) - 1 = j
      BY <1>1 DEF D
    <3> QED BY <1>11, <3>1
  <2>2. ASSUME NEW p \in 1 .. n
        PROVE  p - 1 \in D /\ (p - 1) + 1 = p
    BY <1>1 DEF D
  <2> QED BY <1>2, <1>3, <1>11, <2>1, <2>2 DEF RandomAgrees
<1>13. L.vvTried \in [TriedBuckets -> Seq(0 .. MaxId - 1)]
  <2>1. ASSUME NEW k \in TriedBuckets
        PROVE  InOrder(ReadTried(m, old, n, k)) \in Seq(0 .. MaxId - 1)
    <3> DEFINE T == ReadTried(m, old, n, k)
               E == 0 .. MaxId - 1
    <3>1. T \in SUBSET D
      BY <1>1 DEF ReadTried, D
    <3>2. T \in SUBSET E /\ T \in SUBSET Nat
      BY <1>4, <3>1
    <3>3. IsFiniteSet(T)
      <4>1. IsFiniteSet(E)
        <5>1. 0 \in Int /\ MaxId - 1 \in Int
          BY <1>1
        <5> QED BY <5>1, FS_Interval
      <4> HIDE DEF E, T
      <4> QED BY <3>2, <4>1, FS_Subset
    <3> HIDE DEF T, E
    <3>4. InOrder(T) \in Seq(E)
      BY <3>2, <3>3, InOrderLists
    <3> QED BY <3>4 DEF T, E
  <2> QED BY <1>8, <2>1
<1>14. L.vvNew \in [NewBuckets -> SUBSET (0 .. MaxId - 1)]
  BY <1>4, <1>8
<1>15. /\ DOMAIN L.mapAddr \subseteq Addresses
       /\ L.mapAddr \in [DOMAIN L.mapAddr -> 0 .. MaxId - 1]
  <2>1. DOMAIN L.mapAddr \subseteq Addresses
    BY <1>5, <1>9
  <2>2. \A a \in DOMAIN L.mapAddr : L.mapAddr[a] \in 0 .. MaxId - 1
    BY <1>2, <1>4, <1>10 DEF AddrsAgree
  <2>3. L.mapAddr = [a \in DOMAIN L.mapAddr |-> L.mapAddr[a]]
    BY <1>7
  <2> QED BY <2>1, <2>2, <2>3
<1>16. IsAddrMan(L)
  <2>1. DOMAIN L.mapInfo = D
    BY <1>2 DEF Ids
  <2> QED BY <1>1, <1>2, <1>4, <1>8, <1>11, <1>13, <1>14, <1>15, <2>1 DEF IsAddrMan, Fields
<1>17. \A j \in Ids(L) : j < L.nIdCount
  BY <1>1, <1>2, <1>8 DEF D
<1> QED BY <1>10, <1>12, <1>16, <1>17 DEF Indexed

\* What is known of each tried bucket that is read.
LEMMA LoadedBucket ==
    ASSUME NEW m, Consistent(m, Nobody), NEW old, NEW n, Renames(m, old, n),
           NEW L, LoadedFrom(m, L, old, n), NEW k \in TriedBuckets
    PROVE  LET T == ReadTried(m, old, n, k) IN
           /\ T \subseteq TriedIds(L) /\ IsFiniteSet(T)
           /\ Len(L.vvTried[k]) = Cardinality(T) /\ NoRepeats(L.vvTried[k])
           /\ \A p \in 1 .. Cardinality(T) : L.vvTried[k][p] \in T
           /\ \A j \in T : \E p \in 1 .. Cardinality(T) : L.vvTried[k][p] = j
<1> DEFINE T == ReadTried(m, old, n, k)
           D == 0 .. n - 1
<1>1. n \in Nat /\ m.nNew \in Nat
  BY AddrManAssumption DEF Consistent, Indexed, IsAddrMan, Renames, AddrManAssumption
<1>2. TriedIds(L) = m.nNew .. n - 1
  BY LoadedEntries
<1>3. T \subseteq TriedIds(L) /\ T \in SUBSET D /\ T \in SUBSET Nat
  BY <1>1, <1>2 DEF ReadTried
<1>4. L.vvTried[k] = InOrder(T)
  BY DEF LoadedFrom
<1>5. IsFiniteSet(D)
  <2>1. 0 \in Int /\ n - 1 \in Int
    BY <1>1
  <2> QED BY <2>1, FS_Interval
<1> HIDE DEF T, D
<1>6. IsFiniteSet(T)
  BY <1>3, <1>5, FS_Subset
<1>7. /\ Len(InOrder(T)) = Cardinality(T) /\ NoRepeats(InOrder(T))
      /\ \A p \in 1 .. Cardinality(T) : InOrder(T)[p] \in T
      /\ \A j \in T : \E p \in 1 .. Cardinality(T) : InOrder(T)[p] = j
  BY <1>3, <1>6, InOrderLists
<1> QED BY <1>3, <1>4, <1>6, <1>7 DEF T

\* What is read is consistent.
LEMMA LoadedKeeps ==
    ASSUME NEW m, Consistent(m, Nobody), NEW old, NEW n, Renames(m, old, n),
           NEW L, LoadedFrom(m, L, old, n)
    PROVE  Consistent(L, Nobody)
<1>1. /\ NewFiled(m, Nobody) /\ TriedFiled(m) /\ Counted(m) /\ Bounded(m) /\ Indexed(m)
      /\ IsAddrMan(m) /\ AddrsAgree(m)
      /\ n \in Nat /\ n = m.nNew + m.nTried
      /\ m.nNew \in Nat /\ m.nTried \in Nat /\ m.nNew <= n
      /\ \A j \in 0 .. n - 1 : old[j] \in Ids(m) /\ (j < m.nNew <=> old[j] \in NewIds(m))
      /\ \A j, l \in 0 .. n - 1 : old[j] = old[l] => j = l
  <2>1. /\ NewFiled(m, Nobody) /\ TriedFiled(m) /\ Counted(m) /\ Bounded(m) /\ Indexed(m)
        /\ IsAddrMan(m) /\ AddrsAgree(m)
    BY DEF Consistent, Indexed
  <2>2. m.nNew \in Nat /\ m.nTried \in Nat
    BY <2>1 DEF IsAddrMan
  <2>3. /\ n \in 0 .. MaxId /\ n = m.nNew + m.nTried /\ m.nNew \in 0 .. n
        /\ \A j \in 0 .. n - 1 : old[j] \in Ids(m) /\ (j < m.nNew <=> old[j] \in NewIds(m))
        /\ \A j, l \in 0 .. n - 1 : old[j] = old[l] => j = l
    BY DEF Renames
  <2> QED BY <2>1, <2>2, <2>3
<1>2. /\ Ids(L) = 0 .. n - 1 /\ Reread(m, L, old, n)
      /\ NewIds(L) = 0 .. m.nNew - 1 /\ TriedIds(L) = m.nNew .. n - 1
  BY LoadedEntries
<1>3. Indexed(L)
  BY LoadedIndexed
<1>4. /\ L.nNew = m.nNew /\ L.nTried = m.nTried /\ L.vRandom = [p \in 1 .. n |-> p - 1]
      /\ \A b \in NewBuckets :
            L.vvNew[b] = {j \in 0 .. n - 1 : j < m.nNew /\ old[j] \in m.vvNew[b]}
  BY DEF LoadedFrom
<1>5. ASSUME NEW j \in NewIds(L)
      PROVE  j \in 0 .. n - 1 /\ j < m.nNew /\ old[j] \in NewIds(m)
  BY <1>1, <1>2
<1>6. ASSUME NEW j \in TriedIds(L)
      PROVE  j \in 0 .. n - 1 /\ ~(j < m.nNew) /\ old[j] \in TriedIds(m)
  <2>1. j \in 0 .. n - 1 /\ ~(j < m.nNew)
    BY <1>1, <1>2
  <2> QED BY <1>1, <2>1 DEF NewIds, TriedIds, Ids
<1>7. NewFiled(L, Nobody)
  <2>1. \A b \in NewBuckets : L.vvNew[b] \subseteq Ids(L)
    BY <1>2, <1>4
  <2>2. ASSUME NEW j \in Ids(L)
        PROVE  L.mapInfo[j].nRefCount = Cardinality(In(L, j)) + (IF j = Nobody THEN 1 ELSE 0)
    <3>1. L.mapInfo[j].nRefCount = Cardinality(In(L, j)) /\ j # Nobody
      BY <1>1, <1>2 DEF Reread, Nobody
    <3>2. Cardinality(In(L, j)) \in Nat
      BY <1>3, Finite
    <3> QED BY <3>1, <3>2
  <2>3. ASSUME NEW j \in NewIds(L)
        PROVE  L.mapInfo[j].nRefCount \in 1 .. BucketsPerAddress
    <3>1. j \in 0 .. n - 1 /\ j < m.nNew /\ old[j] \in NewIds(m) /\ old[j] \in Ids(m)
      BY <1>1, <1>5
    <3>2. In(L, j) = In(m, old[j])
      BY <1>2, <3>1 DEF Reread, In
    <3>3. L.mapInfo[j].nRefCount = Cardinality(In(m, old[j]))
      BY <1>2, <3>1, <3>2 DEF Reread
    <3>4. m.mapInfo[old[j]].nRefCount = Cardinality(In(m, old[j]))
      <4>1. old[j] # Nobody /\ Cardinality(In(m, old[j])) \in Nat
        BY <1>1, <3>1, Finite DEF IsAddrMan, Ids, Nobody
      <4> QED BY <1>1, <3>1, <4>1 DEF NewFiled
    <3> QED BY <1>1, <3>1, <3>3, <3>4 DEF NewFiled
  <2>4. ASSUME NEW j \in TriedIds(L)
        PROVE  L.mapInfo[j].nRefCount = 0 /\ L.mapInfo[j].nLastSuccess # 0
    <3>1. j \in 0 .. n - 1 /\ ~(j < m.nNew) /\ old[j] \in TriedIds(m)
      BY <1>6
    <3>2. In(L, j) = {}
      BY <1>2, <3>1 DEF Reread
    <3>3. L.mapInfo[j].nRefCount = Cardinality({})
      BY <1>2, <3>1, <3>2 DEF Reread
    <3>4. L.mapInfo[j].nLastSuccess = m.mapInfo[old[j]].nLastSuccess
      BY <1>2, <3>1 DEF Reread
    <3>5. m.mapInfo[old[j]].nLastSuccess # 0
      BY <1>1, <3>1 DEF NewFiled
    <3> QED BY <3>3, <3>4, <3>5, FS_EmptySet
  <2> QED BY <2>1, <2>2, <2>3, <2>4 DEF NewFiled
<1>8. ASSUME NEW k \in TriedBuckets
      PROVE  /\ ReadTried(m, old, n, k) \subseteq TriedIds(L)
             /\ IsFiniteSet(ReadTried(m, old, n, k))
             /\ Len(L.vvTried[k]) = Cardinality(ReadTried(m, old, n, k))
             /\ NoRepeats(L.vvTried[k])
             /\ \A p \in 1 .. Cardinality(ReadTried(m, old, n, k)) :
                   L.vvTried[k][p] \in ReadTried(m, old, n, k)
             /\ \A j \in ReadTried(m, old, n, k) :
                   \E p \in 1 .. Cardinality(ReadTried(m, old, n, k)) : L.vvTried[k][p] = j
  BY LoadedBucket
<1>9. ASSUME NEW j \in TriedIds(L)
      PROVE  L.mapInfo[j].addr = m.mapInfo[old[j]].addr /\ L.mapInfo[j].addr \in Addresses
  <2>1. j \in 0 .. n - 1 /\ old[j] \in Ids(m)
    BY <1>1, <1>6
  <2> QED BY <1>1, <1>2, <2>1 DEF Reread, IsAddrMan, Info, Ids
<1>10. TriedFiled(L)
  <2>1. ASSUME NEW k \in TriedBuckets, NEW p \in 1 .. Len(L.vvTried[k])
        PROVE  /\ L.vvTried[k][p] \in TriedIds(L)
               /\ GetTriedBucket[L.mapInfo[L.vvTried[k][p]].addr] = k
    <3>1. L.vvTried[k][p] \in ReadTried(m, old, n, k) /\ L.vvTried[k][p] \in TriedIds(L)
      BY <1>8
    <3> QED BY <1>9, <3>1 DEF ReadTried
  <2>2. ASSUME NEW k \in TriedBuckets,
               NEW p \in 1 .. Len(L.vvTried[k]), NEW q \in 1 .. Len(L.vvTried[k]),
               L.vvTried[k][p] = L.vvTried[k][q]
        PROVE  p = q
    BY <1>8, <2>2 DEF NoRepeats
  <2>3. ASSUME NEW j \in TriedIds(L)
        PROVE  \E p \in 1 .. Len(L.vvTried[GetTriedBucket[L.mapInfo[j].addr]]) :
                  L.vvTried[GetTriedBucket[L.mapInfo[j].addr]][p] = j
    <3> DEFINE k == GetTriedBucket[L.mapInfo[j].addr]
    <3>1. k \in TriedBuckets
      BY <1>9, AddrManAssumption DEF AddrManAssumption
    <3>2. j \in ReadTried(m, old, n, k)
      BY <1>2, <1>9 DEF ReadTried
    <3> HIDE DEF k
    <3>3. \E p \in 1 .. Len(L.vvTried[k]) : L.vvTried[k][p] = j
      BY <1>8, <3>1, <3>2
    <3> QED BY <3>3 DEF k
  <2> QED BY <2>1, <2>2, <2>3 DEF TriedFiled
<1>11. Counted(L)
  <2>1. 0 \in Int /\ m.nNew - 1 \in Int /\ m.nNew \in Int /\ n - 1 \in Int
    BY <1>1
  <2>2. Cardinality(0 .. m.nNew - 1) = IF 0 > m.nNew - 1 THEN 0 ELSE m.nNew - 1 - 0 + 1
    BY <2>1, FS_Interval
  <2>3. Cardinality(m.nNew .. n - 1) = IF m.nNew > n - 1 THEN 0 ELSE n - 1 - m.nNew + 1
    BY <2>1, FS_Interval
  <2>4. Cardinality(0 .. m.nNew - 1) = m.nNew /\ Cardinality(m.nNew .. n - 1) = m.nTried
    BY <1>1, <2>2, <2>3
  <2>5. Len(L.vRandom) = n
    BY <1>1, <1>4
  <2> QED BY <1>1, <1>2, <1>4, <2>4, <2>5 DEF Counted
<1>12. Bounded(L)
  <2>1. ASSUME NEW b \in NewBuckets
        PROVE  Cardinality(L.vvNew[b]) <= NewBucketSize
    <3> DEFINE S == L.vvNew[b]
               f == [j \in S |-> old[j]]
    <3>1. S \subseteq 0 .. n - 1 /\ \A j \in S : old[j] \in m.vvNew[b]
      BY <1>4
    <3>2. IsFiniteSet(m.vvNew[b]) /\ Cardinality(m.vvNew[b]) \in Nat
      BY <1>1, Finite
    <3>3. IsFiniteSet(S) /\ Cardinality(S) \in Nat
      BY <1>3, Finite
    <3> HIDE DEF S
    <3>4. f \in Injection(S, m.vvNew[b])
      BY <1>1, <3>1 DEF Injection, IsInjective
    <3>5. Cardinality(S) <= Cardinality(m.vvNew[b])
      BY <3>2, <3>4, FS_Injection
    <3>6. Cardinality(m.vvNew[b]) <= NewBucketSize /\ NewBucketSize \in Nat
      BY <1>1, AddrManAssumption DEF Bounded, AddrManAssumption
    <3>7. Cardinality(S) <= NewBucketSize
      BY <3>2, <3>3, <3>5, <3>6
    <3> QED BY <3>7 DEF S
  <2>2. ASSUME NEW k \in TriedBuckets
        PROVE  Len(L.vvTried[k]) <= TriedBucketSize
    <3> DEFINE T == ReadTried(m, old, n, k)
               v == m.vvTried[k]
               P == 1 .. Len(v)
               f == [j \in T |-> CHOOSE p \in P : v[p] = old[j]]
    <3>1. IsBucket(m, k, v)
      BY <1>1, BucketOf
    <3>2. Len(v) \in Nat /\ \A i \in TriedIds(m) : GetTriedBucket[m.mapInfo[i].addr] = k
                                                     => \E p \in P : v[p] = i
      BY <3>1 DEF IsBucket
    <3>3. T \subseteq TriedIds(L) /\ IsFiniteSet(T) /\ Len(L.vvTried[k]) = Cardinality(T)
      BY <1>8
    <3>4. \A j \in T : /\ j \in 0 .. n - 1 /\ old[j] \in TriedIds(m)
                       /\ GetTriedBucket[m.mapInfo[old[j]].addr] = k
      BY <1>6, <3>3 DEF ReadTried
    <3>5. IsFiniteSet(P) /\ Cardinality(P) = Len(v)
      <4>1. 1 \in Int /\ Len(v) \in Int
        BY <3>2
      <4>2. IsFiniteSet(1 .. Len(v))
            /\ Cardinality(1 .. Len(v)) = IF 1 > Len(v) THEN 0 ELSE Len(v) - 1 + 1
        BY <4>1, FS_Interval
      <4> QED BY <3>2, <4>2
    <3> HIDE DEF T, P, v
    <3>6. ASSUME NEW j \in T
          PROVE  f[j] \in P /\ v[f[j]] = old[j]
      <4>1. \E p \in P : v[p] = old[j]
        BY <3>2, <3>4
      <4>2. f[j] = CHOOSE p \in P : v[p] = old[j]
        OBVIOUS
      <4> HIDE DEF f
      <4> QED BY <4>1, <4>2
    <3>7. f \in [T -> P] /\ DOMAIN f = T
      BY <3>6
    <3> HIDE DEF f
    <3>8. f \in Injection(T, P)
      <4>1. \A i, j \in T : f[i] = f[j] => i = j
        BY <1>1, <3>4, <3>6
      <4> QED BY <3>7, <4>1 DEF Injection, IsInjective
    <3>9. Cardinality(T) <= Cardinality(P)
      BY <3>5, <3>8, FS_Injection
    <3>10. Len(v) <= TriedBucketSize /\ TriedBucketSize \in Nat /\ Cardinality(T) \in Nat
      BY <1>1, <3>3, FS_CardinalityType, AddrManAssumption DEF Bounded, AddrManAssumption, v
    <3> QED BY <3>2, <3>3, <3>5, <3>9, <3>10
  <2> QED BY <2>1, <2>2 DEF Bounded
<1> QED BY <1>3, <1>7, <1>10, <1>11, <1>12 DEF Consistent

\* The tried bucket of the table, as a set.
LEMMA TriedBucketSet ==
    ASSUME NEW m, Consistent(m, Nobody), NEW k \in TriedBuckets
    PROVE  TriedIn(m, k) = {i \in TriedIds(m) : GetTriedBucket[m.mapInfo[i].addr] = k}
<1>1. IsBucket(m, k, m.vvTried[k])
  BY BucketOf DEF Consistent
<1> QED BY <1>1 DEF IsBucket, TriedIn

\* A dump and a read of peers.dat lose nothing.
LEMMA LoadedIsFaithful ==
    ASSUME NEW m, Consistent(m, Nobody)
    PROVE  LET L == Loaded(m) IN
           /\ Consistent(L, Nobody)
           /\ Known(L) = Known(m)
           /\ \A b \in NewBuckets : AddrsIn(L, L.vvNew[b]) = AddrsIn(m, m.vvNew[b])
           /\ \A k \in TriedBuckets : AddrsIn(L, TriedIn(L, k)) = AddrsIn(m, TriedIn(m, k))
<1> DEFINE L == Loaded(m)
           old == OldIds(m)
           n == m.nNew + m.nTried
<1>1. LoadedFrom(m, L, old, n)
  BY LoadedIsFrom
<1>2. Renames(m, old, n)
  BY OldIdsRename
<1> HIDE DEF L, old, n
<1>3. Consistent(L, Nobody)
  BY <1>1, <1>2, LoadedKeeps
<1>4. /\ Ids(L) = 0 .. n - 1 /\ Reread(m, L, old, n)
      /\ NewIds(L) = 0 .. m.nNew - 1 /\ TriedIds(L) = m.nNew .. n - 1
  BY <1>1, <1>2, LoadedEntries
<1>5. /\ n \in Nat /\ m.nNew \in Nat /\ m.nNew <= n
      /\ \A j \in 0 .. n - 1 : old[j] \in Ids(m) /\ (j < m.nNew <=> old[j] \in NewIds(m))
      /\ \A i \in Ids(m) : \E j \in 0 .. n - 1 : old[j] = i
  BY <1>2, AddrManAssumption DEF Renames, AddrManAssumption
<1>6. \A j \in 0 .. n - 1 : L.mapInfo[j].addr = m.mapInfo[old[j]].addr
  BY <1>4 DEF Reread
<1>7. Known(L) = Known(m)
  <2>1. ASSUME NEW a \in Known(L)
        PROVE  a \in Known(m)
    <3>1. PICK j \in 0 .. n - 1 : a = L.mapInfo[j].addr
      BY <1>4 DEF Known, Ids
    <3> QED BY <1>5, <1>6, <3>1 DEF Known, Ids
  <2>2. ASSUME NEW a \in Known(m)
        PROVE  a \in Known(L)
    <3>1. PICK i \in Ids(m) : a = m.mapInfo[i].addr
      BY DEF Known, Ids
    <3>2. PICK j \in 0 .. n - 1 : old[j] = i
      BY <1>5
    <3> QED BY <1>4, <1>6, <3>1, <3>2 DEF Known, Ids
  <2> QED BY <2>1, <2>2
<1>8. ASSUME NEW b \in NewBuckets
      PROVE  AddrsIn(L, L.vvNew[b]) = AddrsIn(m, m.vvNew[b])
  <2>1. L.vvNew[b] = {j \in 0 .. n - 1 : j < m.nNew /\ old[j] \in m.vvNew[b]}
    BY <1>1 DEF LoadedFrom
  <2>2. ASSUME NEW i \in m.vvNew[b]
        PROVE  i \in NewIds(m) /\ i \in Ids(m)
    <3>1. i \in Ids(m) /\ b \in In(m, i) /\ i # Nobody
      BY DEF Consistent, NewFiled, Indexed, IsAddrMan, Ids, In, Nobody
    <3>2. Cardinality(In(m, i)) # 0 /\ Cardinality(In(m, i)) \in Nat
      <4>1. IsFiniteSet(In(m, i)) /\ Cardinality(In(m, i)) \in Nat
        BY Finite DEF Consistent
      <4> QED BY <3>1, <4>1, FS_EmptySet
    <3>3. m.mapInfo[i].nRefCount # 0
      BY <3>1, <3>2 DEF Consistent, NewFiled
    <3>4. i \notin TriedIds(m)
      BY <3>3 DEF Consistent, NewFiled
    <3> QED BY <3>1, <3>4 DEF NewIds, TriedIds, Ids
  <2>3. ASSUME NEW a \in AddrsIn(L, L.vvNew[b])
        PROVE  a \in AddrsIn(m, m.vvNew[b])
    <3>1. PICK j \in L.vvNew[b] : a = L.mapInfo[j].addr
      BY DEF AddrsIn
    <3>2. j \in 0 .. n - 1 /\ old[j] \in m.vvNew[b]
      BY <2>1
    <3> QED BY <1>6, <3>1, <3>2 DEF AddrsIn
  <2>4. ASSUME NEW a \in AddrsIn(m, m.vvNew[b])
        PROVE  a \in AddrsIn(L, L.vvNew[b])
    <3>1. PICK i \in m.vvNew[b] : a = m.mapInfo[i].addr
      BY DEF AddrsIn
    <3>2. PICK j \in 0 .. n - 1 : old[j] = i
      BY <1>5, <2>2
    <3>3. j \in L.vvNew[b]
      BY <1>5, <2>1, <2>2, <3>2
    <3> QED BY <1>6, <3>1, <3>2, <3>3 DEF AddrsIn
  <2> QED BY <2>3, <2>4
<1>9. ASSUME NEW k \in TriedBuckets
      PROVE  AddrsIn(L, TriedIn(L, k)) = AddrsIn(m, TriedIn(m, k))
  <2>1. TriedIn(L, k) = {j \in TriedIds(L) : GetTriedBucket[L.mapInfo[j].addr] = k}
    BY <1>3, TriedBucketSet
  <2>2. TriedIn(m, k) = {i \in TriedIds(m) : GetTriedBucket[m.mapInfo[i].addr] = k}
    BY TriedBucketSet
  <2>3. ASSUME NEW j \in 0 .. n - 1
        PROVE  j \in TriedIds(L) <=> old[j] \in TriedIds(m)
    <3>1. j \in TriedIds(L) <=> ~(j < m.nNew)
      BY <1>4, <1>5
    <3>2. old[j] \in TriedIds(m) <=> old[j] \notin NewIds(m)
      BY <1>5 DEF NewIds, TriedIds, Ids
    <3> QED BY <1>5, <3>1, <3>2
  <2>4. ASSUME NEW a \in AddrsIn(L, TriedIn(L, k))
        PROVE  a \in AddrsIn(m, TriedIn(m, k))
    <3>1. PICK j \in TriedIn(L, k) : a = L.mapInfo[j].addr
      BY DEF AddrsIn
    <3>2. j \in 0 .. n - 1 /\ j \in TriedIds(L) /\ GetTriedBucket[L.mapInfo[j].addr] = k
      BY <1>4, <1>5, <2>1
    <3>3. old[j] \in TriedIn(m, k)
      BY <1>6, <2>2, <2>3, <3>2
    <3> QED BY <1>6, <3>1, <3>2, <3>3 DEF AddrsIn
  <2>5. ASSUME NEW a \in AddrsIn(m, TriedIn(m, k))
        PROVE  a \in AddrsIn(L, TriedIn(L, k))
    <3>1. PICK i \in TriedIn(m, k) : a = m.mapInfo[i].addr
      BY DEF AddrsIn
    <3>2. i \in TriedIds(m) /\ i \in Ids(m) /\ GetTriedBucket[m.mapInfo[i].addr] = k
      BY <2>2, <3>1 DEF TriedIds, Ids
    <3>3. PICK j \in 0 .. n - 1 : old[j] = i
      BY <1>5, <3>2
    <3>4. j \in TriedIn(L, k)
      BY <1>6, <2>1, <2>3, <3>2, <3>3
    <3> QED BY <1>6, <3>1, <3>3, <3>4 DEF AddrsIn
  <2> QED BY <2>4, <2>5
<1> QED BY <1>3, <1>7, <1>8, <1>9 DEF L

-----------------------------------------------------------------------------

\* A new CAddrMan is consistent.
LEMMA EmptyConsistent == Consistent(Empty, Nobody)
<1>1. /\ Ids(Empty) = {} /\ NewIds(Empty) = {} /\ TriedIds(Empty) = {}
  BY DEF Empty, Ids, NewIds, TriedIds
<1>2. Len(<<>>) = 0 /\ <<>> \in Seq(0 .. MaxId - 1)
  OBVIOUS
<1>3. IsAddrMan(Empty)
  <2>1. DOMAIN Empty = Fields /\ 0 \in 0 .. MaxId
    BY AddrManAssumption DEF Empty, Fields, AddrManAssumption
  <2>2. Empty.mapInfo \in [DOMAIN Empty.mapInfo -> Info] /\ DOMAIN Empty.mapInfo = {}
    BY DEF Empty
  <2>3. Empty.mapAddr \in [DOMAIN Empty.mapAddr -> 0 .. MaxId - 1] /\ DOMAIN Empty.mapAddr = {}
    BY DEF Empty
  <2>4. Empty.vvTried \in [TriedBuckets -> Seq(0 .. MaxId - 1)]
    BY <1>2 DEF Empty
  <2>5. Empty.vvNew \in [NewBuckets -> SUBSET (0 .. MaxId - 1)]
    BY DEF Empty
  <2>6. /\ Empty.vRandom = <<>> /\ Empty.nNew = 0 /\ Empty.nTried = 0 /\ Empty.nIdCount = 0
    BY DEF Empty
  <2> QED BY <1>2, <2>1, <2>2, <2>3, <2>4, <2>5, <2>6 DEF IsAddrMan, Fields
<1>4. Indexed(Empty)
  <2>1. Empty.vRandom = <<>> /\ DOMAIN Empty.mapAddr = {}
    BY DEF Empty
  <2> QED BY <1>1, <1>2, <1>3, <2>1 DEF Indexed, AddrsAgree, RandomAgrees
<1>5. NewFiled(Empty, Nobody)
  <2>1. \A b \in NewBuckets : Empty.vvNew[b] = {}
    BY DEF Empty
  <2> QED BY <1>1, <2>1 DEF NewFiled
<1>6. TriedFiled(Empty)
  <2>1. \A k \in TriedBuckets : Empty.vvTried[k] = <<>>
    BY DEF Empty
  <2>2. \A p : p \notin 1 .. Len(<<>>)
    BY <1>2
  <2> QED BY <1>1, <2>1, <2>2 DEF TriedFiled
<1>7. Counted(Empty)
  <2>1. Empty.vRandom = <<>> /\ Empty.nNew = 0 /\ Empty.nTried = 0
    BY DEF Empty
  <2> QED BY <1>1, <1>2, <2>1, FS_EmptySet DEF Counted
<1>8. Bounded(Empty)
  <2>1. /\ \A b \in NewBuckets : Empty.vvNew[b] = {}
        /\ \A k \in TriedBuckets : Empty.vvTried[k] = <<>>
    BY DEF Empty
  <2>2. NewBucketSize \in Nat /\ TriedBucketSize \in Nat
    BY AddrManAssumption DEF AddrManAssumption
  <2>3. Cardinality({}) <= NewBucketSize
    BY <2>2, FS_EmptySet
  <2>4. \A b \in NewBuckets : Cardinality(Empty.vvNew[b]) <= NewBucketSize
    BY <2>1, <2>3
  <2>5. \A k \in TriedBuckets : Len(Empty.vvTried[k]) <= TriedBucketSize
    BY <1>2, <2>1, <2>2
  <2> QED BY <2>4, <2>5 DEF Bounded
<1> QED BY <1>4, <1>5, <1>6, <1>7, <1>8 DEF Consistent

\* An entry that is tried stays known.
LEMMA KeptIsKnown ==
    ASSUME NEW m, NEW n, KeepsTried(m, n)
    PROVE  TriedAddrs(m) \subseteq Known(n)
BY DEF KeepsTried, TriedAddrs, Known, TriedIds

\* Every call keeps the invariant and every tried address.
LEMMA AddrManStep ==
    ASSUME AddrManInv, [AddrManNext]_addrVars
    PROVE  AddrManInv' /\ TriedAddrs(am) \subseteq Known(am')
<1>1. Consistent(am, Nobody) /\ now \in 0 .. MaxTime
  BY DEF AddrManInv
<1>2. ASSUME NEW a \in Addresses, NEW s \in Sources, Add(a, s)
      PROVE  AddrManInv' /\ TriedAddrs(am) \subseteq Known(am')
  <2>1. Consistent(am', Nobody) /\ KeepsTried(am, am')
    BY <1>1, <1>2, AddKeeps
  <2>2. now' = now
    BY <1>2 DEF Add
  <2> QED BY <1>1, <2>1, <2>2, KeptIsKnown DEF AddrManInv
<1>3. ASSUME NEW a \in Addresses, Good(a)
      PROVE  AddrManInv' /\ TriedAddrs(am) \subseteq Known(am')
  <2>1. /\ Consistent(am', Nobody) /\ now' \in 0 .. MaxTime /\ Ids(am') = Ids(am)
        /\ \A i \in Ids(am) : am'.mapInfo[i].addr = am.mapInfo[i].addr
    BY <1>1, <1>3, GoodKeeps
  <2>2. TriedAddrs(am) \subseteq Known(am')
    BY <2>1 DEF TriedAddrs, Known, Ids
  <2> QED BY <2>1, <2>2 DEF AddrManInv
<1>4. CASE GetAddr
  <2>1. Consistent(am', Nobody) /\ KeepsTried(am, am')
    BY <1>1, <1>4, GetAddrKeeps
  <2>2. now' = now
    BY <1>4 DEF GetAddr
  <2> QED BY <1>1, <2>1, <2>2, KeptIsKnown DEF AddrManInv
<1>5. CASE Restart
  <2>1. am' = Loaded(am) /\ now' = now
    BY <1>5 DEF Restart
  <2>2. Consistent(Loaded(am), Nobody) /\ Known(Loaded(am)) = Known(am)
    BY <1>1, LoadedIsFaithful
  <2>3. TriedAddrs(am) \subseteq Known(am)
    BY DEF TriedAddrs, Known
  <2> QED BY <1>1, <2>1, <2>2, <2>3 DEF AddrManInv
<1>6. CASE UNCHANGED addrVars
  <2>1. am' = am /\ now' = now
    BY <1>6 DEF addrVars
  <2>2. TriedAddrs(am) \subseteq Known(am)
    BY DEF TriedAddrs, Known
  <2> QED BY <1>1, <2>1, <2>2 DEF AddrManInv
<1> QED BY <1>2, <1>3, <1>4, <1>5, <1>6 DEF AddrManNext

\* The table, its index and the buckets agree, whatever order Add_, Good_,
\* GetAddr_ and the starts come in.
THEOREM AddrManInvHolds == AddrManSpec => []AddrManInv
<1>1. AddrManInit => AddrManInv
  <2> SUFFICES ASSUME AddrManInit
               PROVE  AddrManInv
    OBVIOUS
  <2>1. am = Empty /\ now = 0
    BY DEF AddrManInit
  <2>2. 0 \in 0 .. MaxTime
    BY AddrManAssumption DEF AddrManAssumption
  <2> QED BY <2>1, <2>2, EmptyConsistent DEF AddrManInv
<1>2. AddrManInv /\ [AddrManNext]_addrVars => AddrManInv'
  BY AddrManStep
<1> QED BY <1>1, <1>2, PTL DEF AddrManSpec

\* mapInfo, mapAddr, vRandom and the buckets of CAddrMan hold ids and entries
\* of their types.
THEOREM AddrManTypeCorrect == AddrManSpec => []AddrManTypeOK
<1>1. AddrManInv => AddrManTypeOK
  BY DEF AddrManInv, Consistent, Indexed, AddrManTypeOK
<1> QED BY <1>1, AddrManInvHolds, PTL

\* Check_ of addrman.cpp never finds the tables disagreeing: it returns 0 after
\* every call.
THEOREM CheckAlwaysPasses == AddrManSpec => []CheckPasses
<1>1. AddrManInv => CheckPasses
  <2> SUFFICES ASSUME AddrManInv
               PROVE  CheckPasses
    OBVIOUS
  <2>1. /\ Indexed(am) /\ NewFiled(am, Nobody) /\ TriedFiled(am) /\ Counted(am)
        /\ IsAddrMan(am) /\ AddrsAgree(am) /\ RandomAgrees(am)
    BY DEF AddrManInv, Consistent, Indexed
  <2>2. \A k \in TriedBuckets :
           TriedIn(am, k) = {i \in TriedIds(am) : GetTriedBucket[am.mapInfo[i].addr] = k}
    BY TriedBucketSet DEF AddrManInv
  <2>3. AllTried(am) = TriedIds(am)
    <3>1. AllTried(am) \subseteq TriedIds(am)
      BY <2>2 DEF AllTried
    <3>2. ASSUME NEW i \in TriedIds(am)
          PROVE  i \in AllTried(am)
      <4>1. am.mapInfo[i].addr \in Addresses
        BY <2>1 DEF IsAddrMan, Info, TriedIds
      <4>2. GetTriedBucket[am.mapInfo[i].addr] \in TriedBuckets
        BY <4>1, AddrManAssumption DEF AddrManAssumption
      <4> QED BY <2>2, <4>2 DEF AllTried
    <3> QED BY <3>1, <3>2
  <2>4. Len(am.vRandom) = am.nTried + am.nNew
    BY <2>1 DEF Counted, IsAddrMan
  <2>5. ASSUME NEW i \in DOMAIN am.mapInfo
        PROVE  /\ IF am.mapInfo[i].fInTried
                  THEN am.mapInfo[i].nLastSuccess # 0 /\ am.mapInfo[i].nRefCount = 0
                  ELSE am.mapInfo[i].nRefCount \in 1 .. BucketsPerAddress
               /\ am.mapInfo[i].addr \in DOMAIN am.mapAddr
               /\ am.mapAddr[am.mapInfo[i].addr] = i
               /\ am.mapInfo[i].nRandomPos \in 1 .. Len(am.vRandom)
               /\ am.vRandom[am.mapInfo[i].nRandomPos] = i
               /\ Cardinality({b \in NewBuckets : i \in am.vvNew[b]}) = am.mapInfo[i].nRefCount
               /\ am.mapInfo[i].fInTried <=> i \in AllTried(am)
    <3>1. i \in Ids(am) /\ i # Nobody
      BY <2>1 DEF IsAddrMan, Ids, Nobody
    <3>2. /\ am.mapInfo[i].fInTried <=> i \in TriedIds(am)
          /\ ~am.mapInfo[i].fInTried <=> i \in NewIds(am)
      BY <3>1 DEF TriedIds, NewIds, Ids
    <3>3. IF am.mapInfo[i].fInTried
          THEN am.mapInfo[i].nLastSuccess # 0 /\ am.mapInfo[i].nRefCount = 0
          ELSE am.mapInfo[i].nRefCount \in 1 .. BucketsPerAddress
      BY <2>1, <3>2 DEF NewFiled
    <3>4. /\ am.mapInfo[i].addr \in DOMAIN am.mapAddr /\ am.mapAddr[am.mapInfo[i].addr] = i
          /\ am.mapInfo[i].nRandomPos \in 1 .. Len(am.vRandom)
          /\ am.vRandom[am.mapInfo[i].nRandomPos] = i
      BY <2>1, <3>1 DEF AddrsAgree, RandomAgrees
    <3>5. Cardinality(In(am, i)) = am.mapInfo[i].nRefCount
      <4>1. Cardinality(In(am, i)) \in Nat
        BY <2>1, Finite
      <4> QED BY <2>1, <3>1, <4>1 DEF NewFiled
    <3> QED BY <2>3, <3>2, <3>3, <3>4, <3>5 DEF In
  <2>6. /\ Cardinality({i \in DOMAIN am.mapInfo : am.mapInfo[i].fInTried}) = am.nTried
        /\ Cardinality({i \in DOMAIN am.mapInfo : ~am.mapInfo[i].fInTried}) = am.nNew
    BY <2>1 DEF Counted, NewIds, TriedIds, Ids
  <2>7. (UNION {am.vvNew[b] : b \in NewBuckets}) \cup AllTried(am) \subseteq DOMAIN am.mapInfo
    <3>1. TriedIds(am) \subseteq DOMAIN am.mapInfo
      BY DEF TriedIds
    <3>2. \A b \in NewBuckets : am.vvNew[b] \subseteq DOMAIN am.mapInfo
      BY <2>1 DEF NewFiled, Ids
    <3> QED BY <2>3, <3>1, <3>2
  <2> QED BY <2>4, <2>5, <2>6, <2>7 DEF CheckPasses
<1> QED BY <1>1, AddrManInvHolds, PTL

\* Add_ and MakeTried make room before they fill a bucket, and the bucket that
\* MakeTried sends an entry back to has room.
THEOREM BucketsAlwaysBounded == AddrManSpec => []BucketsBounded
<1>1. AddrManInv => BucketsBounded
  BY DEF AddrManInv, Consistent, Bounded, BucketsBounded
<1> QED BY <1>1, AddrManInvHolds, PTL

\* What CAddrDB::Read makes of peers.dat is what DumpAddresses wrote: no
\* address is lost or changes its buckets, whenever the dump is taken.
THEOREM DumpAlwaysFaithful == AddrManSpec => []DumpIsFaithful
<1>1. AddrManInv => DumpIsFaithful
  BY LoadedIsFaithful DEF AddrManInv, DumpIsFaithful
<1> QED BY <1>1, AddrManInvHolds, PTL

\* No call loses an address of the tried table: MakeTried only sends one back
\* to the new table, and ShrinkNew deletes none that is tried.
THEOREM TriedAreNeverDeleted == AddrManSpec => TriedNeverDeleted
<1>1. AddrManInv /\ [AddrManNext]_addrVars => [TriedAddrs(am) \subseteq Known(am')]_addrVars
  BY AddrManStep
<1> QED BY <1>1, AddrManInvHolds, PTL DEF AddrManSpec, TriedNeverDeleted
=============================================================================
