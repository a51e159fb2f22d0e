---------------------------- MODULE Connections ----------------------------
(***************************************************************************)
(* The life of a CNode (net.cpp, net.h): opened by one of the threads that *)
(* open connections or accepted by the socket handler, in vNodes while it  *)
(* is connected, then in vNodesDisconnected until it is deleted.  The      *)
(* socket handler and the message handler work on copies of vNodes and     *)
(* hold a reference to each node in them; an outbound node holds one of    *)
(* the slots of semOutbound.                                               *)
(*                                                                         *)
(* A step is what runs under cs_vNodes, or up to the next access to state  *)
(* that another thread uses without it: nRefCount++ in ConnectNode for a   *)
(* node found in vNodes, and fHaveGrant of grantOutbound, are read in one  *)
(* step and written in a later one.  Bans, the groups that                 *)
(* ThreadOpenConnections avoids and a shutdown are left out; so are the    *)
(* connections that have no grant (-connect, addnode onetry).              *)
(***************************************************************************)
EXTENDS Integers, FiniteSets

CONSTANTS
    CNodes,       \* objects that can be made: a bound
    Addrs,
    Openers,      \* ThreadOpenConnections, ThreadOpenAddedConnections
    MaxOutbound,  \* initial value of semOutbound
    MaxInbound,   \* -maxconnections less MAX_OUTBOUND_CONNECTIONS
    None

ASSUME ConnectionsAssumption ==
    /\ IsFiniteSet(CNodes) /\ IsFiniteSet(Openers)
    /\ MaxOutbound \in Nat /\ MaxInbound \in Nat
    /\ None \notin CNodes \cup Addrs

VARIABLES
    node,         \* the CNode objects
    semOutbound,
    opener,       \* where each opening thread is
    socketHandler, messageHandler,  \* vNodesCopy, and where the thread is
    found,        \* history: nodes that a second thread opened,
    overtaken,    \* those disconnected before their opener was done with them,
    clashed       \* and those whose grant two threads were in at once

history == <<found, overtaken, clashed>>
vars == <<node, semOutbound, opener, socketHandler, messageHandler, history>>

CNode ==
    [where : {"unused", "vNodes", "removed", "vNodesDisconnected", "deleted"},
     addr : Addrs \cup {None}, fInbound : BOOLEAN, fNetworkNode : BOOLEAN,
     fDisconnect : BOOLEAN, nRefCount : Int,
     grantOutbound : BOOLEAN,  \* fHaveGrant
     released : BOOLEAN]  \* nReleaseTime, 15 minutes after, is past

OpenerState ==
    [pc : {"idle", "checked", "found", "connected", "releasing", "released", "moved"},
     addr : Addrs \cup {None}, pnode : CNodes \cup {None}, seen : Int]

SocketState ==
    [pc : {"disconnect", "releasing", "released", "next", "accept", "service"},
     copy : SUBSET CNodes, pnode : CNodes \cup {None}]

Idle == [pc |-> "idle", addr |-> None, pnode |-> None, seen |-> 0]

\* The types.
ConnectionsTypeOK ==
    /\ node \in [CNodes -> CNode]
    /\ semOutbound \in Nat
    /\ opener \in [Openers -> OpenerState]
    /\ socketHandler \in SocketState
    /\ messageHandler \in [pc : {"copy", "process"}, copy : SUBSET CNodes]
    /\ found \subseteq CNodes /\ overtaken \subseteq CNodes /\ clashed \subseteq CNodes

\* No object, before it is made or after it is deleted.
NoNode(where) ==
    [where |-> where, addr |-> None, fInbound |-> FALSE, fNetworkNode |-> FALSE,
     fDisconnect |-> FALSE, nRefCount |-> 0, grantOutbound |-> FALSE, released |-> FALSE]

Init ==
    /\ node = [c \in CNodes |-> NoNode("unused")]
    /\ semOutbound = MaxOutbound
    /\ opener = [o \in Openers |-> Idle]
    /\ socketHandler = [pc |-> "disconnect", copy |-> {}, pnode |-> None]
    /\ messageHandler = [pc |-> "copy", copy |-> {}]
    /\ found = {} /\ overtaken = {} /\ clashed = {}

vNodes == {c \in CNodes : node[c].where = "vNodes"}
vNodesDisconnected == {c \in CNodes : node[c].where = "vNodesDisconnected"}
FindNode(a) == {c \in vNodes : node[c].addr = a}

\* The socket handler disconnects nodes under cs_vNodes.
csVNodesFree == socketHandler.pc \notin {"releasing", "released", "next"}

\* The opening threads between the test of fHaveGrant in MoveTo and its last
\* write to the grant of c.
Moving(c) ==
    {o \in Openers : opener[o].pnode = c /\ opener[o].pc \in {"releasing", "released"}}

\* new CNode, AddRef and vNodes.push_back.
NewNode(c, a, fInbound) ==
    /\ node[c].where = "unused" /\ c = CHOOSE x \in CNodes : node[x].where = "unused"
    /\ node' = [node EXCEPT ![c] = [@ EXCEPT
           !.where = "vNodes", !.addr = a, !.fInbound = fInbound, !.nRefCount = 1]]

\* An opening thread writes n to its node.  If the node was deleted under it,
\* nothing that is read later depends on what it writes.
Writes(o, n) ==
    LET c == opener[o].pnode IN
    node' = IF node[c].where = "deleted" THEN node ELSE [node EXCEPT ![c] = n]

AddRefs(S) == [c \in CNodes |-> IF c \in S THEN [node[c] EXCEPT !.nRefCount = @ + 1] ELSE node[c]]
Releases(S) == [c \in CNodes |-> IF c \in S THEN [node[c] EXCEPT !.nRefCount = @ - 1] ELSE node[c]]

-----------------------------------------------------------------------------

\* CSemaphoreGrant grant(*semOutbound), and OpenNetworkConnection up to
\* ConnectNode.  A thread that has nothing to connect to gives the slot back
\* at once.
OpenNetworkConnection(o, a) ==
    /\ opener[o].pc = "idle" /\ semOutbound > 0
    /\ csVNodesFree /\ FindNode(a) = {}
    /\ semOutbound' = semOutbound - 1
    /\ opener' = [opener EXCEPT ![o] = [@ EXCEPT !.pc = "checked", !.addr = a]]
    /\ UNCHANGED <<node, socketHandler, messageHandler, history>>

\* ConnectNode finds the address connected in the meantime, and reads the
\* count that AddRef is about to write.
ConnectFinds(o, c) ==
    /\ opener[o].pc = "checked"
    /\ csVNodesFree /\ c \in FindNode(opener[o].addr)
    /\ opener' = [opener EXCEPT ![o] = [@ EXCEPT
           !.pc = "found", !.pnode = c, !.seen = node[c].nRefCount]]
    /\ found' = found \cup {c}
    /\ UNCHANGED <<node, semOutbound, socketHandler, messageHandler, overtaken, clashed>>

ConnectAddsRef(o) ==
    /\ opener[o].pc = "found"
    /\ Writes(o, [node[opener[o].pnode] EXCEPT !.nRefCount = opener[o].seen + 1])
    /\ opener' = [opener EXCEPT ![o] = [@ EXCEPT !.pc = "connected", !.seen = 0]]
    /\ UNCHANGED <<semOutbound, socketHandler, messageHandler, history>>

\* ConnectNode connects, to a node that was not there when it looked.
ConnectNode(o, c) ==
    /\ opener[o].pc = "checked"
    /\ csVNodesFree /\ NewNode(c, opener[o].addr, FALSE)
    /\ opener' = [opener EXCEPT ![o] = [@ EXCEPT !.pc = "connected", !.pnode = c]]
    /\ UNCHANGED <<semOutbound, socketHandler, messageHandler, history>>

\* No connection: the grant goes out of scope.
ConnectFails(o) ==
    /\ opener[o].pc = "checked"
    /\ semOutbound' = semOutbound + 1
    /\ opener' = [opener EXCEPT ![o] = Idle]
    /\ UNCHANGED <<node, socketHandler, messageHandler, history>>

\* fHaveGrant as a thread reads it that holds no lock: a node that was deleted
\* under it has anything there.
HaveGrant(c) == IF node[c].where = "deleted" THEN BOOLEAN ELSE {node[c].grantOutbound}

\* Mutant: MoveTo does not release what is in the grant it moves to.
NextInMoveToOverwrites(have) == "released"

\* Whether MoveTo has to release the grant it moves to.
NextInMoveTo(have) == IF have THEN "releasing" ELSE "released"

\* grantOutbound->MoveTo(pnode->grantOutbound) holds no lock.  Its Release looks
\* at fHaveGrant,
MoveToTests(o) ==
    /\ opener[o].pc = "connected"
    /\ LET c == opener[o].pnode IN
       /\ \E have \in HaveGrant(c) : opener' = [opener EXCEPT ![o].pc = NextInMoveTo(have)]
       /\ clashed' = clashed \cup
             (IF \/ Moving(c) # {} \/ node[c].where = "deleted"
                 \/ socketHandler.pc = "releasing" /\ socketHandler.pnode = c
              THEN {c} ELSE {})
    /\ UNCHANGED <<node, semOutbound, socketHandler, messageHandler, found, overtaken>>

\* posts and clears fHaveGrant,
MoveToReleases(o) ==
    /\ opener[o].pc = "releasing"
    /\ semOutbound' = semOutbound + 1
    /\ Writes(o, [node[opener[o].pnode] EXCEPT !.grantOutbound = FALSE])
    /\ opener' = [opener EXCEPT ![o].pc = "released"]
    /\ UNCHANGED <<socketHandler, messageHandler, history>>

\* and MoveTo sets it.
MoveToGrants(o) ==
    /\ opener[o].pc = "released"
    /\ Writes(o, [node[opener[o].pnode] EXCEPT !.grantOutbound = TRUE])
    /\ opener' = [opener EXCEPT ![o].pc = "moved"]
    /\ UNCHANGED <<semOutbound, socketHandler, messageHandler, history>>

\* pnode->fNetworkNode = true.
SetNetworkNode(o) ==
    /\ opener[o].pc = "moved"
    /\ Writes(o, [node[opener[o].pnode] EXCEPT !.fNetworkNode = TRUE])
    /\ opener' = [opener EXCEPT ![o] = Idle]
    /\ UNCHANGED <<semOutbound, socketHandler, messageHandler, history>>

-----------------------------------------------------------------------------

\* "Disconnect unused nodes", one node after the other.  A node that nobody
\* refers to is disconnected as well if it has nothing to send or to process.
\* It is removed from vNodes, and Release looks at fHaveGrant,
DisconnectNode(c) ==
    /\ socketHandler.pc \in {"disconnect", "next"}
    /\ c \in vNodes /\ (node[c].fDisconnect \/ node[c].nRefCount <= 0)
    /\ node' = [node EXCEPT ![c].where = "removed"]
    /\ socketHandler' = [socketHandler EXCEPT
           !.pc = IF node[c].grantOutbound THEN "releasing" ELSE "released", !.pnode = c]
    /\ clashed' = clashed \cup
           (IF node[c].grantOutbound /\ Moving(c) # {} THEN {c} ELSE {})
    /\ UNCHANGED <<semOutbound, opener, messageHandler, found, overtaken>>

\* posts and clears it.
DisconnectReleases ==
    /\ socketHandler.pc = "releasing"
    /\ semOutbound' = semOutbound + 1
    /\ node' = [node EXCEPT ![socketHandler.pnode].grantOutbound = FALSE]
    /\ socketHandler' = [socketHandler EXCEPT !.pc = "released"]
    /\ UNCHANGED <<opener, messageHandler, history>>

\* Mutant: the reference that vNodes held is not released.
DisconnectedKeepsRef(n) ==
    [n EXCEPT !.where = "vNodesDisconnected", !.fDisconnect = TRUE]

\* What becomes of the node then.
Disconnected(n) ==
    [n EXCEPT !.where = "vNodesDisconnected", !.fDisconnect = TRUE,
              !.nRefCount = @ - (IF n.fNetworkNode \/ n.fInbound THEN 1 ELSE 0)]

DisconnectEnds ==
    /\ socketHandler.pc = "released"
    /\ LET c == socketHandler.pnode IN
       /\ node' = [node EXCEPT ![c] = Disconnected(@)]
       /\ overtaken' = overtaken \cup
              (IF node[c].fInbound \/ node[c].fNetworkNode THEN {} ELSE {c})
    /\ socketHandler' = [socketHandler EXCEPT !.pc = "next", !.pnode = None]
    /\ UNCHANGED <<semOutbound, opener, messageHandler, found, clashed>>

\* Mutant: the references of the handlers are not waited for.
DoneWithAnyway(n) == n.where = "vNodesDisconnected" /\ n.released

\* "wait until threads are done using it"; then nobody holds its locks.
DoneWith(n) ==
    /\ n.where = "vNodesDisconnected"
    /\ n.nRefCount <= 0 /\ n.released

\* "Delete disconnected nodes", when no node is left that is to be
\* disconnected.  The destructor releases the grant of a node.
DeleteNodes ==
    /\ socketHandler.pc \in {"disconnect", "next"}
    /\ \A c \in vNodes : ~node[c].fDisconnect
    /\ LET done == {c \in CNodes : DoneWith(node[c])} IN
       /\ node' = [c \in CNodes |-> IF c \in done THEN NoNode("deleted") ELSE node[c]]
       /\ semOutbound' = semOutbound + Cardinality({c \in done : node[c].grantOutbound})
       /\ clashed' = clashed \cup {c \in done : Moving(c) # {}}
    /\ socketHandler' = [socketHandler EXCEPT !.pc = "accept"]
    /\ UNCHANGED <<opener, messageHandler, found, overtaken>>

\* "Accept new connections"; there may be none, or one on each listening socket.
AcceptConnection(c, a) ==
    /\ socketHandler.pc = "accept"
    /\ Cardinality({i \in vNodes : node[i].fInbound}) < MaxInbound
    /\ NewNode(c, a, TRUE)
    /\ UNCHANGED <<semOutbound, opener, socketHandler, messageHandler, history>>

SocketsCopied ==
    /\ socketHandler.pc = "accept"
    /\ socketHandler' = [socketHandler EXCEPT !.pc = "service", !.copy = vNodes]
    /\ node' = AddRefs(vNodes)
    /\ UNCHANGED <<semOutbound, opener, messageHandler, history>>

\* A socket is closed by the peer, fails or is idle for too long.
SocketCloses(c) ==
    /\ socketHandler.pc = "service" /\ c \in socketHandler.copy
    /\ node' = [node EXCEPT ![c].fDisconnect = TRUE]
    /\ UNCHANGED <<semOutbound, opener, socketHandler, messageHandler, history>>

SocketsReleased ==
    /\ socketHandler.pc = "service"
    /\ node' = Releases(socketHandler.copy)
    /\ socketHandler' = [socketHandler EXCEPT !.pc = "disconnect", !.copy = {}]
    /\ UNCHANGED <<semOutbound, opener, messageHandler, history>>

\* ThreadMessageHandler.
MessagesCopied ==
    /\ messageHandler.pc = "copy" /\ csVNodesFree
    /\ messageHandler' = [pc |-> "process", copy |-> vNodes]
    /\ node' = AddRefs(vNodes)
    /\ UNCHANGED <<semOutbound, opener, socketHandler, history>>

\* ProcessMessage or SendMessages ends the connection (Misbehaving, a version
\* that is too old, a one-shot that is done).
MessageDisconnects(c) ==
    /\ messageHandler.pc = "process" /\ c \in messageHandler.copy
    /\ node' = [node EXCEPT ![c].fDisconnect = TRUE]
    /\ UNCHANGED <<semOutbound, opener, socketHandler, messageHandler, history>>

MessagesReleased ==
    /\ messageHandler.pc = "process" /\ csVNodesFree
    /\ node' = Releases(messageHandler.copy)
    /\ messageHandler' = [pc |-> "copy", copy |-> {}]
    /\ UNCHANGED <<semOutbound, opener, socketHandler, history>>

\* 15 minutes go by.
ReleaseTimePasses(c) ==
    /\ c \in vNodesDisconnected /\ ~node[c].released
    /\ node' = [node EXCEPT ![c].released = TRUE]
    /\ UNCHANGED <<semOutbound, opener, socketHandler, messageHandler, history>>

OpenerStep(o) ==
    \/ ConnectAddsRef(o) \/ ConnectFails(o)
    \/ MoveToTests(o) \/ MoveToReleases(o) \/ MoveToGrants(o) \/ SetNetworkNode(o)
    \/ \E a \in Addrs : OpenNetworkConnection(o, a)
    \/ \E c \in CNodes : ConnectFinds(o, c) \/ ConnectNode(o, c)

SocketStep ==
    \/ \E c \in CNodes : DisconnectNode(c)
    \/ DisconnectReleases \/ DisconnectEnds \/ DeleteNodes
    \/ SocketsCopied \/ SocketsReleased
MessageStep == MessagesCopied \/ MessagesReleased

Next ==
    \/ \E o \in Openers : OpenerStep(o)
    \/ SocketStep \/ MessageStep
    \/ \E c \in CNodes, a \in Addrs : AcceptConnection(c, a)
    \/ \E c \in CNodes : SocketCloses(c) \/ MessageDisconnects(c) \/ ReleaseTimePasses(c)

\* The loops of both handlers go on, and time passes.
Fairness ==
    /\ WF_vars(SocketStep) /\ WF_vars(MessageStep)
    /\ \A c \in CNodes : WF_vars(ReleaseTimePasses(c))

Spec == Init /\ [][Next]_vars /\ Fairness

-----------------------------------------------------------------------------

\* No node is deleted while the socket handler or the message handler has it
\* in its copy of vNodes, or an opening thread has a pointer to it, however
\* long they take (nRefCount, net.cpp:711).  A node that two threads opened
\* is left to the 15 minutes.
NotDeletedInUse ==
    \A c \in CNodes : node[c].where = "deleted" /\ c \notin found =>
        /\ c \notin socketHandler.copy \cup messageHandler.copy
        /\ \A o \in Openers : opener[o].pnode # c

\* The slots of semOutbound are all accounted for, free, in the hands of an
\* opening thread or of a node, also when one grant is moved over another and
\* when a node goes away in the middle of it, until two threads are in one
\* grant at once (net.cpp:1575 runs without a lock, against itself and against
\* net.cpp:692).  That can only happen to a node that a second thread found.
SlotsConserved ==
    /\ clashed \subseteq found
    /\ clashed = {} =>
          semOutbound + Cardinality({o \in Openers : opener[o].pc \notin {"idle", "moved"}})
              + Cardinality({c \in CNodes : node[c].grantOutbound}) = MaxOutbound

\* A disconnected node is deleted, sooner or later, unless a second thread
\* found it or its opener was overtaken (net.cpp:698).
DisconnectedIsDeleted ==
    \A c \in CNodes :
        c \in vNodesDisconnected ~> node[c].where = "deleted" \/ c \in found \cup overtaken

\* "release outbound grant (if any)": a disconnected node has no slot.
DisconnectedHasNoSlot == \A c \in vNodesDisconnected : ~node[c].grantOutbound
=============================================================================
