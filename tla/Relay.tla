------------------------------- MODULE Relay -------------------------------
(***************************************************************************)
(* How a transaction reaches every node: announced (inv), asked for        *)
(* (getdata), sent (tx) and announced again, by nodes that all run         *)
(* ProcessMessage and SendMessages (main.cpp) over CNode (net.h).          *)
(*                                                                         *)
(* One clock drives the nodes.  A request time is kept relative to now,    *)
(* and no lower than -Gap, where it no longer delays anything; an absent   *)
(* entry of mapAlreadyAskedFor, zero in the code, is -Gap.  A connection   *)
(* delivers in order, and is lost at both ends with all that is in it.     *)
(* setInventoryKnown, which forgets after 10000 entries, and the memory    *)
(* pool, which loses what a block takes, keep everything here.             *)
(***************************************************************************)
EXTENDS Integers, Sequences, FiniteSets

CONSTANTS
    Nodes, Txs,
    Needs,     \* the transactions whose outputs a transaction spends
    Maker,     \* [Txs -> Nodes]: the node whose wallet makes it
    NotTrickled, \* [Nodes -> SUBSET Txs]: not trickled, by hashSalt
    Syncing,   \* the nodes for which IsInitialBlockDownload holds
    FirstLinks,
    Gap,       \* two minutes
    MaxDrops   \* bound on lost connections

ASSUME RelayAssumption ==
    /\ IsFiniteSet(Txs)
    /\ Needs \in [Txs -> SUBSET Txs] /\ Maker \in [Txs -> Nodes]
    /\ NotTrickled \in [Nodes -> SUBSET Txs] /\ Syncing \subseteq Nodes
    /\ Gap \in Nat \ {0} /\ MaxDrops \in Nat
    /\ \A l \in FirstLinks : \E n, p \in Nodes : n # p /\ l = {n, p}

VARIABLES
    pool, orphans,  \* per node: mempool, mapOrphanTransactions
    asked,          \* per node and transaction: mapAlreadyAskedFor
    known,          \* per node and peer: setInventoryKnown,
    toSend,         \*   vInventoryToSend
    askFor,         \*   and mapAskFor, as pairs <<time, tx>>
    chan,           \* chan[n][p]: the messages from n to p
    link,           \* the connections there are
    drops

relayVars == <<pool, orphans, asked, known, toSend, askFor, chan, link, drops>>
cnodes == <<known, toSend, askFor, chan>>

Message ==
    [type : {"inv", "getdata"}, txs : SUBSET Txs] \cup [type : {"tx"}, tx : Txs]

Peers(n) == {p \in Nodes : {n, p} \in link}
AlreadyHave(n) == pool[n] \cup orphans[n]
Larger(a, b) == IF a >= b THEN a ELSE b

(***************************************************************************)
(* What CNode offers.  f is one of the maps from node and peer.            *)
(***************************************************************************)
At(f, n, p, v) == [f EXCEPT ![n][p] = v]

\* Mutant: the set has room for one insertion.
AddInventoryKnownLast(n, p, S) == At(known, n, p, S)

AddInventoryKnown(n, p, S) == At(known, n, p, known[n][p] \cup S)

\* RelayMessage: the transactions S, on the list of every peer not known to
\* have them; kn is setInventoryKnown.
RelayMessage(n, S, kn) ==
    [toSend EXCEPT ![n] =
        [p \in Nodes |-> IF p \in Peers(n) THEN @[p] \cup (S \ kn[n][p]) ELSE @[p]]]

\* The time that AskFor gives a request and stores in mapAlreadyAskedFor.
RequestTime(n, t) == IF n \in Syncing THEN 0 ELSE Larger(asked[n][t] + Gap, 0)

\* Mutant: a transaction that was asked for already is left to that request.
AskForOnce(n, p, S) ==
    LET new == {t \in S : asked[n][t] = -Gap}
    IN  /\ asked' = [asked EXCEPT ![n] = [t \in Txs |-> IF t \in S THEN RequestTime(n, t) ELSE @[t]]]
        /\ askFor' = At(askFor, n, p, askFor[n][p] \cup {<<RequestTime(n, t), t>> : t \in new})

AskFor(n, p, S) ==
    /\ asked' = [asked EXCEPT ![n] = [t \in Txs |-> IF t \in S THEN RequestTime(n, t) ELSE @[t]]]
    /\ askFor' = At(askFor, n, p, askFor[n][p] \cup {<<RequestTime(n, t), t>> : t \in S})

(***************************************************************************)
(* CommitTransaction and sendrawtransaction relay a new transaction;       *)
(* ResendWalletTransactions relays again what no block has.                *)
(***************************************************************************)
RelayWalletTransaction(n, t) ==
    /\ Maker[t] = n /\ Needs[t] \subseteq pool[n]
    /\ pool' = [pool EXCEPT ![n] = @ \cup {t}]
    /\ toSend' = RelayMessage(n, {t}, known)
    /\ UNCHANGED <<orphans, asked, known, askFor, chan, link, drops>>

(***************************************************************************)
(* SendMessages: the announcements, but for those that wait for the node   *)
(* to be picked for trickling, then the requests that are due.             *)
(***************************************************************************)
\* Mutant: our own transactions wait even when the peer is picked.
TrickleWaitOwn(n, fSendTrickle) ==
    {t \in Txs : (~fSendTrickle /\ t \notin NotTrickled[n]) \/ Maker[t] = n}

TrickleWait(n, fSendTrickle) ==
    {t \in Txs : ~fSendTrickle /\ (t \notin NotTrickled[n] \/ Maker[t] = n)}

Due(n, p) == {e \in askFor[n][p] : e[1] <= 0}

InvMessage(S) == IF S = {} THEN <<>> ELSE <<[type |-> "inv", txs |-> S]>>
GetDataMessage(S) == IF S = {} THEN <<>> ELSE <<[type |-> "getdata", txs |-> S]>>

SendMessages(n, p, fSendTrickle) ==
    LET unknown == toSend[n][p] \ known[n][p]
        wait == unknown \cap TrickleWait(n, fSendTrickle)
        inv == unknown \ wait
        get == {e[2] : e \in Due(n, p)} \ AlreadyHave(n)
    IN  /\ p \in Peers(n)
        /\ known' = AddInventoryKnown(n, p, inv)
        /\ toSend' = At(toSend, n, p, wait)
        /\ asked' = [asked EXCEPT ![n] = [t \in Txs |-> IF t \in get THEN 0 ELSE @[t]]]
        /\ askFor' = At(askFor, n, p, askFor[n][p] \ Due(n, p))
        /\ chan' = At(chan, n, p, chan[n][p] \o InvMessage(inv) \o GetDataMessage(get))
        /\ UNCHANGED <<pool, orphans, link, drops>>

(***************************************************************************)
(* ProcessMessage, for the next message from p.                            *)
(***************************************************************************)
NextIs(p, n, type) == chan[p][n] # <<>> /\ Head(chan[p][n]).type = type
Consumed(p, n) == At(chan, p, n, Tail(chan[p][n]))

ProcessInv(n, p) ==
    /\ NextIs(p, n, "inv")
    /\ LET inv == Head(chan[p][n]).txs
       IN  /\ known' = AddInventoryKnown(n, p, inv)
           /\ AskFor(n, p, inv \ AlreadyHave(n))
    /\ chan' = Consumed(p, n)
    /\ UNCHANGED <<pool, orphans, toSend, link, drops>>

\* One tx message for each transaction asked for that is there to send.
ProcessGetData(n, p) ==
    /\ NextIs(p, n, "getdata")
    /\ \E order \in [1 .. Cardinality(Head(chan[p][n]).txs \cap pool[n])
                        -> Head(chan[p][n]).txs \cap pool[n]] :
          /\ \A i, j \in DOMAIN order : i < j => order[i] # order[j]
          /\ chan' = At(Consumed(p, n), n, p,
                chan[n][p] \o [i \in DOMAIN order |-> [type |-> "tx", tx |-> order[i]]])
    /\ UNCHANGED <<pool, orphans, asked, known, toSend, askFor, link, drops>>

\* The orphans that a larger pool connects, and those these connect in turn.
Released(n, P) ==
    UNION {S \in SUBSET orphans[n] : \A t \in S : Needs[t] \subseteq P \cup S}

ProcessTx(n, p) ==
    /\ NextIs(p, n, "tx")
    /\ LET t == Head(chan[p][n]).tx
           accepted == IF t \in pool[n] \/ ~(Needs[t] \subseteq pool[n]) THEN {}
                       ELSE {t} \cup Released(n, pool[n] \cup {t})
       IN  /\ known' = AddInventoryKnown(n, p, {t})
           /\ pool' = [pool EXCEPT ![n] = @ \cup accepted]
           /\ toSend' = RelayMessage(n, accepted, AddInventoryKnown(n, p, {t}))
           /\ asked' = [asked EXCEPT ![n] =
                [x \in Txs |-> IF x \in accepted THEN -Gap ELSE @[x]]]
           /\ orphans' = [orphans EXCEPT ![n] =
                (@ \cup (IF t \in pool[n] THEN {} ELSE {t})) \ accepted]
    /\ chan' = Consumed(p, n)
    /\ UNCHANGED <<askFor, link, drops>>

ProcessMessages(n, p) == ProcessInv(n, p) \/ ProcessGetData(n, p) \/ ProcessTx(n, p)

Tick ==
    /\ asked' = [n \in Nodes |-> [t \in Txs |-> Larger(asked[n][t] - 1, -Gap)]]
    /\ askFor' = [n \in Nodes |-> [p \in Nodes |->
                    {<<Larger(e[1] - 1, 0), e[2]>> : e \in askFor[n][p]}]]
    /\ UNCHANGED <<pool, orphans, known, toSend, chan, link, drops>>

(***************************************************************************)
(* A connection is lost, with the CNode at either end, or made again.      *)
(***************************************************************************)
Disconnect(n, p) ==
    /\ {n, p} \in link /\ drops < MaxDrops
    /\ link' = link \ {{n, p}}
    /\ drops' = drops + 1
    /\ known' = At(At(known, n, p, {}), p, n, {})
    /\ toSend' = At(At(toSend, n, p, {}), p, n, {})
    /\ askFor' = At(At(askFor, n, p, {}), p, n, {})
    /\ chan' = At(At(chan, n, p, <<>>), p, n, <<>>)
    /\ UNCHANGED <<pool, orphans, asked>>

Reconnect(n, p) ==
    /\ n # p /\ {n, p} \notin link
    /\ link' = link \cup {{n, p}}
    /\ UNCHANGED <<pool, orphans, asked, cnodes, drops>>

RelayInit ==
    /\ pool = [n \in Nodes |-> {}] /\ orphans = [n \in Nodes |-> {}]
    /\ asked = [n \in Nodes |-> [t \in Txs |-> -Gap]]
    /\ known = [n \in Nodes |-> [p \in Nodes |-> {}]]
    /\ toSend = known /\ askFor = known
    /\ chan = [n \in Nodes |-> [p \in Nodes |-> <<>>]]
    /\ link = FirstLinks
    /\ drops = 0

RelayNext ==
    \/ \E n \in Nodes, t \in Txs : RelayWalletTransaction(n, t)
    \/ \E n, p \in Nodes :
          \/ \E fSendTrickle \in BOOLEAN : SendMessages(n, p, fSendTrickle)
          \/ ProcessMessages(n, p)
          \/ Disconnect(n, p)
          \/ Reconnect(n, p)
    \/ Tick

(***************************************************************************)
(* ThreadMessageHandler visits every peer again and again, and picks the   *)
(* one to trickle to at random; time passes.                               *)
(***************************************************************************)
RelayFairness ==
    /\ WF_relayVars(Tick)
    /\ \A n, p \in Nodes :
          WF_relayVars(SendMessages(n, p, TRUE)) /\ WF_relayVars(ProcessMessages(n, p))

RelaySpec == RelayInit /\ [][RelayNext]_relayVars /\ RelayFairness

-----------------------------------------------------------------------------
RelayTypeOK ==
    /\ pool \in [Nodes -> SUBSET Txs] /\ orphans \in [Nodes -> SUBSET Txs]
    /\ asked \in [Nodes -> [Txs -> Int]]
    /\ known \in [Nodes -> [Nodes -> SUBSET Txs]]
    /\ toSend \in [Nodes -> [Nodes -> SUBSET Txs]]
    /\ askFor \in [Nodes -> [Nodes -> SUBSET (Int \X Txs)]]
    /\ chan \in [Nodes -> [Nodes -> Seq(Message)]]
    /\ link \in SUBSET SUBSET Nodes /\ drops \in 0 .. MaxDrops

\* How often t is in a message of this type from n to p.
Carried(n, p, type, t) ==
    Cardinality({i \in DOMAIN chan[n][p] :
        /\ chan[n][p][i].type = type
        /\ t \in (IF type = "tx" THEN {chan[n][p][i].tx} ELSE chan[n][p][i].txs)})

(***************************************************************************)
(* An announcement is answered at most once: over one connection, in one   *)
(* direction, a transaction is in one inv, or one entry of mapAskFor, or   *)
(* one getdata, or one tx message, and the sender knows that it told.  So  *)
(* no transaction crosses a connection twice (SendMessages main.cpp:4036   *)
(* and AskFor net.h:318), however often the wallet relays it again.        *)
(***************************************************************************)
AnsweredOnce ==
    \A n, p \in Nodes, t \in Txs :
        LET stages == Carried(n, p, "inv", t)
                      + Cardinality({e \in askFor[p][n] : e[2] = t})
                      + Carried(p, n, "getdata", t) + Carried(n, p, "tx", t)
        IN  stages <= 1 /\ (stages = 1 => t \in known[n][p])

(***************************************************************************)
(* A transaction that a node has put on the list of a peer gets there, by  *)
(* this connection or by another, unless this connection is lost: requests *)
(* that other peers' announcements delay, or that are lost with another    *)
(* peer, are made again (AskFor, net.h:318).  As connections are lost      *)
(* finitely often, this says: from some time on, all that a node was told  *)
(* over a connection there is, it has.                                     *)
(***************************************************************************)
Delivered ==
    <>[](\A n, p \in Nodes, t \in Txs :
            {n, p} \in link /\ t \in pool[n] \cap (toSend[n][p] \cup known[n][p])
                => t \in AlreadyHave(p))

(***************************************************************************)
(* Relaying ends: the nodes do not pass the same transactions round for    *)
(* ever, and what is queued leaves the queues (SendMessages,               *)
(* main.cpp:4026).                                                         *)
(***************************************************************************)
DiesOut ==
    <>[](\A n, p \in Nodes : toSend[n][p] = {} /\ askFor[n][p] = {} /\ chan[n][p] = <<>>)

=============================================================================
