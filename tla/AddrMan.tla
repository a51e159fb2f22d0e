------------------------------ MODULE AddrMan ------------------------------
(***************************************************************************)
(* The address manager (addrman.cpp, addrman.h): new and tried buckets     *)
(* over one table of entries, and its file peers.dat.  Each call runs      *)
(* under CAddrMan::cs.                                                     *)
(*                                                                         *)
(* Times are left out but for nLastSuccess.  So an entry that ShrinkNew    *)
(* deletes, terrible or the oldest of four, may be any of the bucket, and  *)
(* Add_ may leave a known address as it is.  Attempt_ and Connected_ only  *)
(* set times, and Select_ changes nothing.                                 *)
(***************************************************************************)
EXTENDS Integers, Sequences, FiniteSets

CONSTANTS
    Addresses,       \* CNetAddr
    Sources,         \* the groups of the nodes that tell of them
    NewBuckets, TriedBuckets,
    GetNewBucket,    \* [Addresses -> [Sources -> NewBuckets]]
    GetTriedBucket,  \* [Addresses -> TriedBuckets]
    NewBucketSize, TriedBucketSize,  \* ADDRMAN_*_BUCKET_SIZE
    BucketsPerAddress,               \* ADDRMAN_NEW_BUCKETS_PER_ADDRESS
    InspectOnEvict,  \* ADDRMAN_TRIED_ENTRIES_INSPECT_ON_EVICT
    GetAddrPct,      \* ADDRMAN_GETADDR_MAX_PCT
    GetAddrMax,      \* ADDRMAN_GETADDR_MAX
    MaxId, MaxTime   \* bounds on nIdCount and on the clock

ASSUME AddrManAssumption ==
    /\ GetNewBucket \in [Addresses -> [Sources -> NewBuckets]]
    /\ GetTriedBucket \in [Addresses -> TriedBuckets]
    /\ IsFiniteSet(NewBuckets)
    /\ {NewBucketSize, TriedBucketSize, BucketsPerAddress, InspectOnEvict} \subseteq Nat \ {0}
    /\ GetAddrPct \in 0 .. 100
    /\ {GetAddrMax, MaxId, MaxTime} \subseteq Nat

VARIABLES
    am,  \* the CAddrMan
    now  \* GetAdjustedTime, one tick per call of Good

addrVars == <<am, now>>

Info ==
    [addr : Addresses, source : Sources, nLastSuccess : 0 .. MaxTime, nRefCount : Nat,
     fInTried : BOOLEAN, nRandomPos : Nat]

IsAddrMan(m) ==
    /\ DOMAIN m = {"mapInfo", "mapAddr", "vRandom", "vvNew", "vvTried", "nNew", "nTried",
                   "nIdCount"}
    /\ m.nIdCount \in 0 .. MaxId
    /\ DOMAIN m.mapInfo \subseteq 0 .. MaxId - 1
    /\ m.mapInfo \in [DOMAIN m.mapInfo -> Info]
    /\ DOMAIN m.mapAddr \subseteq Addresses
    /\ m.mapAddr \in [DOMAIN m.mapAddr -> 0 .. MaxId - 1]
    /\ m.vRandom \in Seq(0 .. MaxId - 1)
    /\ m.vvNew \in [NewBuckets -> SUBSET (0 .. MaxId - 1)]
    /\ m.vvTried \in [TriedBuckets -> Seq(0 .. MaxId - 1)]
    /\ m.nNew \in Nat /\ m.nTried \in Nat

\* The type of the address manager.
AddrManTypeOK == IsAddrMan(am) /\ now \in 0 .. MaxTime

Empty ==
    [mapInfo |-> [i \in {} |-> 0], mapAddr |-> [a \in {} |-> 0], vRandom |-> <<>>,
     vvNew |-> [b \in NewBuckets |-> {}], vvTried |-> [b \in TriedBuckets |-> <<>>],
     nNew |-> 0, nTried |-> 0, nIdCount |-> 0]

AddrManInit == am = Empty /\ now = 0

-----------------------------------------------------------------------------

Without(f, x) == [y \in DOMAIN f \ {x} |-> f[y]]

\* CAddrMan::Create; positions in vRandom count from 1.
Create(m, a, s) ==
    LET id == m.nIdCount IN
    [m EXCEPT
        !.nIdCount = id + 1,
        !.mapInfo  = [i \in DOMAIN @ \cup {id} |->
                         IF i = id
                         THEN [addr |-> a, source |-> s, nLastSuccess |-> 0, nRefCount |-> 0,
                               fInTried |-> FALSE, nRandomPos |-> Len(m.vRandom) + 1]
                         ELSE @[i]],
        !.mapAddr  = [x \in DOMAIN @ \cup {a} |-> IF x = a THEN id ELSE @[x]],
        !.vRandom  = Append(@, id),
        !.nNew     = @ + 1]

\* Mutant: nRandomPos is not kept up to date.
SwapVectorOnly(m, p, q) ==
    [m EXCEPT !.vRandom[p] = m.vRandom[q], !.vRandom[q] = m.vRandom[p]]

SwapRandom(m, p, q) ==
    IF p = q THEN m
    ELSE [m EXCEPT
             !.mapInfo[m.vRandom[p]].nRandomPos = q,
             !.mapInfo[m.vRandom[q]].nRandomPos = p,
             !.vRandom[p] = m.vRandom[q],
             !.vRandom[q] = m.vRandom[p]]

\* The entry leaves vRandom, mapAddr and mapInfo.
Delete(m, id) ==
    LET swapped == SwapRandom(m, m.mapInfo[id].nRandomPos, Len(m.vRandom)) IN
    [swapped EXCEPT
        !.vRandom = SubSeq(@, 1, Len(@) - 1),
        !.mapAddr = Without(@, m.mapInfo[id].addr),
        !.mapInfo = Without(@, id),
        !.nNew    = @ - 1]

\* ShrinkNew, with id the entry it picks.
ShrinkNew(m, b, id) ==
    LET less == [m EXCEPT !.mapInfo[id].nRefCount = @ - 1] IN
    [(IF less.mapInfo[id].nRefCount = 0 THEN Delete(less, id) ELSE less)
        EXCEPT !.vvNew[b] = @ \ {id}]

\* Add_, once it has come to put entry id into bucket b, evicting old.
Insert(m, id, b, old) ==
    IF id \in m.vvNew[b] THEN m
    ELSE LET more == [m EXCEPT !.mapInfo[id].nRefCount = @ + 1]
             room == IF Cardinality(m.vvNew[b]) = NewBucketSize
                     THEN ShrinkNew(more, b, old) ELSE more
         IN [room EXCEPT !.vvNew[b] = @ \cup {id}]

Evictable(m, b) == IF m.vvNew[b] = {} THEN {0} ELSE m.vvNew[b]

\* Add_: a new address, or one that is new to another bucket.
Add(a, s) ==
    /\ LET known == a \in DOMAIN am.mapAddr
           m     == IF known THEN am ELSE Create(am, a, s)
           id    == m.mapAddr[a]
           b     == GetNewBucket[a][s]
       IN /\ known => /\ ~am.mapInfo[id].fInTried
                      /\ am.mapInfo[id].nRefCount # BucketsPerAddress
          /\ known \/ am.nIdCount < MaxId
          /\ \E old \in Evictable(m, b) : am' = Insert(m, id, b, old)
    /\ UNCHANGED now

-----------------------------------------------------------------------------

InspectCount(v) == IF Len(v) < InspectOnEvict THEN Len(v) ELSE InspectOnEvict

\* Turn i of the loop of SelectTried, which takes position p of the bucket.
InspectTurn(m, last, i, p) ==
    LET temp == last.v[p]
        w    == [last.v EXCEPT ![p] = last.v[i], ![i] = temp]
    IN IF \/ last.nOldest = -1
          \/ m.mapInfo[temp].nLastSuccess < m.mapInfo[last.nOldest].nLastSuccess
       THEN [v |-> w, nOldest |-> temp, nPos |-> p]
       ELSE [last EXCEPT !.v = w]

\* SelectTried, with r[i] the position of turn i: the shuffled bucket, the
\* least recent entry inspected and the position it was at.
SelectTried(m, v, r) ==
    LET turn[i \in 0 .. InspectCount(v)] ==
            IF i = 0 THEN [v |-> v, nOldest |-> -1, nPos |-> 0]
            ELSE InspectTurn(m, turn[i - 1], i, r[i])
    IN turn[InspectCount(v)]

\* The random positions of a shuffle of the first n of k elements.
Shuffles(n, k) == {r \in [1 .. n -> 1 .. k] : \A i \in 1 .. n : r[i] >= i}

\* MakeTried: the entry leaves its new buckets and enters its tried bucket; an
\* entry that makes place goes back to its new bucket, or to nOrigin when that
\* one is full.
LeaveNew(m, id) ==
    [m EXCEPT !.vvNew = [b \in NewBuckets |-> @[b] \ {id}],
              !.mapInfo[id].nRefCount = @ - Cardinality({b \in NewBuckets : id \in m.vvNew[b]}),
              !.mapInfo[id].fInTried = TRUE,
              !.nNew = @ - 1]

\* Mutant: the entry goes back to its new bucket, full or not.
BackBucketUnchecked(m, old, nOrigin) ==
    GetNewBucket[m.mapInfo[old].addr][m.mapInfo[old].source]

BackBucket(m, old, nOrigin) ==
    LET b == GetNewBucket[m.mapInfo[old].addr][m.mapInfo[old].source]
    IN IF Cardinality(m.vvNew[b]) < NewBucketSize THEN b ELSE nOrigin

\* Mutant: the entry that makes place is deleted.
EvictDeletes(m, id, k, nOrigin, picked) ==
    LET old == picked.v[picked.nPos] IN
    [Delete(m, old) EXCEPT !.vvTried[k] = [picked.v EXCEPT ![picked.nPos] = id],
                           !.nNew = @ + 1]

Evict(m, id, k, nOrigin, picked) ==
    LET old == picked.v[picked.nPos] IN
    [m EXCEPT !.mapInfo[old].fInTried = FALSE,
              !.mapInfo[old].nRefCount = 1,
              !.vvNew[BackBucket(m, old, nOrigin)] = @ \cup {old},
              !.nNew = @ + 1,
              !.vvTried[k] = [picked.v EXCEPT ![picked.nPos] = id]]

\* Good_.
Good(a) ==
    /\ now < MaxTime /\ now' = now + 1
    /\ a \in DOMAIN am.mapAddr
    /\ LET id == am.mapAddr[a]
           m  == [am EXCEPT !.mapInfo[id].nLastSuccess = now']
           k  == GetTriedBucket[a]
           v  == m.vvTried[k]
       IN IF m.mapInfo[id].fInTried THEN am' = m
          ELSE \E nOrigin \in {b \in NewBuckets : id \in m.vvNew[b]} :
                  IF Len(v) < TriedBucketSize
                  THEN am' = [LeaveNew(m, id) EXCEPT !.vvTried[k] = Append(@, id),
                                                     !.nTried = @ + 1]
                  ELSE \E r \in Shuffles(InspectCount(v), Len(v)) :
                          am' = Evict(LeaveNew(m, id), id, k, nOrigin, SelectTried(m, v, r))

-----------------------------------------------------------------------------

\* The first n entries of vRandom shuffled.
Shuffled(m, r, n) ==
    LET turn[i \in 0 .. n] == IF i = 0 THEN m ELSE SwapRandom(turn[i - 1], i, r[i])
    IN turn[n]

\* GetAddr_ shuffles the first few of vRandom.
GetAddr ==
    /\ LET nPct == (GetAddrPct * Len(am.vRandom)) \div 100
           n    == IF nPct > GetAddrMax THEN GetAddrMax ELSE nPct
       IN
       \E r \in Shuffles(n, Len(am.vRandom)) : am' = Shuffled(am, r, n)
    /\ UNCHANGED now

\* The place of i among the ids of S, in the order of mapInfo.
Rank(i, S) == Cardinality({j \in S : j < i})

FreshIds(m) == {i \in DOMAIN m.mapInfo : m.mapInfo[i].nRefCount # 0}
TriedIds(m) == {i \in DOMAIN m.mapInfo : m.mapInfo[i].fInTried}

\* The id that a read of peers.dat gives an entry: entries with a reference
\* count are written first, then the tried ones.
Renumbered(m) ==
    [i \in FreshIds(m) \cup TriedIds(m) |->
        IF i \in FreshIds(m) THEN Rank(i, FreshIds(m)) ELSE m.nNew + Rank(i, TriedIds(m))]

\* Mutant: the buckets are always made anew, as after a change of their number.
StoredInOwn(m, i, b) == b = GetNewBucket[m.mapInfo[i].addr][m.mapInfo[i].source]

\* The file says that entry i is in new bucket b.
StoredIn(m, i, b) == i \in m.vvNew[b]

\* A read of peers.dat into a new CAddrMan.  nRefCount, fInTried, mapAddr,
\* vRandom and the order of a tried bucket are made anew.
Loaded(m) ==
    LET n   == m.nNew + m.nTried
        id  == Renumbered(m)
        old == [j \in 0 .. n - 1 |-> CHOOSE i \in DOMAIN id : id[i] = j]
        inNew(j, b) == j < m.nNew /\ StoredIn(m, old[j], b)
        inTried(k) ==
            {j \in m.nNew .. n - 1 : GetTriedBucket[m.mapInfo[old[j]].addr] = k}
    IN [mapInfo  |-> [j \in 0 .. n - 1 |->
                        [m.mapInfo[old[j]] EXCEPT
                            !.nRefCount  = Cardinality({b \in NewBuckets : inNew(j, b)}),
                            !.fInTried   = j >= m.nNew,
                            !.nRandomPos = j + 1]],
        mapAddr  |-> [a \in {m.mapInfo[old[j]].addr : j \in 0 .. n - 1} |->
                        CHOOSE j \in 0 .. n - 1 : m.mapInfo[old[j]].addr = a],
        vRandom  |-> [p \in 1 .. n |-> p - 1],
        vvNew    |-> [b \in NewBuckets |-> {j \in 0 .. n - 1 : inNew(j, b)}],
        vvTried  |-> [k \in TriedBuckets |->
                        [p \in 1 .. Cardinality(inTried(k)) |->
                            CHOOSE j \in inTried(k) : Rank(j, inTried(k)) = p - 1]],
        nNew     |-> m.nNew,
        nTried   |-> m.nTried,
        nIdCount |-> n]

\* DumpAddresses, and a start that reads peers.dat.  A start after a crash
\* reads an earlier dump, which is this step taken at the time of the dump.
Restart == am' = Loaded(am) /\ UNCHANGED now

AddrManNext ==
    \/ \E a \in Addresses, s \in Sources : Add(a, s)
    \/ \E a \in Addresses : Good(a)
    \/ GetAddr \/ Restart

AddrManSpec == AddrManInit /\ [][AddrManNext]_addrVars

-----------------------------------------------------------------------------

\* The ids of a tried bucket, and of all.
TriedIn(m, k) == {m.vvTried[k][p] : p \in 1 .. Len(m.vvTried[k])}
AllTried(m) == UNION {TriedIn(m, k) : k \in TriedBuckets}

\* Check_ returns 0: the reference counts, the flags, the two counters, the
\* address map, the positions in vRandom and the buckets all say the same of
\* every entry.  (The code has this check, behind DEBUG_ADDRMAN.)
CheckPasses ==
    LET ids == DOMAIN am.mapInfo IN
    /\ Len(am.vRandom) = am.nTried + am.nNew
    /\ \A i \in ids :
          LET info == am.mapInfo[i] IN
          /\ IF info.fInTried
             THEN info.nLastSuccess # 0 /\ info.nRefCount = 0
             ELSE info.nRefCount \in 1 .. BucketsPerAddress
          /\ info.addr \in DOMAIN am.mapAddr /\ am.mapAddr[info.addr] = i
          /\ info.nRandomPos \in 1 .. Len(am.vRandom)
          /\ am.vRandom[info.nRandomPos] = i
          /\ Cardinality({b \in NewBuckets : i \in am.vvNew[b]}) = info.nRefCount
          /\ info.fInTried <=> i \in AllTried(am)
    /\ Cardinality({i \in ids : am.mapInfo[i].fInTried}) = am.nTried
    /\ Cardinality({i \in ids : ~am.mapInfo[i].fInTried}) = am.nNew
    /\ (UNION {am.vvNew[b] : b \in NewBuckets}) \cup AllTried(am) \subseteq ids

\* No bucket grows past its size: the place that MakeTried finds "certainly"
\* in the bucket an entry came from is there.
BucketsBounded ==
    /\ \A b \in NewBuckets : Cardinality(am.vvNew[b]) <= NewBucketSize
    /\ \A k \in TriedBuckets : Len(am.vvTried[k]) <= TriedBucketSize

Known(m) == {m.mapInfo[i].addr : i \in DOMAIN m.mapInfo}
TriedAddrs(m) == {m.mapInfo[i].addr : i \in {j \in DOMAIN m.mapInfo : m.mapInfo[j].fInTried}}

\* "They are never deleted while in the tried table, only possibly evicted back
\* to the new table" (ShrinkNew): no call loses a tried address.
TriedNeverDeleted == [][TriedAddrs(am) \subseteq Known(am')]_addrVars

AddrsIn(m, S) == {m.mapInfo[i].addr : i \in S}

\* What is read from peers.dat is what was dumped: the same addresses, tried or
\* not, in the same buckets, although ids are given anew and mapAddr, vRandom
\* and the tried buckets are not in the file.
DumpIsFaithful ==
    LET m == Loaded(am) IN
    /\ Known(m) = Known(am)
    /\ \A b \in NewBuckets : AddrsIn(m, m.vvNew[b]) = AddrsIn(am, am.vvNew[b])
    /\ \A k \in TriedBuckets : AddrsIn(m, TriedIn(m, k)) = AddrsIn(am, TriedIn(am, k))
=============================================================================
