------------------------ MODULE BlockDownloadProofs ------------------------
(***************************************************************************)
(* The requests for blocks and the counters over the peers agree, whatever *)
(* the peers do, for every block tree, any number of peers and all limits. *)
(***************************************************************************)
EXTENDS BlockDownloadLemmas

----------------------------------------------------------------------------
(* What the two ways to look for blocks find *)

LEMMA DirectFetchFacts ==
    ASSUME NEW C \in SUBSET Peer, NEW D, NEW n, Good(n, C, D), NEW p \in C, NEW last \in Block
    PROVE  /\ DirectFetchBlocks(n, p, last) \in SUBSET Block
           /\ \A b \in DirectFetchBlocks(n, p, last) : b \notin haveData /\ ~InFlight(n, b)
           /\ Room(n.state[p], DirectFetchBlocks(n, p, last))
<1> DEFINE missing == {b \in Chain[last] \ Chain[tip] : b \notin haveData /\ ~InFlight(n, b)}
           k == MaxBlocksInTransitPerPeer - n.state[p].nBlocksInFlight
<1>1. /\ n.state[p].nBlocksInFlight \in Nat /\ MaxBlocksInTransitPerPeer \in Nat
      /\ n.state[p].nBlocksInFlight =< MaxBlocksInTransitPerPeer
  <2>1. Recorded(n.state[p], p, n.mapBlocksInFlight) /\ Bounded(n.state[p])
    BY DEF Good
  <2>2. Cardinality(n.state[p].vBlocksInFlight) \in Nat
    BY RequestFacts
  <2>3. QED
    BY ONLY <2>1, <2>2, LimitAssumption DEF Recorded, Bounded
<1>2. missing \in SUBSET Chain[last] /\ Chain[last] \in SUBSET Block
  BY ChainFacts
<1>3. DirectFetchBlocks(n, p, last) \in {{}, Lowest(missing, k)}
  BY DEF DirectFetchBlocks
<1>4. k \in Nat
  BY <1>1
<1>5. \A b \in missing : b \notin haveData /\ ~InFlight(n, b)
  OBVIOUS
<1>6. k = MaxBlocksInTransitPerPeer - n.state[p].nBlocksInFlight
  OBVIOUS
<1> HIDE DEF missing, k
<1>7. Lowest(missing, k) \in SUBSET missing /\ Cardinality(Lowest(missing, k)) =< k
  BY <1>2, <1>4, LowestFacts, Zenon
<1>8. Lowest(missing, k) \in SUBSET Block
  BY <1>2, <1>7
<1>9. IsFiniteSet(Lowest(missing, k)) /\ Cardinality(Lowest(missing, k)) \in Nat
  BY <1>8, TreeAssumption, FS_Subset, FS_CardinalityType
<1>10. CASE DirectFetchBlocks(n, p, last) = {}
  <2>1. n.state[p].nBlocksInFlight + Cardinality({}) =< MaxBlocksInTransitPerPeer
    BY ONLY <1>1, FS_EmptySet
  <2>2. QED
    BY <1>10, <2>1 DEF Room
<1>11. CASE DirectFetchBlocks(n, p, last) = Lowest(missing, k)
  <2> DEFINE F == Lowest(missing, k)
  <2>1. /\ F \in SUBSET missing /\ F \in SUBSET Block
        /\ Cardinality(F) =< k /\ Cardinality(F) \in Nat
    BY <1>7, <1>8, <1>9
  <2> HIDE DEF F
  <2>2. n.state[p].nBlocksInFlight + Cardinality(F) =< MaxBlocksInTransitPerPeer
    BY ONLY <1>1, <1>6, <2>1
  <2>3. QED
    BY <1>5, <1>11, <2>1, <2>2 DEF F, Room
<1>12. QED
  BY <1>3, <1>10, <1>11, Zenon

(* The peers that keep the window from moving go on the stalling clock. *)
Stall(n, Q) ==
    [n EXCEPT !.state = [q \in Peer |-> IF q \in Q THEN [@[q] EXCEPT !.nStallingSince = TRUE]
                                        ELSE @[q]]]

(* The peers of Q owe a block. *)
Owing(n, Q) == Q \in SUBSET Peer /\ \A q \in Q : n.state[q].vBlocksInFlight # {}

LEMMA StallingGood ==
    ASSUME NEW C \in SUBSET Peer, NEW D, NEW n, Good(n, C, D), NEW Q, Owing(n, Q)
    PROVE  Good(Stall(n, Q), C, D) /\ Stall(n, Q).mapBlocksInFlight = n.mapBlocksInFlight
<1> USE DEF Owing
<1> DEFINE m == Stall(n, Q)
           t(q) == IF q \in Q THEN [n.state[q] EXCEPT !.nStallingSince = TRUE] ELSE n.state[q]
           f == [q \in Peer |-> t(q)]
<1>1. n \in Net /\ \A q \in Peer : n.state[q] \in NodeState
  BY DEF Good, Net
<1>2. ASSUME NEW q \in Peer
      PROVE  /\ t(q) \in NodeState
             /\ t(q).vBlocksInFlight = n.state[q].vBlocksInFlight
             /\ t(q).nBlocksInFlight = n.state[q].nBlocksInFlight
             /\ t(q).nBlocksInFlightValidHeaders = n.state[q].nBlocksInFlightValidHeaders
             /\ t(q).pindexLastCommonBlock = n.state[q].pindexLastCommonBlock
             /\ t(q).fSyncStarted = n.state[q].fSyncStarted
             /\ t(q).fPreferredDownload = n.state[q].fPreferredDownload
             /\ t(q).m_protect = n.state[q].m_protect
             /\ t(q).m_timeout = n.state[q].m_timeout
             /\ t(q).m_work_header = n.state[q].m_work_header
             /\ t(q).nStallingSince => q \in Q \/ n.state[q].nStallingSince
  <2> DEFINE s == n.state[q]
  <2>1. s \in NodeState
    BY <1>1
  <2> HIDE DEF s
  <2>2. (t(q) = [s EXCEPT !.nStallingSince = TRUE] /\ q \in Q) \/ t(q) = s
    BY DEF s
  <2> HIDE DEF t
  <2>3. QED
    BY <2>1, <2>2, Zenon DEF NodeState, s
<1> HIDE DEF t
<1>3. f \in [Peer -> NodeState] /\ \A q \in Peer : f[q] = t(q)
  BY <1>2
<1>4. m = [n EXCEPT !.state = f]
  BY DEF f, t, Stall
<1> HIDE DEF f, m, Owing
<1>5. /\ m \in Net /\ m.state = f
      /\ m.mapBlocksInFlight = n.mapBlocksInFlight
      /\ m.nSyncStarted = n.nSyncStarted
      /\ m.nPreferredDownload = n.nPreferredDownload
      /\ m.nPeersWithValidatedDownloads = n.nPeersWithValidatedDownloads
      /\ m.nProtected = n.nProtected
  BY ONLY <1>1, <1>3, <1>4 DEF Net
<1>6. \A q \in Peer : m.state[q] = t(q)
  BY <1>3, <1>5
<1>7. /\ Syncing(m) = Syncing(n) /\ Preferred(m) = Preferred(n)
      /\ Downloading(m) = Downloading(n) /\ Protected(m) = Protected(n)
  <2>1. ASSUME NEW q \in Peer
        PROVE  /\ m.state[q].fSyncStarted = n.state[q].fSyncStarted
               /\ m.state[q].fPreferredDownload = n.state[q].fPreferredDownload
               /\ m.state[q].vBlocksInFlight = n.state[q].vBlocksInFlight
               /\ m.state[q].m_protect = n.state[q].m_protect
    BY <1>2, <1>6
  <2>2. QED
    BY ONLY <2>1, Zenon DEF Syncing, Preferred, Downloading, Protected
<1>8. Counted(m)
  BY <1>5, <1>7 DEF Counted, Good
<1>9. ASSUME NEW q \in Peer
      PROVE  /\ Recorded(m.state[q], q, m.mapBlocksInFlight)
             /\ Bounded(m.state[q])
             /\ StartsLinked(m.state[q], D)
             /\ q \notin C => m.state[q] = NewNodeState
  <2>1. /\ Recorded(n.state[q], q, n.mapBlocksInFlight) /\ Bounded(n.state[q])
        /\ StartsLinked(n.state[q], D)
        /\ q \notin C => n.state[q] = NewNodeState
    BY DEF Good
  <2>2. /\ Recorded(t(q), q, n.mapBlocksInFlight) /\ StartsLinked(t(q), D)
    BY <1>2, <2>1, Zenon DEF Recorded, StartsLinked
  <2>3. Bounded(t(q))
    BY <1>2, <2>1, Zenon DEF Bounded, Owing
  <2>4. q \notin C => t(q) = NewNodeState
    <3>1. q \notin C => q \notin Q
      BY <2>1, NewNodeFacts DEF Owing
    <3>2. QED
      BY <2>1, <3>1 DEF t
  <2>5. QED
    BY <1>5, <1>6, <2>2, <2>3, <2>4
<1>10. QED
  BY <1>5, <1>8, <1>9 DEF Good, m

(* The window starts at a block whose chain is on disk. *)
LEMMA LastCommonFacts ==
    ASSUME NEW s \in NodeState, s.pindexBestKnownBlock \in Block, StartsLinked(s, haveData),
           tip \in Block, Linked(tip)
    PROVE  LastCommonBlock(s) \in Block /\ Linked(LastCommonBlock(s))
<1> DEFINE best == s.pindexBestKnownBlock
           k == IF Height(best) < Height(tip) THEN Height(best) ELSE Height(tip)
           guess == CHOOSE b \in Chain[tip] : Height(b) = k
           base == IF s.pindexLastCommonBlock = NoBlock THEN guess ELSE s.pindexLastCommonBlock
<1>1. Height(best) \in Nat /\ Height(tip) \in Nat
  BY ChainFacts
<1>2. k \in Nat /\ k =< Height(tip)
  BY <1>1
<1>3. guess \in Chain[tip]
  <2> HIDE DEF k
  <2> QED
    BY <1>2, AncestorFacts
<1>4. base \in Block /\ Linked(base)
  <2> HIDE DEF guess
  <2>1. CASE s.pindexLastCommonBlock = NoBlock
    BY <1>3, <2>1, TreeAssumption, ChainFacts DEF Linked
  <2>2. CASE s.pindexLastCommonBlock # NoBlock
    BY <2>2 DEF StartsLinked, Linked, NodeState
  <2>3. QED
    BY <2>1, <2>2
<1>5. LastCommonBlock(s) = Fork(base, best)
  BY DEF LastCommonBlock
<1> HIDE DEF base, guess, k
<1>6. Fork(base, best) \in Chain[base]
  BY <1>4, ForkFacts
<1>7. QED
  <2>1. Fork(base, best) \in Block /\ Chain[Fork(base, best)] \subseteq Chain[base]
    BY <1>4, <1>6, TreeAssumption, ChainFacts
  <2>2. QED
    BY ONLY <1>4, <1>5, <2>1 DEF Linked

LEMMA FindNextFacts ==
    ASSUME NEW n \in Net, NEW p \in Peer, NEW s \in NodeState, NEW count \in Nat,
           s.pindexBestKnownBlock \in Block, StartsLinked(s, haveData),
           tip \in Block, Linked(tip),
           NEW found, found = FindNextBlocksToDownload(n, p, s, count)
    PROVE  /\ found.common \in Block /\ Linked(found.common)
           /\ found.toFetch \in SUBSET Block
           /\ \A b \in found.toFetch : b \notin haveData /\ ~InFlight(n, b)
           /\ Cardinality(found.toFetch) =< count
           /\ \A q \in found.staller : q \in Peer \ {p} /\ \E b \in Block : n.mapBlocksInFlight[b] = q
<1> DEFINE common == LastCommonBlock(s)
           nWindowEnd == Height(common) + BlockDownloadWindow
           best == s.pindexBestKnownBlock
           walk == {b \in Chain[best] \ Chain[common] : Height(b) =< nWindowEnd + 1}
           missing == {b \in walk : b \notin haveData /\ ~InFlight(n, b)}
           inside == {b \in missing : Height(b) =< nWindowEnd}
           toFetch == Lowest(inside, count)
           visited == {b \in walk : Cardinality({c \in toFetch : Height(c) < Height(b)}) < count}
           candidates == {common} \cup {b \in visited : Linked(b)}
           pending == {c \in walk : c \notin haveData /\ InFlight(n, c)}
           waitingfor == {n.mapBlocksInFlight[b] : b \in Lowest(pending, 1)}
<1>1. common \in Block /\ Linked(common)
  BY LastCommonFacts
<1>2. Chain[best] \in SUBSET Block /\ best \in Block
  BY ChainFacts
<1>3. /\ found.common = Highest(candidates) /\ found.toFetch = toFetch
      /\ found.staller \in SUBSET (waitingfor \ {p})
  BY Zenon DEF FindNextBlocksToDownload
<1> HIDE DEF common, nWindowEnd, best
<1>4. /\ walk \in SUBSET Block /\ inside \in SUBSET Chain[best] /\ pending \in SUBSET Block
      /\ \A b \in inside : b \notin haveData /\ ~InFlight(n, b)
      /\ \A b \in pending : InFlight(n, b)
  BY <1>2
<1> HIDE DEF walk, missing, inside, pending
<1>5. toFetch \in SUBSET inside /\ Cardinality(toFetch) =< count
  BY <1>2, <1>4, LowestFacts, Zenon
<1> HIDE DEF toFetch
<1>6. candidates \in SUBSET Block /\ candidates # {} /\ \A b \in candidates : Linked(b)
  BY <1>1, <1>4
<1> HIDE DEF visited, candidates
<1>7. Highest(candidates) \in candidates
  BY <1>6, HighestFacts
<1>8. ASSUME NEW q \in waitingfor PROVE q \in Peer /\ \E b \in Block : n.mapBlocksInFlight[b] = q
  <2>1. PICK b \in Lowest(pending, 1) : q = n.mapBlocksInFlight[b]
    BY <1>8
  <2>2. b \in pending
    BY <2>1 DEF Lowest
  <2>3. b \in Block /\ InFlight(n, b)
    BY <2>2, <1>4
  <2>4. n.mapBlocksInFlight[b] \in Peer \cup {NoPeer}
    BY <2>3 DEF Net
  <2>5. QED
    BY <2>1, <2>3, <2>4 DEF InFlight
<1> HIDE DEF waitingfor
<1>9. QED
  BY <1>2, <1>3, <1>4, <1>5, <1>6, <1>7, <1>8

LEMMA RequestBlocksGood ==
    ASSUME NEW C \in SUBSET Peer, NEW n, Good(n, C, haveData), NEW p \in C,
           index \in SUBSET Block, tip \in Block, Linked(tip)
    PROVE  /\ Good(RequestBlocks(n, p), C, haveData)
           /\ \A b \in Block : RequestBlocks(n, p).mapBlocksInFlight[b] # n.mapBlocksInFlight[b]
                                  => b \notin haveData /\ ~InFlight(n, b)
<1> DEFINE s == ProcessBlockAvailability(n.state[p], index)
           n1 == [n EXCEPT !.state[p] = s]
           count == MaxBlocksInTransitPerPeer - s.nBlocksInFlight
           found == FindNextBlocksToDownload(n, p, s, count)
           common == found.common
           t == [s EXCEPT !.pindexLastCommonBlock = common]
           nc == [n EXCEPT !.state[p] = t]
           F == found.toFetch
           n2 == MarkBlocksAsInFlight(nc, p, F)
           Q == {q \in found.staller : n2.state[p].nBlocksInFlight = 0}
           m == Stall(n2, Q)
<1>1. n \in Net /\ n.state[p] \in NodeState /\ p \in Peer
  BY RequestFacts
<1>2. s \in NodeState /\ Alike(n.state[p], s) /\ s.m_timeout = n.state[p].m_timeout
      /\ s.m_work_header = n.state[p].m_work_header
  BY <1>1, ProcessGood
<1>3. /\ Recorded(n.state[p], p, n.mapBlocksInFlight) /\ Bounded(n.state[p])
      /\ StartsLinked(n.state[p], haveData)
  BY <1>1 DEF Good
<1>4. \/ RequestBlocks(n, p) = n
      \/ RequestBlocks(n, p) = n1
      \/ /\ RequestBlocks(n, p) = m
         /\ s.nBlocksInFlight < MaxBlocksInTransitPerPeer
         /\ s.pindexBestKnownBlock # NoBlock
  <2>1. [n1 EXCEPT !.state[p].pindexLastCommonBlock = common] = nc
    BY <1>1, Zenon DEF Net
  <2>2. s.nBlocksInFlight \in Int /\ MaxBlocksInTransitPerPeer \in Nat
    BY <1>2, LimitAssumption, Zenon DEF NodeState
  <2> DEFINE mark == MarkBlocksAsInFlight([n1 EXCEPT !.state[p].pindexLastCommonBlock = common],
                                          p, F)
             stall(k) ==
               [k EXCEPT !.state =
                 [q \in Peer |-> IF q \in found.staller /\ k.state[p].nBlocksInFlight = 0
                                 THEN [@[q] EXCEPT !.nStallingSince = TRUE] ELSE @[q]]]
             none == \/ p \in Client \/ ~(fFetch(n, p) \/ ~ibd)
                     \/ s.nBlocksInFlight >= MaxBlocksInTransitPerPeer
             short == \/ s.pindexBestKnownBlock = NoBlock
                      \/ Work[s.pindexBestKnownBlock] < Work[tip]
                      \/ Work[s.pindexBestKnownBlock] < MinimumChainWork
  <2>3. RequestBlocks(n, p) = IF none THEN n ELSE IF short THEN n1 ELSE stall(mark)
    BY DEF RequestBlocks
  <2>4. mark = n2
    <3> HIDE DEF n1, common, F, nc
    <3> QED
      BY <2>1
  <2>5. stall(n2) = m
    <3> HIDE DEF n2, found
    <3> QED
      BY DEF Stall
  <2>6. ~none => s.nBlocksInFlight < MaxBlocksInTransitPerPeer
    BY ONLY <2>2
  <2>7. ~short => s.pindexBestKnownBlock # NoBlock
    BY Zenon
  <2> HIDE DEF mark, stall, n2, m, n1, s, none, short
  <2>8. QED
    BY ONLY <2>3, <2>4, <2>5, <2>6, <2>7
<1>5. n1 = [n EXCEPT !.state[p] = s] /\ nc = [n EXCEPT !.state[p] = t]
  OBVIOUS
<1>6. Good(n1, C, haveData) /\ n1.mapBlocksInFlight = n.mapBlocksInFlight
  <2> HIDE DEF n1, nc, s
  <2> QED
    BY <1>1, <1>2, <1>3, <1>5, StateUpdate, Quiet DEF Bounded
<1>7. ASSUME s.nBlocksInFlight < MaxBlocksInTransitPerPeer, s.pindexBestKnownBlock # NoBlock
      PROVE  /\ Good(m, C, haveData)
             /\ \A b \in Block : m.mapBlocksInFlight[b] # n.mapBlocksInFlight[b]
                                    => b \notin haveData /\ ~InFlight(n, b)
  <2> HIDE DEF s
  <2>1. count \in Nat /\ count = MaxBlocksInTransitPerPeer - s.nBlocksInFlight
        /\ s.nBlocksInFlight \in Int /\ MaxBlocksInTransitPerPeer \in Nat
    <3>1. s.nBlocksInFlight \in Int /\ MaxBlocksInTransitPerPeer \in Nat
      BY <1>2, LimitAssumption DEF NodeState
    <3>2. QED
      BY ONLY <3>1, <1>7
  <2>2. s.pindexBestKnownBlock \in Block /\ StartsLinked(s, haveData)
    BY <1>2, <1>3, <1>7, Zenon DEF NodeState, StartsLinked, Alike
  <2>3. found = FindNextBlocksToDownload(n, p, s, count)
    OBVIOUS
  <2> HIDE DEF count, found
  <2>4. common = found.common /\ F = found.toFetch
    OBVIOUS
  <2> HIDE DEF common, F, nc
  <2>5. m = Stall(n2, Q) /\ Q \in SUBSET found.staller
    BY Zenon
  <2>6. n2 = MarkBlocksAsInFlight(nc, p, F)
    OBVIOUS
  <2> HIDE DEF n1, n2, Q, m
  <2>7. /\ common \in Block /\ Linked(common)
        /\ F \in SUBSET Block
        /\ \A b \in F : b \notin haveData /\ ~InFlight(n, b)
        /\ Cardinality(F) =< count
        /\ \A q \in found.staller : q \in Peer \ {p} /\ \E b \in Block : n.mapBlocksInFlight[b] = q
    <3>1. tip \in Block /\ Linked(tip)
      OBVIOUS
    <3>2. QED
      BY ONLY <3>1, <1>1, <1>2, <2>1, <2>2, <2>3, <2>4, FindNextFacts
  <2>8. /\ t \in NodeState /\ t.pindexLastCommonBlock = common
        /\ t.vBlocksInFlight = s.vBlocksInFlight
        /\ t.nBlocksInFlight = s.nBlocksInFlight
        /\ t.nBlocksInFlightValidHeaders = s.nBlocksInFlightValidHeaders
        /\ t.nStallingSince = s.nStallingSince
        /\ t.fSyncStarted = s.fSyncStarted /\ t.fPreferredDownload = s.fPreferredDownload
        /\ t.m_protect = s.m_protect
        /\ t.m_timeout = s.m_timeout /\ t.m_work_header = s.m_work_header
    BY ONLY <1>2, <2>7 DEF t, NodeState
  <2> HIDE DEF t
  <2>9. /\ nc \in Net /\ nc.state[p] = t /\ Others(n, nc, p)
        /\ nc.mapBlocksInFlight = n.mapBlocksInFlight
        /\ Steady(n, nc)
    BY ONLY <1>1, <1>5, <2>8, StateUpdate
  <2>10. /\ t.vBlocksInFlight = n.state[p].vBlocksInFlight
         /\ t.fSyncStarted = n.state[p].fSyncStarted
         /\ t.fPreferredDownload = n.state[p].fPreferredDownload
         /\ t.m_protect = n.state[p].m_protect
    BY <1>2, <2>8, Zenon DEF Alike
  <2>11. /\ Recorded(t, p, n.mapBlocksInFlight) /\ Bounded(t) /\ StartsLinked(t, haveData)
    <3>1. Recorded(s, p, n.mapBlocksInFlight) /\ Bounded(s)
      BY ONLY <1>2, <1>3, Zenon DEF Alike, Recorded, Bounded
    <3>2. Recorded(t, p, n.mapBlocksInFlight) /\ Bounded(t)
      BY ONLY <2>8, <3>1 DEF Recorded, Bounded
    <3>3. QED
      BY <2>7, <2>8, <3>2 DEF StartsLinked, Linked
  <2>12. Counts(n, nc, n.state[p], t)
    <3>1. n.nProtected =< MaxProtected
      BY CounterFacts
    <3>2. QED
      BY ONLY <2>9, <2>10, <3>1, Zenon DEF Counts, Moves, Steady
  <2>13. Good(nc, C, haveData)
    <3>1. Elsewhere(n, nc, p)
      BY ONLY <2>9 DEF Others, Elsewhere
    <3>2. Fits(t, p, nc.mapBlocksInFlight, C, haveData)
      BY <2>9, <2>11, Zenon DEF Fits
    <3>3. QED
      BY <1>1, <2>9, <2>12, <3>1, <3>2, OneChange
  <2>14. Free(nc, F)
    BY <2>7, <2>9, Zenon DEF InFlight, Free
  <2>15. Room(nc.state[p], F)
    <3>1. Cardinality(F) \in Nat
      BY <2>7, FS_Subset, FS_CardinalityType, TreeAssumption, Zenon
    <3>2. nc.state[p].nBlocksInFlight = s.nBlocksInFlight
      BY ONLY <2>8, <2>9
    <3>3. QED
      BY ONLY <2>1, <2>7, <3>1, <3>2 DEF Room
  <2>16. Good(n2, C, haveData) /\ OnlyAsks(nc, n2, p, F)
    <3>1. F \in SUBSET Block /\ C \in SUBSET Peer /\ p \in C
      BY <2>7
    <3>2. QED
      BY ONLY <3>1, <2>6, <2>13, <2>14, <2>15, InFlightGood
  <2>17. Owing(n2, Q)
    <3>1. ASSUME NEW q \in Q PROVE q \in Peer /\ n2.state[q].vBlocksInFlight # {}
      <4>1. q \in Peer \ {p} /\ \E b \in Block : n.mapBlocksInFlight[b] = q
        BY <2>5, <2>7
      <4>2. n2.state[q] = n.state[q]
        BY ONLY <2>9, <2>16, <4>1, Zenon DEF Others, OnlyAsks
      <4>3. n.state[q].vBlocksInFlight = {b \in Block : n.mapBlocksInFlight[b] = q}
        BY <4>1, Zenon DEF Good, Recorded
      <4>4. QED
        BY <4>1, <4>2, <4>3
    <3>2. QED
      BY <3>1 DEF Owing
  <2>18. Good(m, C, haveData) /\ m.mapBlocksInFlight = n2.mapBlocksInFlight
    <3>1. C \in SUBSET Peer
      OBVIOUS
    <3>2. QED
      BY ONLY <3>1, <2>5, <2>16, <2>17, StallingGood, Zenon
  <2>19. QED
    BY ONLY <2>7, <2>9, <2>16, <2>18, Zenon DEF OnlyAsks
<1> HIDE DEF s, n1, count, found, common, nc, F, n2, Q, m
<1>8. QED
  BY <1>4, <1>6, <1>7

----------------------------------------------------------------------------
(* The handlers *)

(* What holds of the peers, the headers and the blocks on disk. *)
BlocksOK ==
    /\ connected \in SUBSET Peer
    /\ index \in SUBSET Block /\ haveData \in SUBSET index
    /\ tip \in haveData /\ Linked(tip)

(* The peer whose message is being handled stays connected. *)
Serving(h, C) == h = Idle \/ (h \in Handling /\ h.peer \in C)

DownloadInv ==
    /\ BlocksOK
    /\ ready \in SUBSET connected /\ gone \in SUBSET (Peer \ connected) /\ ibd \in BOOLEAN
    /\ Good(net, connected, haveData)
    /\ importing \in BOOLEAN /\ Serving(handling, connected)

(* The requests of m that n does not have are for blocks that are free and not on disk. *)
AsksFree(n, m) ==
    \A b \in Block : m.mapBlocksInFlight[b] \notin {NoPeer, n.mapBlocksInFlight[b]}
                        => b \notin haveData /\ n.mapBlocksInFlight[b] = NoPeer

LEMMA BlocksFacts ==
    ASSUME BlocksOK
    PROVE  /\ index \in SUBSET Block /\ index # {} /\ pindexBestHeader \in Block
           /\ tip \in Block /\ Linked(tip) /\ haveData \in SUBSET Block
<1>1. index \in SUBSET Block /\ index # {} /\ tip \in Block /\ haveData \in SUBSET Block
      /\ Linked(tip)
  BY DEF BlocksOK
<1>2. pindexBestHeader \in index
  BY <1>1, BestHeaderFacts
<1>3. QED
  BY <1>1, <1>2

LEMMA SentGood ==
    ASSUME BlocksOK, NEW p \in connected, NEW T, Good(net, connected, haveData)
    PROVE  Good(Sent(p, T), connected, haveData) /\ AsksFree(net, Sent(p, T))
<1> DEFINE u == StartSync(net, p)
           n == Availability(u, p)
           h == HeadersSyncState(n, p, T)
           e == ConsiderEviction(h, p, T)
           r == RequestBlocks(e, p)
<1>1. connected \in SUBSET Peer /\ p \in connected
  BY DEF BlocksOK
<1>0. index \in SUBSET Block /\ index # {} /\ tip \in Block /\ Linked(tip)
  BY BlocksFacts
<1>2. Sent(p, T) = Disconnect(n, p) \/ Sent(p, T) = r
  BY DEF Sent
<1>3. Good(n, connected, haveData) /\ n.mapBlocksInFlight = net.mapBlocksInFlight
  <2>1. Good(u, connected, haveData) /\ u.mapBlocksInFlight = net.mapBlocksInFlight
    BY <1>0, <1>1, StartSyncGood
  <2> HIDE DEF u
  <2>2. QED
    BY <1>0, <1>1, <2>1, AvailabilityGood
<1> HIDE DEF n
<1>4. /\ Good(Disconnect(n, p), connected, haveData)
      /\ Disconnect(n, p).mapBlocksInFlight = n.mapBlocksInFlight
  BY <1>1, <1>3, DisconnectGood
<1>5. Good(h, connected, haveData) /\ h.mapBlocksInFlight = n.mapBlocksInFlight
  BY <1>1, <1>3, HeadersSyncGood
<1> HIDE DEF h
<1>6. Good(e, connected, haveData) /\ e.mapBlocksInFlight = h.mapBlocksInFlight
  BY ONLY <1>0, <1>1, <1>5, EvictionGood
<1> HIDE DEF e
<1>7. /\ Good(r, connected, haveData)
      /\ \A b \in Block : r.mapBlocksInFlight[b] # e.mapBlocksInFlight[b]
                             => b \notin haveData /\ ~InFlight(e, b)
  BY ONLY <1>0, <1>1, <1>6, RequestBlocksGood, Zenon
<1> HIDE DEF r
<1>8. AsksFree(net, r)
  BY <1>3, <1>5, <1>6, <1>7 DEF AsksFree, InFlight
<1>9. AsksFree(net, Disconnect(n, p))
  BY <1>3, <1>4 DEF AsksFree
<1>10. QED
  BY <1>2, <1>4, <1>7, <1>8, <1>9, Zenon

(* A HEADERS message that connects. *)
LEMMA ConnectedHeadersGood ==
    ASSUME BlocksOK, NEW p \in connected, NEW n, Good(n, connected, haveData),
           NEW last \in Block, NEW full, NEW again,
           NEW n1, n1 = UpdateBlockAvailability(n, p, last, index),
           NEW n2, n2 = MoreHeaders(n1, p, last, full, again),
           NEW n3, n3 = MarkBlocksAsInFlight(n2, p, DirectFetchBlocks(n2, p, last)),
           NEW m, m = Protect(InsufficientWork(n3, p, full), p)
    PROVE  Good(m, connected, haveData) /\ AsksFree(n, m)
<1> DEFINE F == DirectFetchBlocks(n2, p, last)
           i == InsufficientWork(n3, p, full)
<1>1. connected \in SUBSET Peer /\ p \in connected
  BY DEF BlocksOK
<1>2. Good(n1, connected, haveData) /\ n1.mapBlocksInFlight = n.mapBlocksInFlight
  BY <1>1, BlocksFacts, UpdateGood
<1>3. Good(n2, connected, haveData) /\ n2.mapBlocksInFlight = n1.mapBlocksInFlight
  <2>1. n2 = MoreHeaders(n1, p, last, full, again) /\ last \in Block
    OBVIOUS
  <2>2. QED
    BY ONLY <2>1, <1>1, <1>2, MoreHeadersGood
<1>4. /\ F \in SUBSET Block
      /\ \A b \in F : b \notin haveData /\ ~InFlight(n2, b)
      /\ Room(n2.state[p], F)
  BY <1>1, <1>3, DirectFetchFacts, Zenon
<1>5. n3 = MarkBlocksAsInFlight(n2, p, F)
  OBVIOUS
<1> HIDE DEF F
<1>6. Free(n2, F)
  BY <1>4 DEF Free
<1>7. Good(n3, connected, haveData) /\ OnlyAsks(n2, n3, p, F)
  BY ONLY <1>1, <1>3, <1>4, <1>5, <1>6, InFlightGood, Zenon
<1>8. Good(i, connected, haveData) /\ i.mapBlocksInFlight = n3.mapBlocksInFlight
  BY ONLY <1>1, <1>7, InsufficientWorkGood
<1>9. m = Protect(i, p)
  OBVIOUS
<1> HIDE DEF i
<1>10. Good(m, connected, haveData) /\ m.mapBlocksInFlight = i.mapBlocksInFlight
  BY ONLY <1>1, <1>8, <1>9, ProtectGood, Zenon
<1>11. AsksFree(n, m)
  <2>1. m.mapBlocksInFlight = n3.mapBlocksInFlight /\ n2.mapBlocksInFlight = n.mapBlocksInFlight
    BY ONLY <1>2, <1>3, <1>8, <1>10
  <2>2. QED
    BY ONLY <1>4, <1>7, <2>1, Zenon DEF AsksFree, InFlight, OnlyAsks
<1>12. QED
  BY <1>10, <1>11, Zenon

LEMMA HeadersGood ==
    ASSUME BlocksOK, NEW p \in connected, NEW n, Good(n, connected, haveData),
           NEW from, NEW last \in Block, ProcessHeadersMessage(n, p, from, last)
    PROVE  /\ Good(net', connected, haveData) /\ AsksFree(n, net')
           /\ index' \in SUBSET Block /\ index \in SUBSET index'
           /\ UNCHANGED <<connected, ready, gone, haveData, tip, ibd, importing>>
           /\ handling' = handling \/ Serving(handling', connected)
<1> DEFINE g == GetHeaders(n, p, pindexBestHeader)
           h == [kind |-> "headers", peer |-> p, block |-> last,
                 flag |-> Height(last) - Height(from) = MaxHeadersResults]
<1>1. /\ \/ net' = n /\ index' = index /\ handling' = handling
         \/ /\ net' = UpdateBlockAvailability(g, p, last, index) /\ index' = index
            /\ handling' = handling
         \/ net' = n /\ index' = index \cup Chain[last] /\ handling' = h
      /\ UNCHANGED <<connected, ready, gone, haveData, tip, ibd, importing>>
  BY ONLY ProcessHeadersMessage(n, p, from, last), Zenon DEF ProcessHeadersMessage
<1>2. index \in SUBSET Block /\ connected \in SUBSET Peer /\ Chain[last] \in SUBSET Block
  BY BlocksFacts, ChainFacts DEF BlocksOK
<1>3. Serving(h, connected)
  BY <1>2 DEF Serving, Handling
<1> HIDE DEF h
<1>4. CASE net' = n
  BY <1>1, <1>2, <1>3, <1>4, UpdateGood DEF AsksFree
<1>5. CASE net' = UpdateBlockAvailability(g, p, last, index) /\ index' = index
           /\ handling' = handling
  <2>1. Good(g, connected, haveData) /\ g.mapBlocksInFlight = n.mapBlocksInFlight
    BY <1>2, BlocksFacts, GetHeadersGood
  <2> HIDE DEF g
  <2>2. Good(net', connected, haveData) /\ net'.mapBlocksInFlight = g.mapBlocksInFlight
    BY <1>2, <1>5, <2>1, UpdateGood
  <2>3. QED
    BY <1>1, <1>2, <1>5, <2>1, <2>2, Zenon DEF AsksFree
<1>6. QED
  BY ONLY <1>1, <1>4, <1>5, Zenon

(* The second half of the handler *)
LEMMA AcceptedHeadersGood ==
    ASSUME BlocksOK, NEW p \in connected, NEW n, Good(n, connected, haveData),
           NEW last \in Block, NEW full, NEW again
    PROVE  /\ Good(AcceptedHeaders(n, p, last, full, again), connected, haveData)
           /\ AsksFree(n, AcceptedHeaders(n, p, last, full, again))
<1> DEFINE n1 == UpdateBlockAvailability(n, p, last, index)
           n2 == MoreHeaders(n1, p, last, full, again)
           n3 == MarkBlocksAsInFlight(n2, p, DirectFetchBlocks(n2, p, last))
           m == Protect(InsufficientWork(n3, p, full), p)
<1>1. AcceptedHeaders(n, p, last, full, again) = m
  BY ONLY DEF AcceptedHeaders
<1> HIDE DEF m
<1>2. m = Protect(InsufficientWork(n3, p, full), p)
  BY ONLY DEF m
<1> HIDE DEF n3
<1>3. n3 = MarkBlocksAsInFlight(n2, p, DirectFetchBlocks(n2, p, last))
  BY ONLY DEF n3
<1> HIDE DEF n2
<1>4. n2 = MoreHeaders(n1, p, last, full, again)
  BY ONLY DEF n2
<1> HIDE DEF n1
<1>5. n1 = UpdateBlockAvailability(n, p, last, index)
  BY ONLY DEF n1
<1>6. Good(m, connected, haveData) /\ AsksFree(n, m)
  BY <1>2, <1>3, <1>4, <1>5, ConnectedHeadersGood, Zenon
<1>7. QED
  BY ONLY <1>1, <1>6

LEMMA AnswerGood ==
    ASSUME BlocksOK, NEW p \in connected, Good(net, connected, haveData),
           NEW locator \in net.asked[p]
    PROVE  /\ Good([net EXCEPT !.asked[p] = @ \ {locator}], connected, haveData)
           /\ [net EXCEPT !.asked[p] = @ \ {locator}].mapBlocksInFlight = net.mapBlocksInFlight
           /\ locator \in Block
<1> DEFINE A == net.asked[p] \ {locator}
           m == [net EXCEPT !.asked[p] = A]
<1>1. net \in Net /\ p \in Peer /\ connected \in SUBSET Peer
  BY Zenon DEF Good, BlocksOK
<1>2. net.asked[p] \in SUBSET Block
  BY <1>1 DEF Net
<1>3. A \in SUBSET Block
  BY <1>2
<1>4. Alike(net.state[p], net.state[p])
      /\ (net.state[p].m_timeout => net.state[p].m_work_header # NoBlock)
  BY <1>1, Zenon DEF Alike, Good, Bounded
<1>5. m = [net EXCEPT !.asked[p] = A]
  OBVIOUS
<1> HIDE DEF A, m
<1>6. /\ m \in Net /\ m.state = net.state
      /\ m.mapBlocksInFlight = net.mapBlocksInFlight
      /\ Others(net, m, p) /\ Steady(net, m)
  BY ONLY <1>1, <1>3, <1>5, Zenon DEF Net, Others, Steady
<1>7. Good(m, connected, haveData)
  BY <1>1, <1>4, <1>6, Quiet, Zenon
<1>8. m = [net EXCEPT !.asked[p] = @ \ {locator}]
  BY DEF m, A
<1>9. QED
  BY <1>2, <1>6, <1>7, <1>8

LEMMA FinalizeGood ==
    ASSUME BlocksOK, NEW p \in connected, Good(net, connected, haveData), FinalizeNode(p)
    PROVE  /\ Good(net', connected \ {p}, haveData)
           /\ \A b \in Block : net'.mapBlocksInFlight[b] \in {NoPeer, net.mapBlocksInFlight[b]}
<1> DEFINE s == net.state[p]
           V == s.vBlocksInFlight
           f == [b \in Block |-> IF b \in V THEN NoPeer ELSE net.mapBlocksInFlight[b]]
           a == net.nSyncStarted - BoolToInt(s.fSyncStarted)
           c == net.nPreferredDownload - BoolToInt(s.fPreferredDownload)
           d == net.nPeersWithValidatedDownloads - BoolToInt(s.nBlocksInFlightValidHeaders # 0)
           e == net.nProtected - BoolToInt(s.m_protect)
           m == [net EXCEPT !.nSyncStarted = a, !.mapBlocksInFlight = f,
                            !.nPreferredDownload = c, !.nPeersWithValidatedDownloads = d,
                            !.nProtected = e, !.state[p] = NewNodeState, !.asked[p] = {}]
<1>1. net \in Net /\ p \in Peer /\ connected \in SUBSET Peer /\ s \in NodeState
      /\ V \in SUBSET Block /\ IsFiniteSet(V) /\ Cardinality(V) \in Nat
  BY RequestFacts, Zenon DEF BlocksOK
<1>2. net' = m
  BY <1>1 DEF FinalizeNode, Net
<1>3. Recorded(s, p, net.mapBlocksInFlight)
  BY <1>1, Zenon DEF Good
<1>4. V = {b \in Block : net.mapBlocksInFlight[b] = p}
      /\ s.nBlocksInFlightValidHeaders = Cardinality(V)
  BY <1>3, Zenon DEF Recorded
<1>5. a \in Int /\ c \in Int /\ d \in Int /\ e \in Int
  <2>1. /\ net.nSyncStarted \in Int /\ net.nPreferredDownload \in Int
        /\ net.nPeersWithValidatedDownloads \in Int /\ net.nProtected \in Int
    BY CounterFacts
  <2>2. /\ BoolToInt(s.fSyncStarted) \in Int /\ BoolToInt(s.fPreferredDownload) \in Int
        /\ BoolToInt(s.nBlocksInFlightValidHeaders # 0) \in Int
        /\ BoolToInt(s.m_protect) \in Int
    BY DEF BoolToInt
  <2>3. QED
    BY ONLY <2>1, <2>2
<1>6. f \in [Block -> Peer \cup {NoPeer}]
      /\ \A b \in Block : f[b] = IF b \in V THEN NoPeer ELSE net.mapBlocksInFlight[b]
  BY <1>1, Zenon DEF Net
<1>7. /\ a = net.nSyncStarted - BoolToInt(s.fSyncStarted)
      /\ c = net.nPreferredDownload - BoolToInt(s.fPreferredDownload)
      /\ d = net.nPeersWithValidatedDownloads - BoolToInt(s.nBlocksInFlightValidHeaders # 0)
      /\ e = net.nProtected - BoolToInt(s.m_protect)
      /\ s = net.state[p] /\ V = s.vBlocksInFlight
  BY Zenon
<1>8. m = [net EXCEPT !.nSyncStarted = a, !.mapBlocksInFlight = f,
                      !.nPreferredDownload = c, !.nPeersWithValidatedDownloads = d,
                      !.nProtected = e, !.state[p] = NewNodeState, !.asked[p] = {}]
  OBVIOUS
<1> HIDE DEF s, V, f, a, c, d, e, m
<1>9. /\ m \in Net /\ m.state[p] = NewNodeState
      /\ \A q \in Peer \ {p} : m.state[q] = net.state[q]
      /\ m.mapBlocksInFlight = f /\ m.nSyncStarted = a /\ m.nPreferredDownload = c
      /\ m.nPeersWithValidatedDownloads = d /\ m.nProtected = e
  <2>1. NewNodeState \in NodeState
    BY ONLY NewNodeFacts
  <2>2. QED
    BY ONLY <1>1, <1>5, <1>6, <1>8, <2>1, Zenon DEF Net
<1>10. Fits(NewNodeState, p, f, connected \ {p}, haveData)
  <2>1. {b \in Block : f[b] = p} = {}
    BY <1>1, <1>4, <1>6, PeerAssumption, Zenon
  <2>2. QED
    BY ONLY <2>1, NewNodeFits
<1>11. \A q \in Peer \ {p} : \A b \in Block : f[b] = q <=> net.mapBlocksInFlight[b] = q
  BY <1>4, <1>6, PeerAssumption, Zenon
<1>12. s.nBlocksInFlightValidHeaders # 0 <=> V # {}
  BY <1>1, <1>4, FS_EmptySet, Zenon
<1>13. Counts(net, m, s, NewNodeState)
  <2>1. /\ net.nSyncStarted \in Int /\ net.nPreferredDownload \in Int
        /\ net.nPeersWithValidatedDownloads \in Int /\ net.nProtected \in Int
        /\ net.nProtected =< MaxProtected /\ MaxProtected \in Nat
    BY CounterFacts
  <2>2. /\ Moves(net.nSyncStarted, a, s.fSyncStarted, NewNodeState.fSyncStarted)
        /\ Moves(net.nPreferredDownload, c, s.fPreferredDownload,
                 NewNodeState.fPreferredDownload)
    BY ONLY <1>7, <2>1, NewNodeFacts DEF Moves, BoolToInt
  <2>3. Moves(net.nPeersWithValidatedDownloads, d, s.vBlocksInFlight # {},
              NewNodeState.vBlocksInFlight # {})
    BY ONLY <1>7, <1>12, <2>1, NewNodeFacts DEF Moves, BoolToInt
  <2>4. Moves(net.nProtected, e, s.m_protect, NewNodeState.m_protect) /\ e =< MaxProtected
    BY ONLY <1>7, <2>1, NewNodeFacts DEF Moves, BoolToInt
  <2>5. QED
    BY ONLY <1>9, <2>2, <2>3, <2>4, Zenon DEF Counts
<1>14. Elsewhere(net, m, p)
  BY ONLY <1>9, <1>11, Zenon DEF Elsewhere
<1>15. Good(m, connected \ {p}, haveData)
  <2> DEFINE E == connected \ {p}
  <2>1. connected \ {p} = E \ {p} /\ Good(net, connected, haveData)
    OBVIOUS
  <2>2. Fits(m.state[p], p, m.mapBlocksInFlight, E, haveData)
    BY ONLY <1>9, <1>10, Zenon
  <2>3. Counts(net, m, net.state[p], m.state[p])
    BY ONLY <1>7, <1>9, <1>13, Zenon
  <2> HIDE DEF E
  <2>4. Good(m, E, haveData)
    BY ONLY <1>1, <1>9, <1>14, <2>1, <2>2, <2>3, OneChange, Zenon
  <2>5. QED
    BY <2>4 DEF E
<1>16. QED
  BY ONLY <1>2, <1>6, <1>9, <1>15, Zenon

(* The chain that is activated is on disk. *)
LEMMA ActivatedLinked ==
    ASSUME ActivateBestChain
    PROVE  tip' \in {c \in haveData' : Chain[c] \subseteq haveData'}
BY Zenon DEF ActivateBestChain, Best

(* The blocks on disk only grow, and the tip stays linked. *)
LEMMA NewBlockGood ==
    ASSUME BlocksOK, ibd \in BOOLEAN, NEW b \in Block, NEW fRequested,
           ProcessNewBlock(b, fRequested)
    PROVE  /\ index' \in SUBSET Block /\ haveData' \in SUBSET index'
           /\ haveData \in SUBSET haveData'
           /\ tip' \in haveData' /\ Linked(tip)' /\ ibd' \in BOOLEAN
<1>1. /\ index' \in SUBSET Block /\ haveData' \in SUBSET index'
      /\ haveData \in SUBSET haveData'
  BY Zenon DEF BlocksOK, ProcessNewBlock
<1>2. tip' \in {c \in haveData' : Chain[c] \subseteq haveData'}
  BY ActivatedLinked, Zenon DEF ProcessNewBlock
<1>3. ibd' \in BOOLEAN
  BY Zenon DEF ProcessNewBlock, InitialBlockDownload
<1>4. QED
  BY <1>1, <1>2, <1>3, Zenon DEF Linked

(* More blocks on disk, or another connection, disturb nothing. *)
LEMMA GoodGrows ==
    ASSUME NEW C, NEW E, C \subseteq E, NEW D, NEW G, D \subseteq G, NEW n, Good(n, C, D)
    PROVE  Good(n, E, G)
BY Zenon DEF Good, StartsLinked

----------------------------------------------------------------------------
(* The invariant and what follows from it *)

LEMMA InitInv == Init => DownloadInv
<1> SUFFICES ASSUME Init PROVE DownloadInv
  OBVIOUS
<1>1. connected = {} /\ ready = {} /\ gone = {} /\ ibd = TRUE
      /\ importing = TRUE /\ handling = Idle
      /\ index = {Genesis} /\ haveData = {Genesis} /\ tip = Genesis
  BY Zenon DEF Init
<1>2. Genesis \in Block /\ Chain[Genesis] = {Genesis}
  BY TreeAssumption
<1>3. BlocksOK
  BY ONLY <1>1, <1>2 DEF BlocksOK, Linked
<1>4. Good(net, connected, haveData)
  BY InitGood
<1>5. QED
  BY ONLY <1>1, <1>3, <1>4 DEF DownloadInv, Serving

(* Every action keeps the invariant, and asks for free blocks only. *)
LEMMA NextInv ==
    ASSUME DownloadInv, [Next]_vars
    PROVE  DownloadInv' /\ AsksFree(net, net')
<1>1. BlocksOK /\ Good(net, connected, haveData) /\ connected \in SUBSET Peer
      /\ ready \in SUBSET connected /\ gone \in SUBSET (Peer \ connected) /\ ibd \in BOOLEAN
      /\ importing \in BOOLEAN /\ Serving(handling, connected)
  BY DEF DownloadInv, BlocksOK
<1>2. ASSUME UNCHANGED <<connected, chain>>
      PROVE  BlocksOK' /\ importing' \in BOOLEAN /\ ibd' \in BOOLEAN
  BY <1>1, <1>2, Zenon DEF BlocksOK, Linked, chain
<1>3. ASSUME net' = net PROVE AsksFree(net, net')
  BY <1>3 DEF AsksFree
<1>4. CASE UNCHANGED vars
  <2>1. BlocksOK' /\ AsksFree(net, net')
    BY <1>2, <1>3, <1>4 DEF vars, chain
  <2>2. QED
    BY <1>1, <1>4, <2>1 DEF vars, DownloadInv
<1>5. ASSUME NEW p \in Peer, InitializeNode(p) PROVE DownloadInv' /\ AsksFree(net, net')
  <2>1. connected' = connected \cup {p} /\ p \notin gone /\ UNCHANGED <<ready, gone, net, handling>>
        /\ UNCHANGED <<index, haveData, tip, ibd, importing>>
    BY <1>5 DEF InitializeNode, chain
  <2>2. BlocksOK'
    BY <1>1, <2>1, Zenon DEF BlocksOK, Linked
  <2>3. Good(net', connected', haveData')
    BY <1>1, <2>1, GoodGrows
  <2>4. Serving(handling', connected')
    BY <1>1, <2>1 DEF Serving
  <2>5. QED
    BY <1>1, <1>3, <2>1, <2>2, <2>3, <2>4 DEF DownloadInv
<1>6. ASSUME NEW p \in Peer, Version(p) PROVE DownloadInv' /\ AsksFree(net, net')
  <2>1. Good(net', connected, haveData) /\ net'.mapBlocksInFlight = net.mapBlocksInFlight
    <3> DEFINE u == UpdatePreferredDownload(net, p)
    <3>1. p \in connected /\ net' = [u EXCEPT !.state[p].nVersion = TRUE]
      BY <1>6 DEF Version
    <3>2. Good(u, connected, haveData) /\ u.mapBlocksInFlight = net.mapBlocksInFlight
      BY <1>1, <3>1, PreferredGood
    <3> HIDE DEF u
    <3>3. QED
      BY <1>1, <3>1, <3>2, VersionGood
  <2>2. AsksFree(net, net')
    BY <2>1 DEF AsksFree
  <2>3. QED
    BY <1>1, <1>2, <1>6, <2>1, <2>2 DEF DownloadInv, Version, chain
<1>7. ASSUME NEW p \in Peer, Verack(p) PROVE DownloadInv' /\ AsksFree(net, net')
  BY <1>1, <1>2, <1>3, <1>7 DEF DownloadInv, Verack, chain
<1>8. ASSUME NEW p \in Peer, FinalizeNode(p) PROVE DownloadInv' /\ AsksFree(net, net')
  <2>1. p \in connected /\ connected' = connected \ {p} /\ ready' = ready \ {p}
        /\ gone' = gone \cup {p} /\ UNCHANGED <<index, haveData, tip, ibd, importing, handling>>
        /\ handling.peer # p
    BY <1>8 DEF FinalizeNode, chain
  <2>2. BlocksOK'
    BY <1>1, <2>1, Zenon DEF BlocksOK, Linked
  <2>3. /\ Good(net', connected \ {p}, haveData)
        /\ \A b \in Block : net'.mapBlocksInFlight[b] \in {NoPeer, net.mapBlocksInFlight[b]}
    BY <1>1, <1>8, <2>1, FinalizeGood
  <2>4. AsksFree(net, net')
    BY <2>3 DEF AsksFree
  <2>5. Serving(handling', connected')
    BY <1>1, <2>1 DEF Serving
  <2>6. QED
    BY <1>1, <2>1, <2>2, <2>3, <2>4, <2>5 DEF DownloadInv
<1>9. ASSUME NEW p \in connected, NEW n, Good(n, connected, haveData),
             n.mapBlocksInFlight = net.mapBlocksInFlight,
             NEW from, NEW last \in Block, ProcessHeadersMessage(n, p, from, last)
      PROVE  DownloadInv' /\ AsksFree(net, net')
  <2>1. /\ Good(net', connected, haveData) /\ AsksFree(n, net')
        /\ index' \in SUBSET Block /\ index \in SUBSET index'
        /\ UNCHANGED <<connected, ready, gone, haveData, tip, ibd, importing>>
        /\ handling' = handling \/ Serving(handling', connected)
    BY <1>1, <1>9, HeadersGood, Zenon
  <2>2. BlocksOK'
    BY <1>1, <2>1, Zenon DEF BlocksOK, Linked
  <2>3. AsksFree(net, net')
    BY ONLY <1>9, <2>1, Zenon DEF AsksFree, InFlight
  <2>4. Serving(handling', connected')
    BY <1>1, <2>1 DEF Serving
  <2>5. QED
    BY <1>1, <2>1, <2>2, <2>3, <2>4 DEF DownloadInv
<1>10. ASSUME NEW p \in Peer, Headers(p) PROVE DownloadInv' /\ AsksFree(net, net')
  <2>1. PICK last \in Chain[Serves[p]] \cap Announced, from \in Chain[Serves[p]] :
           ProcessHeadersMessage(net, p, from, last)
    BY <1>10, Zenon DEF Headers
  <2>2. p \in connected
    BY <1>1, <1>10, Zenon DEF Headers, Active
  <2>3. last \in Block
    BY PeerAssumption, ChainFacts, Zenon
  <2>4. QED
    BY ONLY <1>1, <1>9, <2>1, <2>2, <2>3, Zenon
<1>11. ASSUME NEW p \in Peer, AnswerHeaders(p) PROVE DownloadInv' /\ AsksFree(net, net')
  <2> DEFINE from(locator) == Fork(locator, Serves[p])
             sent(locator) == Lowest(Chain[Serves[p]] \ Chain[from(locator)], MaxHeadersResults)
             last(locator) == IF sent(locator) = {} THEN from(locator) ELSE Highest(sent(locator))
  <2>1. PICK locator \in net.asked[p] :
           ProcessHeadersMessage([net EXCEPT !.asked[p] = @ \ {locator}], p,
                                 from(locator), last(locator))
    BY <1>11, Zenon DEF AnswerHeaders
  <2>2. p \in connected
    BY <1>1, <1>11 DEF AnswerHeaders, Active
  <2> DEFINE m == [net EXCEPT !.asked[p] = @ \ {locator}]
  <2>3. Good(m, connected, haveData) /\ m.mapBlocksInFlight = net.mapBlocksInFlight
        /\ locator \in Block
    BY <1>1, <2>2, AnswerGood
  <2>4. last(locator) \in Block
    <3>1. Serves[p] \in Block
      BY PeerAssumption
    <3>2. Chain[Serves[p]] \in SUBSET Block
      BY <3>1, ChainFacts
    <3>3. from(locator) \in Block
      BY <2>3, <3>1, <3>2, ForkFacts
    <3>4. sent(locator) \in SUBSET Block
      <4> HIDE DEF from
      <4> QED
        BY <3>2 DEF Lowest
    <3> HIDE DEF from, sent
    <3>5. QED
      BY <3>3, <3>4, HighestFacts
  <2>5. ProcessHeadersMessage(m, p, from(locator), last(locator))
    BY <2>1
  <2> HIDE DEF from, last, m
  <2>6. QED
    BY ONLY <1>9, <2>2, <2>3, <2>4, <2>5, Zenon
<1>12. ASSUME NEW p \in Peer, Inv(p) PROVE DownloadInv' /\ AsksFree(net, net')
  <2>1. p \in connected /\ UNCHANGED <<connected, ready, gone, chain, handling>>
    BY <1>1, <1>12, Zenon DEF Inv, Active
  <2>2. PICK b \in IF p \in Prompt THEN {Serves[p]} ELSE Chain[Serves[p]] \cap Announced :
           \/ net' = UpdateBlockAvailability(net, p, b, index)
           \/ net' = GetHeaders(UpdateBlockAvailability(net, p, b, index), p, pindexBestHeader)
    BY <1>12, Zenon DEF Inv
  <2>3. b \in Block
    BY PeerAssumption, ChainFacts, Zenon
  <2> DEFINE n == UpdateBlockAvailability(net, p, b, index)
  <2>4. Good(n, connected, haveData) /\ n.mapBlocksInFlight = net.mapBlocksInFlight
    <3>1. index \in SUBSET Block /\ p \in connected
      BY <1>1, <2>1, BlocksFacts, Zenon
    <3>2. QED
      BY ONLY <1>1, <2>3, <3>1, UpdateGood
  <2>5. net' = n \/ net' = GetHeaders(n, p, pindexBestHeader)
    BY <2>2, Zenon
  <2> HIDE DEF n
  <2>6. /\ Good(GetHeaders(n, p, pindexBestHeader), connected, haveData)
        /\ GetHeaders(n, p, pindexBestHeader).mapBlocksInFlight = n.mapBlocksInFlight
    <3>1. pindexBestHeader \in Block
      BY <1>1, BlocksFacts, Zenon
    <3>2. QED
      BY ONLY <3>1, <1>1, <2>1, <2>4, GetHeadersGood
  <2>7. Good(net', connected, haveData) /\ net'.mapBlocksInFlight = net.mapBlocksInFlight
    BY <2>4, <2>5, <2>6, Zenon
  <2>8. AsksFree(net, net') /\ BlocksOK'
    BY <1>2, <2>1, <2>7, Zenon DEF AsksFree
  <2>9. QED
    BY ONLY <1>1, <1>2, <2>1, <2>7, <2>8, Zenon DEF DownloadInv, chain
<1>13. ASSUME handling.kind = "headers" \/ handling.kind = "block"
       PROVE  handling.peer \in connected /\ handling.block \in Block
  BY <1>1, <1>13 DEF Serving, Handling, Idle
<1>14. ASSUME HeadersAccepted PROVE DownloadInv' /\ AsksFree(net, net')
  <2>1. handling.peer \in connected /\ handling.block \in Block
    BY <1>13, <1>14 DEF HeadersAccepted
  <2>2. PICK again \in BOOLEAN :
           net' = AcceptedHeaders(net, handling.peer, handling.block, handling.flag, again)
    BY <1>14, Zenon DEF HeadersAccepted
  <2>3. Good(net', connected, haveData) /\ AsksFree(net, net')
    BY <1>1, <2>1, <2>2, AcceptedHeadersGood, Zenon
  <2>4. QED
    BY <1>1, <1>2, <1>14, <2>3 DEF DownloadInv, HeadersAccepted, Serving, chain
<1>15. ASSUME NEW b \in Block, NEW fRequested, ProcessNewBlock(b, fRequested),
              UNCHANGED <<connected, ready, gone, net>>, handling' = handling \/ handling' = Idle
       PROVE  DownloadInv' /\ AsksFree(net, net')
  <2>1. /\ index' \in SUBSET Block /\ haveData' \in SUBSET index'
        /\ haveData \in SUBSET haveData'
        /\ tip' \in haveData' /\ Linked(tip)' /\ ibd' \in BOOLEAN
    BY <1>1, <1>15, NewBlockGood
  <2>2. Good(net', connected', haveData')
    BY <1>1, <1>15, <2>1, GoodGrows
  <2>3. importing' \in BOOLEAN /\ Serving(handling', connected')
    BY <1>1, <1>15 DEF ProcessNewBlock, Serving
  <2>4. QED
    BY <1>1, <1>3, <1>15, <2>1, <2>2, <2>3, Zenon DEF DownloadInv, BlocksOK
<1>16. ASSUME NEW p \in Peer, NEW b \in Block, ReceiveBlock(p, b)
       PROVE  DownloadInv' /\ AsksFree(net, net')
  <2>1. /\ Good(net', connected, haveData)
        /\ \A c \in Block : net'.mapBlocksInFlight[c] \in {NoPeer, net.mapBlocksInFlight[c]}
    <3>1. net' = MarkBlockAsReceived(net, b)
      BY <1>16, Zenon DEF ReceiveBlock
    <3>2. b \in Block
      OBVIOUS
    <3>3. QED
      BY ONLY <1>1, <3>1, <3>2, ReceivedGood, Zenon
  <2>2. p \in connected /\ UNCHANGED <<connected, ready, gone, chain>>
        /\ handling' = [kind |-> "block", peer |-> p, block |-> b, flag |-> InFlight(net, b)]
    BY <1>1, <1>16, Zenon DEF ReceiveBlock, Active
  <2>3. Serving(handling', connected')
    BY <2>2 DEF Serving, Handling, InFlight
  <2>4. AsksFree(net, net')
    BY <2>1, Zenon DEF AsksFree
  <2>5. QED
    BY ONLY <1>1, <1>2, <2>1, <2>2, <2>3, <2>4 DEF DownloadInv, chain
<1>17. ASSUME BlockProcessed PROVE DownloadInv' /\ AsksFree(net, net')
  <2>1. handling.block \in Block
    BY <1>13, <1>17 DEF BlockProcessed
  <2>2. QED
    BY <1>15, <1>17, <2>1, Zenon DEF BlockProcessed
<1>18. ASSUME NEW p \in Peer, NEW T, SendMessages(p, T) PROVE DownloadInv' /\ AsksFree(net, net')
  <2>1. p \in connected /\ net' = Sent(p, T)
        /\ UNCHANGED <<connected, ready, gone, chain, handling>>
    BY <1>1, <1>18, Zenon DEF SendMessages, Active
  <2>2. Good(net', connected, haveData) /\ AsksFree(net, net')
    BY <1>1, <2>1, SentGood, Zenon
  <2>3. QED
    BY <1>1, <1>2, <2>1, <2>2, Zenon DEF DownloadInv, chain
<1>19. ASSUME NEW p \in Peer, EvictExtraOutboundPeers(p)
       PROVE  DownloadInv' /\ AsksFree(net, net')
  <2>1. p \in connected /\ net' = Disconnect(net, p)
        /\ UNCHANGED <<connected, ready, gone, chain, handling>>
    BY <1>19, Zenon DEF EvictExtraOutboundPeers
  <2>2. Good(net', connected, haveData) /\ net'.mapBlocksInFlight = net.mapBlocksInFlight
    BY <1>1, <2>1, DisconnectGood, Zenon
  <2>3. AsksFree(net, net')
    BY <2>2, Zenon DEF AsksFree
  <2>4. QED
    BY ONLY <1>1, <1>2, <2>1, <2>2, <2>3, Zenon DEF DownloadInv, chain
<1>20. ASSUME NEW b \in Block, MineBlock(b) PROVE DownloadInv' /\ AsksFree(net, net')
  BY <1>15, <1>20, Zenon DEF MineBlock
<1>21. ASSUME NEW b \in Block, ImportBlock(b) PROVE DownloadInv' /\ AsksFree(net, net')
  <2>1. index' = index \cup {b} /\ haveData' = haveData \cup {b}
        /\ UNCHANGED <<connected, ready, gone, net, tip, ibd, importing, handling>>
    BY <1>21 DEF ImportBlock
  <2>2. BlocksOK'
    BY <1>1, <2>1 DEF BlocksOK, Linked
  <2>3. Good(net', connected', haveData')
    BY <1>1, <2>1, GoodGrows
  <2>4. QED
    BY <1>1, <1>3, <2>1, <2>2, <2>3 DEF DownloadInv
<1>22. ASSUME ImportActivates PROVE DownloadInv' /\ AsksFree(net, net')
  <2>1. UNCHANGED <<connected, ready, gone, net, index, haveData, ibd, importing, handling>>
        /\ ActivateBestChain
    BY <1>22 DEF ImportActivates
  <2>2. tip' \in {c \in haveData' : Chain[c] \subseteq haveData'}
    BY <2>1, ActivatedLinked
  <2>3. BlocksOK'
    BY <1>1, <2>1, <2>2, Zenon DEF BlocksOK, Linked
  <2>4. QED
    BY <1>1, <1>3, <2>1, <2>3, Zenon DEF DownloadInv
<1>23. ASSUME ImportEnds PROVE DownloadInv' /\ AsksFree(net, net')
  <2>1. importing' = FALSE /\ ibd' = InitialBlockDownload
        /\ UNCHANGED <<connected, ready, gone, net, index, haveData, tip, handling>>
    BY <1>23, Zenon DEF ImportEnds
  <2>2. ibd' \in BOOLEAN
    BY <1>1, <2>1, Zenon DEF InitialBlockDownload
  <2>3. BlocksOK'
    BY <1>1, <2>1, Zenon DEF BlocksOK, Linked
  <2>4. QED
    BY <1>1, <1>3, <2>1, <2>2, <2>3, Zenon DEF DownloadInv
<1>24. QED
  BY <1>4, <1>5, <1>6, <1>7, <1>8, <1>10, <1>11, <1>12, <1>14, <1>16, <1>17, <1>18, <1>19, <1>20,
     <1>21, <1>22, <1>23, Zenon DEF Next

(* The invariant holds in every reachable state. *)
THEOREM DownloadInvariant == Spec => []DownloadInv
<1>1. DownloadInv /\ [Next]_vars => DownloadInv'
  BY NextInv
<1>2. QED
  BY <1>1, InitInv, PTL DEF Spec

(* mapBlocksInFlight, the lists of the peers and their counters always agree, and *)
(* name connected peers only (MarkBlockAsReceived, FinalizeNode).                 *)
THEOREM RequestsAgree == Spec => []InFlightConsistent
<1>1. ASSUME DownloadInv PROVE InFlightConsistent
  <2>1. /\ net \in Net
        /\ \A p \in Peer : /\ Recorded(net.state[p], p, net.mapBlocksInFlight)
                           /\ p \notin connected => net.state[p] = NewNodeState
    BY <1>1, Zenon DEF DownloadInv, Good
  <2>2. ASSUME NEW b \in Block, InFlight(net, b) PROVE net.mapBlocksInFlight[b] \in connected
    <3>1. net.mapBlocksInFlight[b] \in Peer
      BY <2>1, <2>2 DEF InFlight, Net
    <3>2. b \in net.state[net.mapBlocksInFlight[b]].vBlocksInFlight
      BY <2>1, <3>1, Zenon DEF Recorded
    <3>3. QED
      BY ONLY <2>1, <3>1, <3>2, NewNodeFacts, Zenon
  <2>3. QED
    BY <2>1, <2>2, Zenon DEF InFlightConsistent, Recorded
<1>2. QED
  BY <1>1, DownloadInvariant, PTL

(* The counters over all peers are exact whatever the order of connections, *)
(* timeouts and disconnections: the assertions of FinalizeNode hold.        *)
THEOREM CountersAgree == Spec => []CountersExact
<1>1. ASSUME DownloadInv PROVE CountersExact
  <2>1. /\ connected \in SUBSET Peer /\ Counted(net)
        /\ \A p \in Peer : p \notin connected => net.state[p] = NewNodeState
    BY <1>1 DEF DownloadInv, BlocksOK, Good
  <2>2. /\ {p \in connected : net.state[p].fSyncStarted} = Syncing(net)
        /\ {p \in connected : net.state[p].fPreferredDownload} = Preferred(net)
        /\ {p \in connected : net.state[p].vBlocksInFlight # {}} = Downloading(net)
        /\ {p \in connected : net.state[p].m_protect} = Protected(net)
    BY ONLY <2>1, NewNodeFacts, Zenon DEF Syncing, Preferred, Downloading, Protected
  <2>3. QED
    BY <2>1, <2>2, Zenon DEF CountersExact, Those, Counted
<1>2. QED
  BY <1>1, DownloadInvariant, PTL

(* No peer is asked for more blocks than may be in transit from it, and one on the *)
(* stalling clock owes a block (SendMessages, MarkBlockAsReceived).                *)
THEOREM RequestsStayBounded == Spec => []RequestsBounded
<1>1. DownloadInv => RequestsBounded
  BY Zenon DEF DownloadInv, Good, Bounded, RequestsBounded
<1>2. QED
  BY <1>1, DownloadInvariant, PTL

(* The download window of every peer starts at a block whose whole chain is on disk *)
(* (FindNextBlocksToDownload).                                                      *)
THEOREM WindowLinked == Spec => []WindowStartsLinked
<1>1. DownloadInv => WindowStartsLinked
  BY Zenon DEF DownloadInv, BlocksOK, Good, StartsLinked, Linked, WindowStartsLinked
<1>2. QED
  BY <1>1, DownloadInvariant, PTL

(* Neither SendMessages nor a headers message asks for a block that is on disk or *)
(* asked of a peer already.                                                       *)
THEOREM AskedOnce == Spec => NeverAskedTwice
<1>1. ASSUME DownloadInv, [Next]_vars
      PROVE  [\A b \in Block :
                 net'.mapBlocksInFlight[b] \notin {NoPeer, net.mapBlocksInFlight[b]} =>
                    net.mapBlocksInFlight[b] = NoPeer /\ b \notin haveData]_vars
  BY <1>1, NextInv, Zenon DEF AsksFree
<1>2. QED
  BY <1>1, DownloadInvariant, PTL DEF Spec, NeverAskedTwice

(* Every variable keeps its type. *)
THEOREM TypeCorrect == Spec => []TypeOK
<1>1. DownloadInv => TypeOK
  BY Zenon DEF DownloadInv, BlocksOK, Good, Serving, TypeOK
<1>2. QED
  BY <1>1, DownloadInvariant, PTL
=============================================================================
