------------------------ MODULE BlockDownloadLemmas ------------------------
(***************************************************************************)
(* Facts about the block tree, the predicate Good on the tracked state,    *)
(* and that each function the handlers of BlockDownload are composed of    *)
(* preserves it.                                                           *)
(***************************************************************************)
EXTENDS BlockDownload, FiniteSetTheorems, WellFoundedInduction, TLAPS

----------------------------------------------------------------------------
(* Finite sets *)

(* A finite set that is not empty has a member with the largest value of f. *)
LEMMA MaxExists ==
    ASSUME NEW S, IsFiniteSet(S), S # {}, NEW f, \A x \in S : f[x] \in Int
    PROVE  \E m \in S : \A x \in S : f[x] =< f[m]
<1> DEFINE Above(x) == {y \in S : f[x] < f[y]}
           Tops == {Above(x) : x \in S}
<1>1. Tops \subseteq FiniteSubsetsOf(S) /\ Tops # {}
  <2>1. \A x \in S : Above(x) \in SUBSET S /\ IsFiniteSet(Above(x))
    BY FS_Subset
  <2>2. \A x \in S : Above(x) \in FiniteSubsetsOf(S)
    BY <2>1 DEF FiniteSubsetsOf
  <2> HIDE DEF Above
  <2>3. QED
    BY <2>2
<1>2. IsWellFoundedOn(StrictSubsetOrdering(S), FiniteSubsetsOf(S))
  BY FS_StrictSubsetOrderingWellFounded
<1>3. PICK T \in Tops : \A U \in Tops : ~(<<U, T>> \in StrictSubsetOrdering(S))
  <2> HIDE DEF Tops
  <2> QED
    BY <1>1, <1>2, WFMin
<1>4. PICK m \in S : T = Above(m)
  OBVIOUS
<1>5. ASSUME NEW x \in S, ~(f[x] =< f[m]) PROVE FALSE
  <2>1. Above(x) \subseteq Above(m) /\ x \in Above(m) /\ x \notin Above(x)
    BY <1>5
  <2>2. <<Above(x), Above(m)>> \in StrictSubsetOrdering(S)
    BY <2>1 DEF StrictSubsetOrdering
  <2>3. QED
    BY <2>2, <1>3, <1>4
<1>6. QED
  BY <1>5

----------------------------------------------------------------------------
(* The tree of blocks *)

(* A chain is a finite set of blocks that ends in its own block. *)
LEMMA ChainFacts ==
    ASSUME NEW b \in Block
    PROVE  /\ b \in Chain[b] /\ Genesis \in Chain[b]
           /\ Chain[b] \in SUBSET Block /\ IsFiniteSet(Chain[b])
           /\ Height(b) \in Nat
<1>1. b \in Chain[b] /\ Genesis \in Chain[b] /\ Chain[b] \in SUBSET Block
  BY TreeAssumption
<1>2. IsFiniteSet(Chain[b])
  BY <1>1, FS_Subset, TreeAssumption
<1>3. Cardinality(Chain[b]) \in Nat /\ Cardinality(Chain[b]) # 0
  BY <1>1, <1>2, FS_CardinalityType, FS_EmptySet
<1>4. QED
  BY <1>1, <1>2, <1>3 DEF Height

(* Two blocks of one chain with the same height are the same. *)
LEMMA HeightsDiffer ==
    ASSUME NEW b \in Block, NEW a \in Chain[b], NEW c \in Chain[b], Height(a) = Height(c)
    PROVE  a = c
<1>1. a \in Block /\ c \in Block
  BY ChainFacts
<1>2. ASSUME NEW x \in Block, NEW y \in Block, x \in Chain[y], Height(x) = Height(y)
      PROVE  x = y
  <2>1. Chain[x] \in SUBSET Chain[y]
    BY <1>2, TreeAssumption
  <2>2. Chain[x] = Chain[y]
    <3>1. Cardinality(Chain[x]) \in Nat /\ Cardinality(Chain[y]) \in Nat
      BY ChainFacts, FS_CardinalityType
    <3>2. Cardinality(Chain[y]) = Cardinality(Chain[x])
      BY <3>1, <1>2 DEF Height
    <3>3. QED
      BY <2>1, <3>2, ChainFacts, FS_Subset
  <2>3. CASE y = Genesis
    BY <2>3, <1>2, TreeAssumption
  <2>4. ASSUME y # Genesis, x # y PROVE FALSE
    <3>1. Chain[y] = Chain[Parent[y]] \cup {y} /\ y \notin Chain[Parent[y]] /\ Parent[y] \in Block
      BY <2>4, TreeAssumption
    <3>2. x \in Chain[Parent[y]]
      BY <3>1, <2>4, <1>2
    <3>3. Chain[x] \subseteq Chain[Parent[y]]
      BY <3>1, <3>2, TreeAssumption
    <3>4. QED
      BY <3>1, <3>3, <2>2, ChainFacts
  <2>5. QED
    BY <2>3, <2>4
<1>3. a \in Chain[c] \/ c \in Chain[a]
  BY TreeAssumption
<1>4. QED
  BY <1>1, <1>2, <1>3

(* LastCommonAncestor finds a block, on both chains. *)
LEMMA ForkFacts ==
    ASSUME NEW a \in Block, NEW b \in Block
    PROVE  Fork(a, b) \in Chain[a] \cap Chain[b]
<1> DEFINE S == Chain[a] \cap Chain[b]
           f == [x \in S |-> Height(x)]
<1>1. IsFiniteSet(S) /\ S # {} /\ S \in SUBSET Block
  BY ChainFacts, FS_Subset
<1>2. PICK m \in S : \A x \in S : f[x] =< f[m]
  <2>1. \A x \in S : f[x] \in Int
    BY <1>1, ChainFacts
  <2> HIDE DEF S, f
  <2>2. QED
    BY <1>1, <2>1, MaxExists
<1>3. ASSUME NEW x \in S PROVE x \in Chain[m]
  <2>1. CASE m \in Chain[x]
    <3>1. Chain[m] \in SUBSET Chain[x]
      BY <2>1, <1>1, TreeAssumption
    <3>2. Cardinality(Chain[m]) =< Cardinality(Chain[x])
      BY <3>1, <1>1, ChainFacts, FS_Subset
    <3>3. Height(x) =< Height(m) /\ Height(x) \in Nat /\ Height(m) \in Nat
      BY <1>1, <1>2, ChainFacts, Zenon
    <3>4. Cardinality(Chain[m]) \in Nat /\ Cardinality(Chain[x]) \in Nat
      BY <1>1, ChainFacts, FS_CardinalityType
    <3>5. Height(x) = Height(m)
      BY <3>2, <3>3, <3>4 DEF Height
    <3>6. x = m
      BY <3>5, HeightsDiffer
    <3>7. QED
      BY <3>6, <1>1, ChainFacts
  <2>2. QED
    BY <2>1, TreeAssumption
<1>4. IsFork(m, a, b) /\ m \in Block
  BY <1>1, <1>3 DEF IsFork
<1>5. IsFork(Fork(a, b), a, b)
  BY <1>4 DEF Fork
<1>6. QED
  BY <1>5 DEF IsFork

(* GetAncestor finds a block at every height of a chain. *)
LEMMA AncestorFacts ==
    ASSUME NEW b \in Block, NEW k \in Nat, k =< Height(b)
    PROVE  \E a \in Chain[b] : Height(a) = k
<1> DEFINE S == {a \in Chain[b] : k =< Height(a)}
           f == [x \in S |-> 0 - Height(x)]
<1>1. IsFiniteSet(S) /\ S # {} /\ S \in SUBSET Block
  BY ChainFacts, FS_Subset
<1>2. PICK m \in S : \A x \in S : Height(m) =< Height(x)
  <2>1. \A x \in S : f[x] \in Int
    BY <1>1, ChainFacts
  <2>2. \E m \in S : \A x \in S : f[x] =< f[m]
    <3> HIDE DEF S, f
    <3> QED
      BY <1>1, <2>1, MaxExists
  <2>3. \A x, y \in S : f[x] =< f[y] => Height(y) =< Height(x)
    BY <1>1, ChainFacts
  <2> HIDE DEF S, f
  <2>4. QED
    BY <2>2, <2>3
<1>3. ASSUME Height(m) # k PROVE FALSE
  <2>1. Height(m) \in Nat /\ k < Height(m)
    BY <1>1, <1>3, ChainFacts
  <2>2. m # Genesis
    <3>1. Chain[Genesis] = {Genesis} /\ Cardinality({Genesis}) = 1
      BY TreeAssumption, FS_Singleton, Zenon
    <3>2. Height(Genesis) = 0
      BY <3>1 DEF Height
    <3>3. QED
      BY ONLY <2>1, <3>2, k \in Nat
  <2>3. Chain[m] = Chain[Parent[m]] \cup {m} /\ m \notin Chain[Parent[m]] /\ Parent[m] \in Block
    BY <2>2, <1>1, TreeAssumption
  <2>4. Cardinality(Chain[m]) = Cardinality(Chain[Parent[m]]) + 1 /\ Cardinality(Chain[Parent[m]]) \in Nat
    BY <2>3, ChainFacts, FS_AddElement, FS_CardinalityType, Zenon
  <2>5. Height(Parent[m]) = Height(m) - 1
    BY <2>4 DEF Height
  <2>6. Parent[m] \in S
    <3>1. Chain[m] \subseteq Chain[b] /\ Parent[m] \in Chain[m]
      BY <2>3, <1>1, ChainFacts, TreeAssumption
    <3>2. QED
      BY <3>1, <2>1, <2>5
  <2>7. QED
    BY <2>1, <2>5, <2>6, <1>2
<1>4. QED
  BY <1>3

LEMMA HighestFacts ==
    ASSUME NEW S \in SUBSET Block, S # {}
    PROVE  Highest(S) \in S
<1> DEFINE f == [x \in S |-> Height(x)]
<1>1. IsFiniteSet(S)
  BY FS_Subset, TreeAssumption
<1>2. \A x \in S : f[x] \in Int
  BY ChainFacts
<1>3. \E m \in S : \A x \in S : f[x] =< f[m]
  <2> HIDE DEF f
  <2> QED
    BY <1>1, <1>2, MaxExists
<1>4. \E m \in S : \A x \in S : Height(x) =< Height(m)
  BY <1>3
<1>5. QED
  BY <1>4 DEF Highest

(* At most k blocks of one chain are among its k lowest. *)
LEMMA LowestFacts ==
    ASSUME NEW b \in Block, NEW S \in SUBSET Chain[b], NEW k \in Nat
    PROVE  Lowest(S, k) \in SUBSET S /\ Cardinality(Lowest(S, k)) =< k
<1> DEFINE L == Lowest(S, k)
           f == [x \in L |-> Height(x)]
<1>1. L \in SUBSET S /\ S \in SUBSET Block /\ IsFiniteSet(S)
  BY ChainFacts, FS_Subset DEF Lowest
<1>2. CASE L = {}
  BY <1>1, <1>2, FS_EmptySet
<1>3. CASE L # {}
  <2>1. IsFiniteSet(L)
    BY <1>1, FS_Subset
  <2>2. \A x \in L : f[x] \in Int
    BY <1>1, ChainFacts
  <2>3. \E m \in L : \A x \in L : f[x] =< f[m]
    <3> HIDE DEF L, f
    <3> QED
      BY <1>3, <2>1, <2>2, MaxExists
  <2>4. PICK m \in L : \A x \in L : Height(x) =< Height(m)
    BY <2>3
  <2> DEFINE Below == {c \in S : Height(c) < Height(m)}
  <2>5. Cardinality(Below) < k
    BY DEF Lowest
  <2>6. L \ {m} \in SUBSET Below
    <3> SUFFICES ASSUME NEW x \in L, x # m PROVE Height(x) < Height(m)
      BY <1>1
    <3>1. x \in Chain[b] /\ m \in Chain[b]
      BY <1>1
    <3>2. Height(x) # Height(m)
      BY <3>1, HeightsDiffer
    <3>3. Height(x) \in Nat /\ Height(m) \in Nat
      BY <1>1, ChainFacts
    <3>4. QED
      BY <2>4, <3>2, <3>3
  <2>7. IsFiniteSet(Below) /\ Cardinality(Below) \in Nat
    BY <1>1, FS_Subset, FS_CardinalityType
  <2> HIDE DEF L, Below
  <2>8. Cardinality(L \ {m}) =< Cardinality(Below)
    BY <2>6, <2>7, FS_Subset
  <2>9. Cardinality(L \ {m}) = Cardinality(L) - 1 /\ Cardinality(L) \in Nat
    BY <2>1, FS_RemoveElement, FS_CardinalityType
  <2>10. Cardinality(L) =< k
    BY <2>5, <2>7, <2>8, <2>9
  <2>11. QED
    BY <1>1, <2>10 DEF L
<1>4. QED
  BY <1>2, <1>3

LEMMA BestHeaderFacts ==
    ASSUME index \in SUBSET Block, index # {}
    PROVE  pindexBestHeader \in index
<1> DEFINE f == [x \in index |-> Work[x]]
<1>1. IsFiniteSet(index)
  BY FS_Subset, TreeAssumption
<1>2. \A x \in index : f[x] \in Int
  BY WorkAssumption
<1>3. \E m \in index : \A x \in index : f[x] =< f[m]
  <2> HIDE DEF f
  <2> QED
    BY <1>1, <1>2, MaxExists
<1>4. \E m \in index : \A x \in index : Work[x] =< Work[m]
  BY <1>3
<1>5. QED
  BY <1>4 DEF pindexBestHeader

----------------------------------------------------------------------------
(***************************************************************************)
(* The invariant, as a predicate of the tracked state n, the connected     *)
(* peers C and the blocks D on disk, so that it can be carried through the *)
(* functions a handler is composed of.                                     *)
(***************************************************************************)
Syncing(n) == {p \in Peer : n.state[p].fSyncStarted}
Preferred(n) == {p \in Peer : n.state[p].fPreferredDownload}
Downloading(n) == {p \in Peer : n.state[p].vBlocksInFlight # {}}
Protected(n) == {p \in Peer : n.state[p].m_protect}

(* The requests recorded with a peer are those mapBlocksInFlight has for it. *)
Recorded(s, p, map) ==
    /\ s.vBlocksInFlight = {b \in Block : map[b] = p}
    /\ s.nBlocksInFlight = Cardinality(s.vBlocksInFlight)
    /\ s.nBlocksInFlightValidHeaders = Cardinality(s.vBlocksInFlight)

(* What RequestsBounded says, and that ConsiderEviction has a header to ask for. *)
Bounded(s) ==
    /\ Cardinality(s.vBlocksInFlight) =< MaxBlocksInTransitPerPeer
    /\ s.nStallingSince => s.vBlocksInFlight # {}
    /\ s.m_timeout => s.m_work_header # NoBlock

Counted(n) ==
    /\ n.nSyncStarted = Cardinality(Syncing(n))
    /\ n.nPreferredDownload = Cardinality(Preferred(n))
    /\ n.nPeersWithValidatedDownloads = Cardinality(Downloading(n))
    /\ n.nProtected = Cardinality(Protected(n))
    /\ n.nProtected =< MaxProtected

StartsLinked(s, D) == s.pindexLastCommonBlock # NoBlock => Chain[s.pindexLastCommonBlock] \subseteq D

Good(n, C, D) ==
    /\ n \in Net
    /\ \A p \in Peer : /\ Recorded(n.state[p], p, n.mapBlocksInFlight)
                       /\ Bounded(n.state[p])
                       /\ StartsLinked(n.state[p], D)
                       /\ p \notin C => n.state[p] = NewNodeState
    /\ Counted(n)

(* The fields of a node state that the invariant looks at, but for the chain sync. *)
Alike(s, t) ==
    /\ s.fSyncStarted = t.fSyncStarted
    /\ s.fPreferredDownload = t.fPreferredDownload
    /\ s.vBlocksInFlight = t.vBlocksInFlight
    /\ s.nBlocksInFlight = t.nBlocksInFlight
    /\ s.nBlocksInFlightValidHeaders = t.nBlocksInFlightValidHeaders
    /\ s.nStallingSince = t.nStallingSince
    /\ s.m_protect = t.m_protect
    /\ s.pindexLastCommonBlock = t.pindexLastCommonBlock

(* Nothing changes but at p, nor do the requests. *)
Others(n, m, p) ==
    /\ \A q \in Peer \ {p} : m.state[q] = n.state[q]
    /\ m.mapBlocksInFlight = n.mapBlocksInFlight

(* The counters over all peers are left alone. *)
Steady(n, m) ==
    /\ m.nSyncStarted = n.nSyncStarted
    /\ m.nPreferredDownload = n.nPreferredDownload
    /\ m.nPeersWithValidatedDownloads = n.nPeersWithValidatedDownloads
    /\ m.nProtected = n.nProtected

(* The state of one peer changes. *)
LEMMA StateUpdate ==
    ASSUME NEW n \in Net, NEW p \in Peer, NEW s \in NodeState,
           NEW m, m = [n EXCEPT !.state[p] = s]
    PROVE  /\ m \in Net
           /\ m.state[p] = s
           /\ Others(n, m, p)
           /\ m.mapBlocksInFlight = n.mapBlocksInFlight
           /\ Steady(n, m)
BY DEF Net, Others, Steady

(* A step that leaves these fields, the requests and the counters alone is harmless. *)
LEMMA Quiet ==
    ASSUME NEW C \in SUBSET Peer, NEW D, NEW n, Good(n, C, D), NEW p \in C,
           NEW m \in Net,
           Alike(n.state[p], m.state[p]),
           m.state[p].m_timeout => m.state[p].m_work_header # NoBlock,
           Others(n, m, p), Steady(n, m)
    PROVE  Good(m, C, D)
<1>1. p \in Peer
  OBVIOUS
<1>2. \A q \in Peer : Alike(n.state[q], m.state[q])
  BY Zenon DEF Alike, Others
<1>3. /\ Syncing(m) = Syncing(n) /\ Preferred(m) = Preferred(n)
      /\ Downloading(m) = Downloading(n) /\ Protected(m) = Protected(n)
  BY <1>2, Zenon DEF Syncing, Preferred, Downloading, Protected, Alike
<1>4. Counted(m)
  BY <1>3 DEF Counted, Good, Steady
<1>5. ASSUME NEW q \in Peer
      PROVE  /\ Recorded(m.state[q], q, m.mapBlocksInFlight)
             /\ Bounded(m.state[q])
             /\ StartsLinked(m.state[q], D)
             /\ q \notin C => m.state[q] = NewNodeState
  <2>1. CASE q = p
    <3>1. /\ Recorded(n.state[p], p, n.mapBlocksInFlight) /\ Bounded(n.state[p])
          /\ StartsLinked(n.state[p], D) /\ m.mapBlocksInFlight = n.mapBlocksInFlight
      BY <1>1 DEF Good, Others
    <3>2. Recorded(m.state[p], p, m.mapBlocksInFlight) /\ StartsLinked(m.state[p], D)
      BY ONLY <3>1, Alike(n.state[p], m.state[p]), Zenon DEF Alike, Recorded, StartsLinked
    <3>3. Bounded(m.state[p])
      BY <3>1, Zenon DEF Alike, Bounded
    <3>4. QED
      BY <2>1, <3>2, <3>3
  <2>2. CASE q # p
    BY <2>2 DEF Good, Others
  <2>3. QED
    BY <2>1, <2>2
<1>6. QED
  BY <1>4, <1>5 DEF Good

LEMMA DisconnectGood ==
    ASSUME NEW C \in SUBSET Peer, NEW D, NEW n, Good(n, C, D), NEW p \in C
    PROVE  /\ Good(Disconnect(n, p), C, D)
           /\ Disconnect(n, p).mapBlocksInFlight = n.mapBlocksInFlight
<1> DEFINE s == [n.state[p] EXCEPT !.fDisconnect = TRUE]
<1>1. n \in Net /\ n.state[p] \in NodeState
  BY DEF Good, Net
<1>2. s \in NodeState /\ Alike(n.state[p], s) /\ s.m_timeout = n.state[p].m_timeout
      /\ s.m_work_header = n.state[p].m_work_header
  BY <1>1, Zenon DEF NodeState, Alike
<1>3. Disconnect(n, p) = [n EXCEPT !.state[p] = s]
  BY DEF Disconnect
<1>4. n.state[p].m_timeout => n.state[p].m_work_header # NoBlock
  BY DEF Good, Bounded
<1> HIDE DEF s
<1>5. QED
  BY <1>1, <1>2, <1>3, <1>4, StateUpdate, Quiet

LEMMA GetHeadersGood ==
    ASSUME NEW C \in SUBSET Peer, NEW D, NEW n, Good(n, C, D), NEW p \in C, NEW b \in Block
    PROVE  /\ Good(GetHeaders(n, p, b), C, D)
           /\ GetHeaders(n, p, b).mapBlocksInFlight = n.mapBlocksInFlight
           /\ GetHeaders(n, p, b).state = n.state
<1> DEFINE m == [n EXCEPT !.asked[p] = @ \cup {b}]
<1>1. n \in Net
  BY DEF Good
<1>2. /\ m \in Net /\ m.state = n.state
      /\ m.mapBlocksInFlight = n.mapBlocksInFlight
      /\ Others(n, m, p) /\ Steady(n, m)
  BY <1>1 DEF Net, Others, Steady
<1>3. Alike(n.state[p], n.state[p]) /\ (n.state[p].m_timeout => n.state[p].m_work_header # NoBlock)
  BY DEF Alike, Good, Bounded
<1>4. GetHeaders(n, p, b) = m \/ GetHeaders(n, p, b) = n
  BY DEF GetHeaders
<1> HIDE DEF m
<1>5. Good(m, C, D)
  BY <1>2, <1>3, Quiet
<1>6. QED
  BY <1>2, <1>4, <1>5

(* The counter x becomes y when a peer it counts if c is counted if d. *)
Moves(x, y, c, d) ==
    /\ (c <=> d) => y = x
    /\ c /\ ~d => y = x - 1
    /\ ~c /\ d => y = x + 1

(* What a set of peers counts when only p may have changed sides. *)
LEMMA CountChange ==
    ASSUME NEW S \in SUBSET Peer, NEW T \in SUBSET Peer, NEW p \in Peer,
           S \ {p} = T \ {p}
    PROVE  Moves(Cardinality(S), Cardinality(T), p \in S, p \in T)
<1>1. IsFiniteSet(S) /\ IsFiniteSet(T)
  BY PeerAssumption, FS_Subset
<1>2. Cardinality(S \ {p}) = IF p \in S THEN Cardinality(S) - 1 ELSE Cardinality(S)
  BY ONLY <1>1, FS_RemoveElement, Zenon
<1>3. Cardinality(T \ {p}) = IF p \in T THEN Cardinality(T) - 1 ELSE Cardinality(T)
  BY ONLY <1>1, FS_RemoveElement, Zenon
<1>4. Cardinality(S) \in Nat /\ Cardinality(T) \in Nat
  BY ONLY <1>1, FS_CardinalityType
<1>5. QED
  BY <1>2, <1>3, <1>4 DEF Moves

(* A counter that is exact stays so when it moves with the peer. *)
LEMMA CounterMoves ==
    ASSUME NEW S \in SUBSET Peer, NEW T \in SUBSET Peer, NEW p \in Peer,
           S \ {p} = T \ {p}, NEW y, Moves(Cardinality(S), y, p \in S, p \in T)
    PROVE  y = Cardinality(T)
BY CountChange DEF Moves

(* The counters move as the state of a peer changes from s to t. *)
Counts(n, m, s, t) ==
    /\ Moves(n.nSyncStarted, m.nSyncStarted, s.fSyncStarted, t.fSyncStarted)
    /\ Moves(n.nPreferredDownload, m.nPreferredDownload,
             s.fPreferredDownload, t.fPreferredDownload)
    /\ Moves(n.nPeersWithValidatedDownloads, m.nPeersWithValidatedDownloads,
             s.vBlocksInFlight # {}, t.vBlocksInFlight # {})
    /\ Moves(n.nProtected, m.nProtected, s.m_protect, t.m_protect)
    /\ m.nProtected =< MaxProtected

(* What the invariant says of a peer. *)
Fits(s, p, map, C, D) ==
    /\ Recorded(s, p, map) /\ Bounded(s) /\ StartsLinked(s, D)
    /\ p \notin C => s = NewNodeState

(* The peers other than p keep their state and their requests. *)
Elsewhere(n, m, p) ==
    \A q \in Peer \ {p} : /\ m.state[q] = n.state[q]
                          /\ \A b \in Block : m.mapBlocksInFlight[b] = q
                                                 <=> n.mapBlocksInFlight[b] = q

(* A step on the state of p alone that moves the counters as it changes p. *)
LEMMA OneChange ==
    ASSUME NEW C, NEW E, NEW D, NEW n, Good(n, C, D), NEW p \in Peer,
           C \ {p} = E \ {p},
           NEW m \in Net, Elsewhere(n, m, p),
           Fits(m.state[p], p, m.mapBlocksInFlight, E, D),
           Counts(n, m, n.state[p], m.state[p])
    PROVE  Good(m, E, D)
<1>0. Counted(n) /\ Counts(n, m, n.state[p], m.state[p])
  BY DEF Good
<1>1. m.nSyncStarted = Cardinality(Syncing(m))
  <2>1. /\ Syncing(n) \in SUBSET Peer /\ Syncing(m) \in SUBSET Peer
        /\ Syncing(n) \ {p} = Syncing(m) \ {p}
        /\ n.state[p].fSyncStarted <=> p \in Syncing(n)
        /\ m.state[p].fSyncStarted <=> p \in Syncing(m)
    BY ONLY Elsewhere(n, m, p), p \in Peer DEF Syncing, Elsewhere
  <2>2. Moves(Cardinality(Syncing(n)), m.nSyncStarted, p \in Syncing(n), p \in Syncing(m))
    BY ONLY <1>0, <2>1, Zenon DEF Counted, Counts, Moves
  <2>3. QED
    BY ONLY <2>1, <2>2, p \in Peer, CounterMoves
<1>2. m.nPreferredDownload = Cardinality(Preferred(m))
  <2>1. /\ Preferred(n) \in SUBSET Peer /\ Preferred(m) \in SUBSET Peer
        /\ Preferred(n) \ {p} = Preferred(m) \ {p}
        /\ n.state[p].fPreferredDownload <=> p \in Preferred(n)
        /\ m.state[p].fPreferredDownload <=> p \in Preferred(m)
    BY ONLY Elsewhere(n, m, p), p \in Peer DEF Preferred, Elsewhere
  <2>2. Moves(Cardinality(Preferred(n)), m.nPreferredDownload,
              p \in Preferred(n), p \in Preferred(m))
    BY ONLY <1>0, <2>1, Zenon DEF Counted, Counts, Moves
  <2>3. QED
    BY ONLY <2>1, <2>2, p \in Peer, CounterMoves
<1>3. m.nPeersWithValidatedDownloads = Cardinality(Downloading(m))
  <2>1. /\ Downloading(n) \in SUBSET Peer /\ Downloading(m) \in SUBSET Peer
        /\ Downloading(n) \ {p} = Downloading(m) \ {p}
        /\ n.state[p].vBlocksInFlight # {} <=> p \in Downloading(n)
        /\ m.state[p].vBlocksInFlight # {} <=> p \in Downloading(m)
    BY ONLY Elsewhere(n, m, p), p \in Peer, Zenon DEF Downloading, Elsewhere
  <2>2. Moves(Cardinality(Downloading(n)), m.nPeersWithValidatedDownloads,
              p \in Downloading(n), p \in Downloading(m))
    BY ONLY <1>0, <2>1, Zenon DEF Counted, Counts, Moves
  <2>3. QED
    BY ONLY <2>1, <2>2, p \in Peer, CounterMoves, Zenon
<1>4. m.nProtected = Cardinality(Protected(m))
  <2>1. /\ Protected(n) \in SUBSET Peer /\ Protected(m) \in SUBSET Peer
        /\ Protected(n) \ {p} = Protected(m) \ {p}
        /\ n.state[p].m_protect <=> p \in Protected(n)
        /\ m.state[p].m_protect <=> p \in Protected(m)
    BY ONLY Elsewhere(n, m, p), p \in Peer DEF Protected, Elsewhere
  <2>2. Moves(Cardinality(Protected(n)), m.nProtected, p \in Protected(n), p \in Protected(m))
    BY ONLY <1>0, <2>1, Zenon DEF Counted, Counts, Moves
  <2>3. QED
    BY ONLY <2>1, <2>2, p \in Peer, CounterMoves
<1>5. Counted(m)
  BY <1>1, <1>2, <1>3, <1>4, Zenon DEF Counted, Counts
<1>6. ASSUME NEW q \in Peer \ {p}
      PROVE  /\ Recorded(m.state[q], q, m.mapBlocksInFlight)
             /\ Bounded(m.state[q])
             /\ StartsLinked(m.state[q], D)
             /\ q \notin E => m.state[q] = NewNodeState
  <2>1. {b \in Block : m.mapBlocksInFlight[b] = q} = {b \in Block : n.mapBlocksInFlight[b] = q}
    BY DEF Elsewhere
  <2>2. Recorded(n.state[q], q, n.mapBlocksInFlight) /\ m.state[q] = n.state[q]
    BY Zenon DEF Good, Elsewhere
  <2>3. Recorded(m.state[q], q, m.mapBlocksInFlight)
    BY <2>1, <2>2, Zenon DEF Recorded
  <2>4. QED
    BY <2>2, <2>3 DEF Good
<1>7. QED
  BY <1>5, <1>6 DEF Good, Fits

----------------------------------------------------------------------------
(* The functions that the handlers are composed of *)

(* A node state as InitializeNode makes it. *)
LEMMA NewNodeFacts ==
    /\ NewNodeState \in NodeState
    /\ NewNodeState.vBlocksInFlight = {} /\ NewNodeState.nBlocksInFlight = 0
    /\ NewNodeState.nBlocksInFlightValidHeaders = 0
    /\ ~NewNodeState.fSyncStarted /\ ~NewNodeState.fPreferredDownload
    /\ ~NewNodeState.m_protect /\ ~NewNodeState.m_timeout /\ ~NewNodeState.nStallingSince
    /\ NewNodeState.pindexLastCommonBlock = NoBlock
BY DEF NewNodeState, NodeState

(* It fits a peer that is asked for nothing. *)
LEMMA NewNodeFits ==
    ASSUME NEW p, NEW map, {b \in Block : map[b] = p} = {}, NEW C, NEW D
    PROVE  Fits(NewNodeState, p, map, C, D)
<1>1. Cardinality({}) = 0 /\ MaxBlocksInTransitPerPeer \in Nat
  BY FS_EmptySet, LimitAssumption
<1>2. Recorded(NewNodeState, p, map)
  BY <1>1, NewNodeFacts DEF Recorded
<1>3. Bounded(NewNodeState)
  BY ONLY <1>1, NewNodeFacts DEF Bounded
<1>4. StartsLinked(NewNodeState, D)
  BY ONLY NewNodeFacts DEF StartsLinked
<1>5. QED
  BY ONLY <1>2, <1>3, <1>4 DEF Fits

(* The state the node starts in is good. *)
LEMMA InitGood ==
    ASSUME Init
    PROVE  Good(net, connected, haveData)
<1>1. net = [state |-> [p \in Peer |-> NewNodeState],
             mapBlocksInFlight |-> [b \in Block |-> NoPeer],
             nSyncStarted |-> 0, nPreferredDownload |-> 0,
             nPeersWithValidatedDownloads |-> 0, nProtected |-> 0,
             asked |-> [p \in Peer |-> {}]]
  BY DEF Init
<1>2. net \in Net
  BY ONLY <1>1, NewNodeFacts DEF Net
<1>3. /\ \A p \in Peer : net.state[p] = NewNodeState
      /\ \A b \in Block : net.mapBlocksInFlight[b] = NoPeer
      /\ net.nSyncStarted = 0 /\ net.nPreferredDownload = 0
      /\ net.nPeersWithValidatedDownloads = 0 /\ net.nProtected = 0
  BY ONLY <1>1
<1>4. Counted(net)
  <2>1. Syncing(net) = {} /\ Preferred(net) = {} /\ Downloading(net) = {} /\ Protected(net) = {}
    BY ONLY <1>3, NewNodeFacts DEF Syncing, Preferred, Downloading, Protected
  <2>2. Cardinality({}) = 0 /\ MaxProtected \in Nat
    BY FS_EmptySet, LimitAssumption
  <2>3. QED
    BY ONLY <1>3, <2>1, <2>2 DEF Counted
<1>5. ASSUME NEW p \in Peer
      PROVE  Fits(NewNodeState, p, net.mapBlocksInFlight, connected, haveData)
  <2>1. {b \in Block : net.mapBlocksInFlight[b] = p} = {}
    BY <1>3, PeerAssumption
  <2>2. QED
    BY ONLY <2>1, NewNodeFits
<1>6. QED
  BY ONLY <1>2, <1>3, <1>4, <1>5 DEF Good, Fits

(* The requests to a peer are a finite set. *)
LEMMA RequestFacts ==
    ASSUME NEW C, NEW D, NEW n, Good(n, C, D), NEW p \in Peer
    PROVE  /\ n \in Net /\ n.state[p] \in NodeState
           /\ n.state[p].vBlocksInFlight \in SUBSET Block
           /\ IsFiniteSet(n.state[p].vBlocksInFlight)
           /\ Cardinality(n.state[p].vBlocksInFlight) \in Nat
<1>1. n \in Net /\ n.state[p] \in NodeState
  BY DEF Good, Net
<1>2. n.state[p].vBlocksInFlight \in SUBSET Block
  BY <1>1, Zenon DEF NodeState
<1>3. QED
  BY <1>1, <1>2, FS_Subset, FS_CardinalityType, TreeAssumption

LEMMA ReceivedGood ==
    ASSUME NEW C \in SUBSET Peer, NEW D, NEW n, Good(n, C, D), NEW b \in Block
    PROVE  /\ Good(MarkBlockAsReceived(n, b), C, D)
           /\ \A c \in Block : MarkBlockAsReceived(n, b).mapBlocksInFlight[c]
                                  \in {NoPeer, n.mapBlocksInFlight[c]}
<1> DEFINE p == n.mapBlocksInFlight[b]
           s == n.state[p]
           V == s.vBlocksInFlight \ {b}
           i == s.nBlocksInFlight - 1
           j == s.nBlocksInFlightValidHeaders - 1
           t == [s EXCEPT !.nBlocksInFlightValidHeaders = j, !.vBlocksInFlight = V,
                          !.nBlocksInFlight = i, !.nStallingSince = FALSE]
           f == [n.mapBlocksInFlight EXCEPT ![b] = NoPeer]
           k == n.nPeersWithValidatedDownloads - BoolToInt(j = 0)
           m == MarkBlockAsReceived(n, b)
<1>1. n \in Net /\ p \in Peer \cup {NoPeer}
  BY DEF Good, Net
<1>2. CASE p = NoPeer
  <2>1. m = n
    BY <1>2 DEF MarkBlockAsReceived
  <2>2. QED
    BY <2>1
<1>3. CASE p \in Peer
  <2>0. p # NoPeer
    BY <1>3, PeerAssumption
  <2>1. /\ s \in NodeState /\ IsFiniteSet(s.vBlocksInFlight)
        /\ Cardinality(s.vBlocksInFlight) \in Nat
        /\ s.vBlocksInFlight \in SUBSET Block
    BY <1>3, RequestFacts, Zenon
  <2>2. Recorded(s, p, n.mapBlocksInFlight) /\ Bounded(s) /\ StartsLinked(s, D)
        /\ (p \notin C => s = NewNodeState)
    BY <1>3, Zenon DEF Good
  <2>3. b \in s.vBlocksInFlight
    BY <2>2, Zenon DEF Recorded
  <2>4. m = [n EXCEPT !.state[p] = t, !.nPeersWithValidatedDownloads = k,
                      !.mapBlocksInFlight = f]
    BY <2>0, <1>1 DEF MarkBlockAsReceived, Net
  <2>5. /\ n.nSyncStarted \in Int /\ n.nPreferredDownload \in Int /\ n.nProtected \in Int
        /\ n.nPeersWithValidatedDownloads \in Int
    BY <1>1 DEF Net
  <2>6. V \in SUBSET Block /\ i \in Int /\ j \in Int /\ k \in Int
    <3>1. BoolToInt(j = 0) \in Int
      BY DEF BoolToInt
    <3>2. s.nBlocksInFlight \in Int /\ s.nBlocksInFlightValidHeaders \in Int
      BY <2>1, Zenon DEF NodeState
    <3>3. QED
      BY ONLY <2>1, <2>5, <3>1, <3>2
  <2>7. /\ f \in [Block -> Peer \cup {NoPeer}]
        /\ f[b] = NoPeer /\ \A c \in Block \ {b} : f[c] = n.mapBlocksInFlight[c]
    BY <1>1 DEF Net
  <2>8. n.mapBlocksInFlight[b] = p /\ n.state[p] = s
    OBVIOUS
  <2>9. V = s.vBlocksInFlight \ {b} /\ i = s.nBlocksInFlight - 1
        /\ j = s.nBlocksInFlightValidHeaders - 1
        /\ k = n.nPeersWithValidatedDownloads - BoolToInt(j = 0)
    OBVIOUS
  <2> HIDE DEF p, s, V, i, j, f, k, m
  <2>10. /\ t \in NodeState
         /\ t.vBlocksInFlight = V /\ t.nBlocksInFlight = i
         /\ t.nBlocksInFlightValidHeaders = j /\ t.nStallingSince = FALSE
         /\ t.m_timeout = s.m_timeout /\ t.m_work_header = s.m_work_header
         /\ t.fSyncStarted = s.fSyncStarted /\ t.fPreferredDownload = s.fPreferredDownload
         /\ t.m_protect = s.m_protect
         /\ t.pindexLastCommonBlock = s.pindexLastCommonBlock
    BY ONLY <2>1, <2>6, Zenon DEF NodeState, t
  <2> HIDE DEF t
  <2>11. /\ m \in Net
         /\ m.state[p] = t
         /\ \A q \in Peer \ {p} : m.state[q] = n.state[q]
         /\ m.mapBlocksInFlight = f
         /\ m.nPeersWithValidatedDownloads = k
         /\ m.nSyncStarted = n.nSyncStarted
         /\ m.nPreferredDownload = n.nPreferredDownload
         /\ m.nProtected = n.nProtected
    BY ONLY <1>1, <1>3, <2>4, <2>6, <2>7, <2>10, Zenon DEF Net
  <2>12. /\ IsFiniteSet(V) /\ Cardinality(V) = Cardinality(s.vBlocksInFlight) - 1
         /\ Cardinality(V) \in Nat
    BY <2>1, <2>3, <2>9, FS_RemoveElement, FS_CardinalityType
  <2>13. Recorded(t, p, f)
    <3>1. V = {c \in Block : f[c] = p}
      BY <2>0, <2>2, <2>7, <2>9 DEF Recorded
    <3>2. QED
      BY <3>1, <2>2, <2>9, <2>10, <2>12, Zenon DEF Recorded
  <2>14. Bounded(t) /\ StartsLinked(t, D)
    <3>1. MaxBlocksInTransitPerPeer \in Nat
      BY LimitAssumption
    <3>2. Bounded(t)
      BY ONLY <3>1, <2>1, <2>2, <2>10, <2>12 DEF Bounded
    <3>3. QED
      BY ONLY <3>2, <2>2, <2>10, Zenon DEF StartsLinked
  <2>15. p \in C
    BY <2>2, <2>3 DEF NewNodeState
  <2>16. \A q \in Peer \ {p} : \A c \in Block : f[c] = q <=> n.mapBlocksInFlight[c] = q
    BY <2>7, <2>8, PeerAssumption, Zenon
  <2>17. n.nProtected =< MaxProtected
    BY DEF Good, Counted
  <2>18. Moves(n.nPeersWithValidatedDownloads, k, s.vBlocksInFlight # {}, t.vBlocksInFlight # {})
    <3>1. j = 0 <=> V = {}
      BY <2>2, <2>9, <2>12, FS_EmptySet, Zenon DEF Recorded
    <3>2. QED
      BY ONLY <3>1, <2>3, <2>5, <2>9, <2>10 DEF BoolToInt, Moves
  <2>19. Counts(n, m, s, t)
    BY ONLY <2>10, <2>11, <2>17, <2>18, Zenon DEF Counts, Moves
  <2>20. Good(m, C, D)
    <3>1. Elsewhere(n, m, p)
      BY ONLY <2>11, <2>16, Zenon DEF Elsewhere
    <3>2. Fits(t, p, f, C, D)
      BY ONLY <2>13, <2>14, <2>15 DEF Fits
    <3>3. QED
      BY <1>3, <2>8, <2>11, <2>19, <3>1, <3>2, OneChange, Zenon
  <2>21. QED
    BY <2>7, <2>11, <2>20, Zenon DEF m
<1>4. QED
  BY <1>1, <1>2, <1>3

(* The blocks of F are asked of nobody. *)
Free(n, F) == \A b \in F : ~InFlight(n, b)

(* The requests to a peer leave room for those of F. *)
Room(s, F) == s.nBlocksInFlight + Cardinality(F) =< MaxBlocksInTransitPerPeer

(* Blocks of F alone are asked for in m, and of p. *)
OnlyAsks(n, m, p, F) ==
    /\ \A b \in Block \ F : m.mapBlocksInFlight[b] = n.mapBlocksInFlight[b]
    /\ \A q \in Peer \ {p} : m.state[q] = n.state[q]

LEMMA InFlightGood ==
    ASSUME NEW C \in SUBSET Peer, NEW D, NEW n, Good(n, C, D), NEW p \in C,
           NEW F \in SUBSET Block, Free(n, F), Room(n.state[p], F)
    PROVE  /\ Good(MarkBlocksAsInFlight(n, p, F), C, D)
           /\ OnlyAsks(n, MarkBlocksAsInFlight(n, p, F), p, F)
<1> DEFINE s == n.state[p]
           V == s.vBlocksInFlight \cup F
           i == s.nBlocksInFlight + Cardinality(F)
           j == s.nBlocksInFlightValidHeaders + Cardinality(F)
           t == [s EXCEPT !.nBlocksInFlightValidHeaders = j, !.vBlocksInFlight = V,
                          !.nBlocksInFlight = i]
           f == [b \in Block |-> IF b \in F THEN p ELSE n.mapBlocksInFlight[b]]
           k == n.nPeersWithValidatedDownloads
                  + BoolToInt(F # {} /\ s.nBlocksInFlightValidHeaders = 0)
           m == MarkBlocksAsInFlight(n, p, F)
<1>1. n \in Net /\ p \in Peer /\ p # NoPeer
  BY PeerAssumption, Zenon DEF Good
<1>2. /\ s \in NodeState /\ IsFiniteSet(s.vBlocksInFlight)
      /\ Cardinality(s.vBlocksInFlight) \in Nat
      /\ s.vBlocksInFlight \in SUBSET Block
  BY <1>1, RequestFacts, Zenon
<1>3. IsFiniteSet(F) /\ Cardinality(F) \in Nat
  BY FS_Subset, FS_CardinalityType, TreeAssumption
<1>4. Recorded(s, p, n.mapBlocksInFlight) /\ Bounded(s) /\ StartsLinked(s, D)
  BY <1>1 DEF Good
<1>5. s.vBlocksInFlight \cap F = {}
  BY <1>1, <1>4, Zenon DEF Recorded, InFlight, Free
<1>6. m = [n EXCEPT !.state[p] = t, !.nPeersWithValidatedDownloads = k,
                    !.mapBlocksInFlight = f]
  BY <1>1, Zenon DEF MarkBlocksAsInFlight, Net
<1>7. /\ n.nSyncStarted \in Int /\ n.nPreferredDownload \in Int /\ n.nProtected \in Int
      /\ n.nPeersWithValidatedDownloads \in Int
  BY <1>1 DEF Net
<1>8. V \in SUBSET Block /\ i \in Int /\ j \in Int /\ k \in Int
  <2>1. BoolToInt(F # {} /\ s.nBlocksInFlightValidHeaders = 0) \in Int
    BY DEF BoolToInt
  <2>2. s.nBlocksInFlight \in Int /\ s.nBlocksInFlightValidHeaders \in Int
    BY <1>2, Zenon DEF NodeState
  <2>3. F \in SUBSET Block
    OBVIOUS
  <2>4. QED
    BY ONLY <1>2, <1>3, <1>7, <2>1, <2>2, <2>3
<1>9. /\ f \in [Block -> Peer \cup {NoPeer}]
      /\ \A b \in Block : f[b] = IF b \in F THEN p ELSE n.mapBlocksInFlight[b]
  BY <1>1 DEF Net
<1>10. /\ n.state[p] = s /\ V = s.vBlocksInFlight \cup F
       /\ i = s.nBlocksInFlight + Cardinality(F)
       /\ j = s.nBlocksInFlightValidHeaders + Cardinality(F)
       /\ k = n.nPeersWithValidatedDownloads
                + BoolToInt(F # {} /\ s.nBlocksInFlightValidHeaders = 0)
       /\ i =< MaxBlocksInTransitPerPeer
  BY Zenon DEF Room
<1> HIDE DEF s, V, i, j, f, k, m
<1>11. /\ t \in NodeState
       /\ t.vBlocksInFlight = V /\ t.nBlocksInFlight = i
       /\ t.nBlocksInFlightValidHeaders = j /\ t.nStallingSince = s.nStallingSince
       /\ t.m_timeout = s.m_timeout /\ t.m_work_header = s.m_work_header
       /\ t.fSyncStarted = s.fSyncStarted /\ t.fPreferredDownload = s.fPreferredDownload
       /\ t.m_protect = s.m_protect
       /\ t.pindexLastCommonBlock = s.pindexLastCommonBlock
  BY ONLY <1>2, <1>8, Zenon DEF NodeState, t
<1> HIDE DEF t
<1>12. /\ m \in Net
       /\ m.state[p] = t
       /\ \A q \in Peer \ {p} : m.state[q] = n.state[q]
       /\ m.mapBlocksInFlight = f
       /\ m.nPeersWithValidatedDownloads = k
       /\ m.nSyncStarted = n.nSyncStarted
       /\ m.nPreferredDownload = n.nPreferredDownload
       /\ m.nProtected = n.nProtected
  BY ONLY <1>1, <1>6, <1>8, <1>9, <1>11, Zenon DEF Net
<1>13. /\ IsFiniteSet(V)
       /\ Cardinality(V) = Cardinality(s.vBlocksInFlight) + Cardinality(F)
  <2>1. Cardinality(s.vBlocksInFlight \cap F) = 0
    BY <1>5, FS_EmptySet, Zenon
  <2> DEFINE S == s.vBlocksInFlight
  <2>2. IsFiniteSet(S) /\ Cardinality(S) \in Nat /\ Cardinality(S \cap F) = 0
    BY <2>1, <1>2, Zenon
  <2> HIDE DEF S
  <2>3. /\ IsFiniteSet(S \cup F)
        /\ Cardinality(S \cup F) = Cardinality(S) + Cardinality(F) - Cardinality(S \cap F)
    BY ONLY <2>2, <1>3, FS_Union, Zenon
  <2>4. Cardinality(S \cup F) = Cardinality(S) + Cardinality(F)
    BY ONLY <2>2, <2>3, <1>3
  <2>5. QED
    BY <1>10, <2>3, <2>4, Zenon DEF S
<1>14. Recorded(t, p, f)
  <2>1. V = {c \in Block : f[c] = p}
    BY <1>2, <1>4, <1>9, <1>10, Zenon DEF Recorded
  <2>2. QED
    BY <2>1, <1>4, <1>10, <1>11, <1>13, Zenon DEF Recorded
<1>15. Bounded(t) /\ StartsLinked(t, D)
  BY <1>4, <1>10, <1>11, <1>13, Zenon DEF Bounded, StartsLinked, Recorded
<1>16. \A q \in Peer \ {p} : \A c \in Block : f[c] = q <=> n.mapBlocksInFlight[c] = q
  BY <1>9, PeerAssumption, Zenon DEF InFlight, Free
<1>17. n.nProtected =< MaxProtected
  BY Zenon DEF Good, Counted
<1>18. Moves(n.nPeersWithValidatedDownloads, k, s.vBlocksInFlight # {}, t.vBlocksInFlight # {})
  <2>1. s.nBlocksInFlightValidHeaders = 0 <=> s.vBlocksInFlight = {}
    BY <1>2, <1>4, FS_EmptySet, Zenon DEF Recorded
  <2>2. QED
    BY ONLY <2>1, <1>7, <1>10, <1>11 DEF BoolToInt, Moves
<1>19. Counts(n, m, s, t)
  BY ONLY <1>11, <1>12, <1>17, <1>18, Zenon DEF Counts, Moves
<1>20. Good(m, C, D)
  <2>1. Elsewhere(n, m, p)
    BY ONLY <1>12, <1>16, Zenon DEF Elsewhere
  <2>2. Fits(t, p, f, C, D)
    BY <1>14, <1>15 DEF Fits
  <2>3. QED
    BY <1>1, <1>10, <1>12, <1>19, <2>1, <2>2, OneChange, Zenon
<1>21. QED
  BY <1>9, <1>12, <1>20, Zenon DEF m, OnlyAsks

(* What a node state knows of its peer's chain is no part of the invariant. *)
LEMMA KnowsGood ==
    ASSUME NEW s \in NodeState, NEW b \in Block
    PROVE  /\ Knows(s, b) \in NodeState /\ Alike(s, Knows(s, b))
           /\ Knows(s, b).m_timeout = s.m_timeout
           /\ Knows(s, b).m_work_header = s.m_work_header
           /\ Knows(s, b).pindexBestKnownBlock \in Block
<1>1. CASE Knows(s, b) = s /\ s.pindexBestKnownBlock # NoBlock
  BY <1>1 DEF Alike, NodeState
<1>2. CASE Knows(s, b) = [s EXCEPT !.pindexBestKnownBlock = b]
  BY <1>2 DEF Alike, NodeState
<1>3. QED
  BY <1>1, <1>2 DEF Knows

LEMMA ProcessGood ==
    ASSUME NEW s \in NodeState, NEW known \in SUBSET Block
    PROVE  /\ ProcessBlockAvailability(s, known) \in NodeState
           /\ Alike(s, ProcessBlockAvailability(s, known))
           /\ ProcessBlockAvailability(s, known).m_timeout = s.m_timeout
           /\ ProcessBlockAvailability(s, known).m_work_header = s.m_work_header
<1>1. CASE s.hashLastUnknownBlock \notin known
  BY <1>1 DEF ProcessBlockAvailability, Alike
<1>2. CASE s.hashLastUnknownBlock \in known
  <2> DEFINE r == Knows(s, s.hashLastUnknownBlock)
  <2>1. r \in NodeState /\ Alike(s, r) /\ r.m_timeout = s.m_timeout
        /\ r.m_work_header = s.m_work_header
    BY <1>2, KnowsGood
  <2>2. ProcessBlockAvailability(s, known) = [r EXCEPT !.hashLastUnknownBlock = NoBlock]
    BY <1>2 DEF ProcessBlockAvailability
  <2> HIDE DEF r
  <2>3. QED
    BY <2>1, <2>2 DEF Alike, NodeState
<1>3. QED
  BY <1>1, <1>2

LEMMA AvailabilityGood ==
    ASSUME NEW C \in SUBSET Peer, NEW D, NEW n, Good(n, C, D), NEW p \in C,
           index \in SUBSET Block
    PROVE  /\ Good(Availability(n, p), C, D)
           /\ Availability(n, p).mapBlocksInFlight = n.mapBlocksInFlight
<1> DEFINE s == ProcessBlockAvailability(n.state[p], index)
           m == Availability(n, p)
<1>1. n \in Net /\ n.state[p] \in NodeState /\ p \in Peer
  BY RequestFacts
<1>2. s \in NodeState /\ Alike(n.state[p], s) /\ s.m_timeout = n.state[p].m_timeout
      /\ s.m_work_header = n.state[p].m_work_header
  BY <1>1, ProcessGood
<1>3. m = [n EXCEPT !.state[p] = s]
  BY DEF Availability
<1>4. n.state[p].m_timeout => n.state[p].m_work_header # NoBlock
  BY <1>1, Zenon DEF Good, Bounded
<1> HIDE DEF s, m
<1>5. /\ m \in Net /\ m.state[p] = s /\ Others(n, m, p)
      /\ m.mapBlocksInFlight = n.mapBlocksInFlight /\ Steady(n, m)
  BY ONLY <1>1, <1>2, <1>3, StateUpdate
<1>6. Good(m, C, D)
  BY <1>2, <1>4, <1>5, Quiet
<1>7. QED
  BY <1>5, <1>6 DEF m

LEMMA UpdateGood ==
    ASSUME NEW C \in SUBSET Peer, NEW D, NEW n, Good(n, C, D), NEW p \in C,
           NEW b \in Block, NEW known \in SUBSET Block
    PROVE  /\ Good(UpdateBlockAvailability(n, p, b, known), C, D)
           /\ UpdateBlockAvailability(n, p, b, known).mapBlocksInFlight = n.mapBlocksInFlight
<1> DEFINE s == ProcessBlockAvailability(n.state[p], known)
           t == IF b \in known THEN Knows(s, b) ELSE [s EXCEPT !.hashLastUnknownBlock = b]
           m == UpdateBlockAvailability(n, p, b, known)
<1>1. n \in Net /\ n.state[p] \in NodeState /\ p \in Peer
  BY RequestFacts
<1>2. s \in NodeState /\ Alike(n.state[p], s) /\ s.m_timeout = n.state[p].m_timeout
      /\ s.m_work_header = n.state[p].m_work_header
  BY <1>1, ProcessGood
<1>3. m = [n EXCEPT !.state[p] = t]
  BY DEF UpdateBlockAvailability
<1>4. n.state[p].m_timeout => n.state[p].m_work_header # NoBlock
  BY <1>1, Zenon DEF Good, Bounded
<1> HIDE DEF s, m
<1>5. t \in NodeState /\ Alike(s, t) /\ t.m_timeout = s.m_timeout
      /\ t.m_work_header = s.m_work_header
  <2>1. CASE b \in known
    BY <2>1, <1>2, KnowsGood
  <2>2. CASE b \notin known
    <3>1. t = [s EXCEPT !.hashLastUnknownBlock = b]
      BY <2>2
    <3> HIDE DEF t
    <3>2. QED
      BY <3>1, <1>2 DEF Alike, NodeState
  <2>3. QED
    BY <2>1, <2>2
<1>6. Alike(n.state[p], t)
  BY <1>2, <1>5, Zenon DEF Alike
<1> HIDE DEF t
<1>7. QED
  BY <1>1, <1>2, <1>3, <1>4, <1>5, <1>6, StateUpdate, Quiet DEF m

(* The fields of a node state that no counter but the one of downloads looks at. *)
SameRequests(s, t) ==
    /\ s.vBlocksInFlight = t.vBlocksInFlight
    /\ s.nBlocksInFlight = t.nBlocksInFlight
    /\ s.nBlocksInFlightValidHeaders = t.nBlocksInFlightValidHeaders
    /\ s.nStallingSince = t.nStallingSince
    /\ s.pindexLastCommonBlock = t.pindexLastCommonBlock
    /\ s.m_timeout = t.m_timeout
    /\ s.m_work_header = t.m_work_header

(* A step that keeps the requests and counts what it changes. *)
LEMMA CounterChange ==
    ASSUME NEW C \in SUBSET Peer, NEW D, NEW n, Good(n, C, D), NEW p \in C,
           NEW m \in Net,
           SameRequests(n.state[p], m.state[p]), Others(n, m, p),
           Counts(n, m, n.state[p], m.state[p])
    PROVE  Good(m, C, D)
<1>1. p \in Peer /\ m.mapBlocksInFlight = n.mapBlocksInFlight
  BY Zenon DEF Others
<1>2. /\ Recorded(n.state[p], p, n.mapBlocksInFlight) /\ Bounded(n.state[p])
      /\ StartsLinked(n.state[p], D)
  BY <1>1 DEF Good
<1>3. /\ Recorded(m.state[p], p, m.mapBlocksInFlight) /\ Bounded(m.state[p])
      /\ StartsLinked(m.state[p], D)
  BY ONLY <1>1, <1>2, SameRequests(n.state[p], m.state[p]), Zenon
     DEF SameRequests, Recorded, Bounded, StartsLinked
<1>4. Elsewhere(n, m, p)
  BY ONLY Others(n, m, p) DEF Others, Elsewhere
<1>5. Fits(m.state[p], p, m.mapBlocksInFlight, C, D)
  BY <1>3, Zenon DEF Fits
<1>6. QED
  BY <1>1, <1>4, <1>5, OneChange, Zenon

(* The counters are integers, and no more peers are protected than may be. *)
LEMMA CounterFacts ==
    ASSUME NEW C, NEW D, NEW n, Good(n, C, D)
    PROVE  /\ n.nSyncStarted \in Int /\ n.nPreferredDownload \in Int /\ n.nProtected \in Int
           /\ n.nPeersWithValidatedDownloads \in Int
           /\ n.nProtected =< MaxProtected /\ MaxProtected \in Nat
BY LimitAssumption, Zenon DEF Good, Net, Counted

LEMMA PreferredGood ==
    ASSUME NEW C \in SUBSET Peer, NEW D, NEW n, Good(n, C, D), NEW p \in C
    PROVE  /\ Good(UpdatePreferredDownload(n, p), C, D)
           /\ UpdatePreferredDownload(n, p).mapBlocksInFlight = n.mapBlocksInFlight
<1> DEFINE s == n.state[p]
           c == (p \notin Inbound \/ p \in Whitelisted) /\ p \notin Client
           t == [s EXCEPT !.fPreferredDownload = c]
           a == n.nPreferredDownload - BoolToInt(s.fPreferredDownload) + BoolToInt(c)
           m == UpdatePreferredDownload(n, p)
<1>1. n \in Net /\ s \in NodeState /\ p \in Peer
  BY RequestFacts, Zenon
<1>2. m = [n EXCEPT !.state[p] = t, !.nPreferredDownload = a]
  BY DEF UpdatePreferredDownload
<1>3. a \in Int /\ c \in BOOLEAN
  BY CounterFacts DEF BoolToInt
<1>4. s = n.state[p]
      /\ a = n.nPreferredDownload - BoolToInt(s.fPreferredDownload) + BoolToInt(c)
  OBVIOUS
<1> HIDE DEF s, c, a, m
<1>5. /\ t \in NodeState /\ t.fPreferredDownload = c /\ SameRequests(s, t)
      /\ t.fSyncStarted = s.fSyncStarted /\ t.m_protect = s.m_protect
  BY ONLY <1>1, <1>3 DEF t, NodeState, SameRequests
<1> HIDE DEF t
<1>6. /\ m \in Net /\ m.state[p] = t /\ Others(n, m, p)
      /\ m.mapBlocksInFlight = n.mapBlocksInFlight
      /\ m.nPeersWithValidatedDownloads = n.nPeersWithValidatedDownloads
      /\ m.nSyncStarted = n.nSyncStarted
      /\ m.nPreferredDownload = a
      /\ m.nProtected = n.nProtected
  BY ONLY <1>1, <1>2, <1>3, <1>5, Zenon DEF Net, Others
<1>7. Moves(n.nPreferredDownload, a, s.fPreferredDownload, t.fPreferredDownload)
  <2>1. n.nPreferredDownload \in Int
    BY CounterFacts
  <2>2. QED
    BY ONLY <1>4, <1>5, <2>1 DEF BoolToInt, Moves
<1>8. Counts(n, m, s, t)
  <2>1. n.nProtected =< MaxProtected
    BY CounterFacts
  <2>2. QED
    BY ONLY <1>5, <1>6, <1>7, <2>1, Zenon DEF Counts, Moves, SameRequests
<1>9. QED
  BY <1>4, <1>5, <1>6, <1>8, CounterChange, Zenon DEF m

LEMMA VersionGood ==
    ASSUME NEW C \in SUBSET Peer, NEW D, NEW n, Good(n, C, D), NEW p \in C
    PROVE  /\ Good([n EXCEPT !.state[p].nVersion = TRUE], C, D)
           /\ [n EXCEPT !.state[p].nVersion = TRUE].mapBlocksInFlight = n.mapBlocksInFlight
<1> DEFINE s == [n.state[p] EXCEPT !.nVersion = TRUE]
           m == [n EXCEPT !.state[p] = s]
<1>1. n \in Net /\ n.state[p] \in NodeState
  BY DEF Good, Net
<1>2. s \in NodeState /\ Alike(n.state[p], s) /\ s.m_timeout = n.state[p].m_timeout
      /\ s.m_work_header = n.state[p].m_work_header
  BY <1>1, Zenon DEF NodeState, Alike
<1>3. [n EXCEPT !.state[p].nVersion = TRUE] = m
  OBVIOUS
<1>4. n.state[p].m_timeout => n.state[p].m_work_header # NoBlock
  BY DEF Good, Bounded
<1> HIDE DEF s
<1>5. Good(m, C, D) /\ m.mapBlocksInFlight = n.mapBlocksInFlight
  BY <1>1, <1>2, <1>4, StateUpdate, Quiet
<1>6. QED
  BY <1>3, <1>5

LEMMA ProtectGood ==
    ASSUME NEW C \in SUBSET Peer, NEW D, NEW n, Good(n, C, D), NEW p \in C
    PROVE  /\ Good(Protect(n, p), C, D)
           /\ Protect(n, p).mapBlocksInFlight = n.mapBlocksInFlight
<1> DEFINE s == n.state[p]
           t == [s EXCEPT !.m_protect = TRUE]
           a == n.nProtected + 1
           m == [n EXCEPT !.state[p] = t, !.nProtected = a]
<1>1. n \in Net /\ s \in NodeState /\ p \in Peer
  BY RequestFacts, Zenon
<1>2. \/ Protect(n, p) = n
      \/ Protect(n, p) = m /\ ~s.m_protect /\ n.nProtected < MaxProtected
  BY DEF Protect
<1>3. a \in Int
  BY CounterFacts
<1>4. s = n.state[p] /\ a = n.nProtected + 1
  OBVIOUS
<1>m. m = [n EXCEPT !.state[p] = t, !.nProtected = a]
  OBVIOUS
<1> HIDE DEF s, a
<1>5. /\ t \in NodeState /\ t.m_protect = TRUE /\ SameRequests(s, t)
      /\ t.fSyncStarted = s.fSyncStarted /\ t.fPreferredDownload = s.fPreferredDownload
  BY ONLY <1>1, Zenon DEF t, NodeState, SameRequests
<1> HIDE DEF t, m
<1>6. /\ m \in Net /\ m.state[p] = t /\ Others(n, m, p)
      /\ m.mapBlocksInFlight = n.mapBlocksInFlight
      /\ m.nPeersWithValidatedDownloads = n.nPeersWithValidatedDownloads
      /\ m.nSyncStarted = n.nSyncStarted
      /\ m.nPreferredDownload = n.nPreferredDownload
      /\ m.nProtected = a
  BY ONLY <1>1, <1>3, <1>m, <1>5, Zenon DEF Net, Others
<1>7. CASE ~s.m_protect /\ n.nProtected < MaxProtected
  <2>1. n.nProtected \in Int /\ MaxProtected \in Nat
    BY CounterFacts
  <2>2. Counts(n, m, s, t)
    BY ONLY <1>4, <1>5, <1>6, <1>7, <2>1 DEF Counts, Moves, SameRequests
  <2>3. Good(m, C, D)
    BY <1>4, <1>5, <1>6, <2>2, CounterChange, Zenon
  <2>4. QED
    BY <1>2, <1>6, <2>3
<1>8. QED
  BY <1>2, <1>7

LEMMA StartSyncGood ==
    ASSUME NEW C \in SUBSET Peer, NEW D, NEW n, Good(n, C, D), NEW p \in C,
           index \in SUBSET Block, index # {}
    PROVE  /\ Good(StartSync(n, p), C, D)
           /\ StartSync(n, p).mapBlocksInFlight = n.mapBlocksInFlight
<1> DEFINE start == IF pindexBestHeader = Genesis THEN Genesis ELSE Parent[pindexBestHeader]
           g == GetHeaders(n, p, start)
           s == g.state[p]
           t == [s EXCEPT !.fSyncStarted = TRUE, !.nHeadersSyncTimeout = "set"]
           a == g.nSyncStarted + 1
           m == [g EXCEPT !.state[p] = t, !.nSyncStarted = a]
<1>1. start \in Block
  BY BestHeaderFacts, TreeAssumption
<1> HIDE DEF start
<1>3. Good(g, C, D) /\ g.mapBlocksInFlight = n.mapBlocksInFlight /\ g.state = n.state
  BY <1>1, GetHeadersGood
<1> HIDE DEF g
<1>4. g \in Net /\ s \in NodeState /\ p \in Peer
  BY <1>3, RequestFacts, Zenon
<1>5. a \in Int
  BY <1>3, CounterFacts
<1>6. s = g.state[p] /\ a = g.nSyncStarted + 1 /\ n.state[p] = s
  BY <1>3, Zenon
<1>m. m = [g EXCEPT !.state[p] = t, !.nSyncStarted = a]
  OBVIOUS
<1>2. \/ StartSync(n, p) = n
      \/ StartSync(n, p) = m /\ ~n.state[p].fSyncStarted
  <2>1. [g EXCEPT !.state[p].fSyncStarted = TRUE,
                  !.state[p].nHeadersSyncTimeout = "set",
                  !.nSyncStarted = @ + 1] = m
    BY <1>4, Zenon DEF Net
  <2>2. QED
    BY <2>1 DEF StartSync, g, start
<1> HIDE DEF s, a
<1>7. /\ t \in NodeState /\ t.fSyncStarted = TRUE /\ SameRequests(s, t)
      /\ t.m_protect = s.m_protect /\ t.fPreferredDownload = s.fPreferredDownload
  BY ONLY <1>4, Zenon DEF t, NodeState, SameRequests
<1> HIDE DEF t, m
<1>8. /\ m \in Net /\ m.state[p] = t /\ Others(g, m, p)
      /\ m.mapBlocksInFlight = g.mapBlocksInFlight
      /\ m.nPeersWithValidatedDownloads = g.nPeersWithValidatedDownloads
      /\ m.nSyncStarted = a
      /\ m.nPreferredDownload = g.nPreferredDownload
      /\ m.nProtected = g.nProtected
  BY ONLY <1>4, <1>5, <1>m, <1>7, Zenon DEF Net, Others
<1>9. CASE ~s.fSyncStarted
  <2>0. g.nSyncStarted \in Int /\ g.nProtected =< MaxProtected
    BY <1>3, CounterFacts
  <2>1. Counts(g, m, s, t)
    BY ONLY <1>6, <1>7, <1>8, <1>9, <2>0, Zenon DEF Counts, Moves, SameRequests
  <2>2. Good(m, C, D)
    BY <1>3, <1>6, <1>7, <1>8, <2>1, CounterChange, Zenon
  <2>3. QED
    BY <1>2, <1>3, <1>8, <2>2, Zenon
<1>10. QED
  BY <1>2, <1>6, <1>9, Zenon

LEMMA HeadersSyncGood ==
    ASSUME NEW C \in SUBSET Peer, NEW D, NEW n, Good(n, C, D), NEW p \in C, NEW T
    PROVE  /\ Good(HeadersSyncState(n, p, T), C, D)
           /\ HeadersSyncState(n, p, T).mapBlocksInFlight = n.mapBlocksInFlight
<1> DEFINE s == n.state[p]
           t == [s EXCEPT !.fSyncStarted = FALSE, !.nHeadersSyncTimeout = "zero"]
           u == [s EXCEPT !.nHeadersSyncTimeout = "max"]
           a == n.nSyncStarted - 1
           m == [n EXCEPT !.state[p] = t, !.nSyncStarted = a]
           k == [n EXCEPT !.state[p] = u]
<1>1. n \in Net /\ s \in NodeState /\ p \in Peer
  BY RequestFacts, Zenon
<1>2. \/ HeadersSyncState(n, p, T) = n \/ HeadersSyncState(n, p, T) = k
      \/ HeadersSyncState(n, p, T) = m /\ s.fSyncStarted
  <2>1. [n EXCEPT !.state[p].fSyncStarted = FALSE,
                  !.nSyncStarted = @ - 1,
                  !.state[p].nHeadersSyncTimeout = "zero"] = m
    BY <1>1, Zenon DEF Net
  <2>2. [n EXCEPT !.state[p].nHeadersSyncTimeout = "max"] = k
    BY <1>1 DEF Net
  <2>3. QED
    BY <2>1, <2>2 DEF HeadersSyncState, HeadersTimeout
<1>3. a \in Int
  BY CounterFacts
<1>4. s = n.state[p] /\ a = n.nSyncStarted - 1
  OBVIOUS
<1>m. m = [n EXCEPT !.state[p] = t, !.nSyncStarted = a] /\ k = [n EXCEPT !.state[p] = u]
  OBVIOUS
<1>5. s.m_timeout => s.m_work_header # NoBlock
  BY <1>1, Zenon DEF Good, Bounded
<1> HIDE DEF s, a
<1>6. /\ t \in NodeState /\ t.fSyncStarted = FALSE /\ SameRequests(s, t)
      /\ t.m_protect = s.m_protect /\ t.fPreferredDownload = s.fPreferredDownload
  BY ONLY <1>1, Zenon DEF t, NodeState, SameRequests
<1>7. u \in NodeState /\ Alike(s, u) /\ u.m_timeout = s.m_timeout
      /\ u.m_work_header = s.m_work_header
  BY ONLY <1>1 DEF u, NodeState, Alike
<1> HIDE DEF t, u, m, k
<1>8. Good(k, C, D) /\ k.mapBlocksInFlight = n.mapBlocksInFlight
  BY <1>1, <1>4, <1>m, <1>5, <1>7, StateUpdate, Quiet
<1>9. /\ m \in Net /\ m.state[p] = t /\ Others(n, m, p)
      /\ m.mapBlocksInFlight = n.mapBlocksInFlight
      /\ m.nPeersWithValidatedDownloads = n.nPeersWithValidatedDownloads
      /\ m.nSyncStarted = a
      /\ m.nPreferredDownload = n.nPreferredDownload
      /\ m.nProtected = n.nProtected
  BY ONLY <1>1, <1>3, <1>m, <1>6, Zenon DEF Net, Others
<1>10. CASE s.fSyncStarted
  <2>0. n.nSyncStarted \in Int /\ n.nProtected =< MaxProtected
    BY CounterFacts
  <2>1. Counts(n, m, s, t)
    BY ONLY <1>4, <1>6, <1>9, <1>10, <2>0, Zenon DEF Counts, Moves, SameRequests
  <2>2. Good(m, C, D)
    BY <1>4, <1>6, <1>9, <2>1, CounterChange, Zenon
  <2>3. QED
    BY <1>2, <1>8, <1>9, <2>2, Zenon
<1>11. QED
  BY <1>2, <1>8, <1>10

LEMMA InsufficientWorkGood ==
    ASSUME NEW C \in SUBSET Peer, NEW D, NEW n, Good(n, C, D), NEW p \in C, NEW full
    PROVE  /\ Good(InsufficientWork(n, p, full), C, D)
           /\ InsufficientWork(n, p, full).mapBlocksInFlight = n.mapBlocksInFlight
BY DisconnectGood, Zenon DEF InsufficientWork

LEMMA MoreHeadersGood ==
    ASSUME NEW C \in SUBSET Peer, NEW D, NEW n, Good(n, C, D), NEW p \in C,
           NEW last \in Block, NEW full, NEW again
    PROVE  /\ Good(MoreHeaders(n, p, last, full, again), C, D)
           /\ MoreHeaders(n, p, last, full, again).mapBlocksInFlight = n.mapBlocksInFlight
<1> DEFINE g == GetHeaders(n, p, last)
           h == Height(last)
           t == [g.state[p] EXCEPT !.nLastHeightRequests = h]
           m == [g EXCEPT !.state[p] = t]
<1>1. Good(g, C, D) /\ g.mapBlocksInFlight = n.mapBlocksInFlight
  BY GetHeadersGood
<1>2. h \in Nat
  BY ChainFacts, Zenon
<1>3. MoreHeaders(n, p, last, full, again) \in {n, m}
  BY DEF MoreHeaders
<1> HIDE DEF g, h
<1>4. g \in Net /\ g.state[p] \in NodeState /\ p \in Peer
  BY <1>1, RequestFacts, Zenon
<1>5. g.state[p].m_timeout => g.state[p].m_work_header # NoBlock
  BY <1>1, <1>4, Zenon DEF Good, Bounded
<1>6. t \in NodeState /\ Alike(g.state[p], t) /\ t.m_timeout = g.state[p].m_timeout
      /\ t.m_work_header = g.state[p].m_work_header
  <2> DEFINE s == g.state[p]
  <2>1. s \in NodeState /\ t = [s EXCEPT !.nLastHeightRequests = h]
    BY <1>4
  <2> HIDE DEF s, t
  <2>2. /\ t \in NodeState /\ Alike(s, t) /\ t.m_timeout = s.m_timeout
        /\ t.m_work_header = s.m_work_header
    BY ONLY <1>2, <2>1 DEF NodeState, Alike
  <2>3. QED
    BY <2>2, Zenon DEF s
<1>7. m = [g EXCEPT !.state[p] = t]
  OBVIOUS
<1> HIDE DEF t, m
<1>8. Good(m, C, D) /\ m.mapBlocksInFlight = g.mapBlocksInFlight
  BY <1>1, <1>4, <1>5, <1>6, <1>7, StateUpdate, Quiet
<1>9. QED
  BY <1>1, <1>3, <1>8, Zenon

LEMMA EvictionGood ==
    ASSUME NEW C \in SUBSET Peer, NEW D, NEW n, Good(n, C, D), NEW p \in C, NEW T,
           tip \in Block
    PROVE  /\ Good(ConsiderEviction(n, p, T), C, D)
           /\ ConsiderEviction(n, p, T).mapBlocksInFlight = n.mapBlocksInFlight
<1> DEFINE s == n.state[p]
           w == s.m_work_header
           t(timeout, header, sent) ==
               [s EXCEPT !.m_timeout = timeout, !.m_work_header = header,
                         !.m_sent_getheaders = sent]
           m(timeout, header, sent) == [n EXCEPT !.state[p] = t(timeout, header, sent)]
           from == IF w = Genesis THEN tip ELSE Parent[w]
<1>1. n \in Net /\ s \in NodeState /\ p \in Peer
  BY RequestFacts, Zenon
<1>2. s.m_timeout => w # NoBlock
  BY <1>1, Zenon DEF Good, Bounded
<1>3. w \in Block \cup {NoBlock}
  BY ONLY <1>1, Zenon DEF NodeState
<1>4. \/ ConsiderEviction(n, p, T) \in {n, Disconnect(n, p), m(FALSE, NoBlock, FALSE),
                                        m(TRUE, tip, FALSE)}
      \/ s.m_timeout /\ ConsiderEviction(n, p, T) = GetHeaders(m(TRUE, w, TRUE), p, from)
  <2>1. ASSUME NEW timeout, NEW header, NEW sent
        PROVE  [n EXCEPT !.state[p].m_timeout = timeout,
                         !.state[p].m_work_header = header,
                         !.state[p].m_sent_getheaders = sent] = m(timeout, header, sent)
    BY <1>1, Zenon DEF Net
  <2> HIDE DEF m
  <2>2. QED
    BY <2>1, Zenon DEF ConsiderEviction
<1>5. ASSUME NEW timeout \in BOOLEAN, NEW header \in Block \cup {NoBlock}, NEW sent \in BOOLEAN,
             timeout => header # NoBlock
      PROVE  /\ Good(m(timeout, header, sent), C, D)
             /\ m(timeout, header, sent).mapBlocksInFlight = n.mapBlocksInFlight
  <2> DEFINE u == t(timeout, header, sent)
             k == m(timeout, header, sent)
  <2>1. k = [n EXCEPT !.state[p] = u] /\ s = n.state[p]
    OBVIOUS
  <2>2. u = [s EXCEPT !.m_timeout = timeout, !.m_work_header = header,
                      !.m_sent_getheaders = sent]
    OBVIOUS
  <2> HIDE DEF s, t, m, u, k
  <2>3. u \in NodeState /\ Alike(s, u) /\ u.m_timeout = timeout /\ u.m_work_header = header
    BY ONLY <1>1, <1>5, <2>2, Zenon DEF NodeState, Alike
  <2>4. QED
    BY <1>1, <1>5, <2>1, <2>3, StateUpdate, Quiet DEF k
<1> DEFINE reset == m(FALSE, NoBlock, FALSE)
           chase == m(TRUE, tip, FALSE)
           ask == m(TRUE, w, TRUE)
           e == ConsiderEviction(n, p, T)
<1>6. \/ e = n \/ e = Disconnect(n, p) \/ e = reset \/ e = chase
      \/ s.m_timeout /\ e = GetHeaders(ask, p, from)
  BY <1>4
<1>7. /\ Good(reset, C, D) /\ reset.mapBlocksInFlight = n.mapBlocksInFlight
      /\ Good(chase, C, D) /\ chase.mapBlocksInFlight = n.mapBlocksInFlight
  <2> HIDE DEF m
  <2> QED
    BY <1>5, TreeAssumption, Zenon
<1>8. ASSUME s.m_timeout
      PROVE  from \in Block /\ Good(ask, C, D) /\ ask.mapBlocksInFlight = n.mapBlocksInFlight
  <2>1. w \in Block
    BY <1>2, <1>3, <1>8, Zenon
  <2>2. from \in Block
    BY <2>1, TreeAssumption
  <2> HIDE DEF m, from, w
  <2>3. QED
    BY <1>5, <2>1, <2>2, TreeAssumption, Zenon
<1> HIDE DEF m, from, w, s, reset, chase, ask, e
<1>9. CASE s.m_timeout /\ e = GetHeaders(ask, p, from)
  BY <1>8, <1>9, GetHeadersGood DEF e
<1>10. CASE e = Disconnect(n, p)
  BY <1>10, DisconnectGood DEF e
<1>11. QED
  BY <1>6, <1>7, <1>9, <1>10, Zenon DEF e
=============================================================================
