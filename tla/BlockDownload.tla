--------------------------- MODULE BlockDownload ---------------------------
(***************************************************************************)
(* Block download: what net_processing.cpp keeps about the peers it syncs  *)
(* with, from which it asks headers and blocks, and when it drops one.     *)
(*                                                                         *)
(* Messages and SendMessages run on the message handler thread, FinalizeNode*)
(* on the socket thread, EvictExtraOutboundPeers on the scheduler, and the *)
(* import of block files on a thread of its own.  An action is what a      *)
(* thread does while it holds cs_main: the handlers of HEADERS and BLOCK   *)
(* let go of it half way, and keep what they go on with in `handling'.  A  *)
(* handler is the composition of the functions it calls, each taking the   *)
(* tracked state `net' to its next value.                                  *)
(*                                                                         *)
(* Every block is valid, none is pruned, and a headers message is a        *)
(* segment of a chain.  The clock is a set of expired timers that          *)
(* SendMessages is called with, and two sets of recent blocks.             *)
(***************************************************************************)
EXTENDS BlockTree

CONSTANTS
    Peer,           \* every connection of a run: a NodeId is never used again
    NoPeer,         \* -1
    Inbound,        \* fInbound
    Manual,         \* m_manual_connection
    Whitelisted,    \* fWhitelisted
    Client,         \* fClient: serves no full chain
    Serves,         \* the tip of the chain that the peer has
    Announced,      \* bounds the blocks that announcements end in
    Prompt,         \* peers that stay, and answer before any timer expires
    Mined,          \* blocks that the node itself may find
    Imported,       \* blocks of the files that are imported at start
    NearToday,      \* blocks of the last 24 hours
    DirectFetch,    \* blocks of the last 20 block intervals
    MinimumChainWork,
    MinBlocksToKeep,
    MaxHeadersResults,
    MaxBlocksToAnnounce,
    MaxBlocksInTransitPerPeer,
    BlockDownloadWindow,
    MaxProtected    \* MAX_OUTBOUND_PEERS_TO_PROTECT_FROM_DISCONNECT

ASSUME PeerAssumption ==
    /\ IsFiniteSet(Peer)
    /\ NoPeer \notin Peer
    /\ {Inbound, Manual, Whitelisted, Client, Prompt} \subseteq SUBSET Peer
    /\ \A p \in Peer : Serves[p] \in Block

ASSUME LimitAssumption ==
    /\ {MaxHeadersResults, MaxBlocksToAnnounce, MaxBlocksInTransitPerPeer,
        BlockDownloadWindow, MaxProtected} \subseteq Nat \ {0}
    /\ {MinimumChainWork, MinBlocksToKeep} \subseteq Nat

VARIABLES
    connected,  \* the keys of mapNodeState
    ready,      \* fSuccessfullyConnected
    gone,       \* the connections that have ended
    net,        \* the tracked state
    index,      \* mapBlockIndex: the blocks whose header is known
    haveData,   \* BLOCK_HAVE_DATA
    tip,        \* chainActive.Tip()
    ibd,        \* IsInitialBlockDownload
    importing,  \* fImporting || fReindex
    handling    \* the message whose handler has let go of cs_main

chain == <<index, haveData, tip, ibd, importing>>

vars == <<connected, ready, gone, net, index, haveData, tip, ibd, importing, handling>>

(* The timers of a peer that SendMessages looks at. *)
Timer == {"stalling", "download", "headers", "chain"}

(* One call acts on one of them at most. *)
Expired == {{}} \cup {{t} : t \in Timer}

(* CNodeState, and the members of CNode that these handlers use. *)
NodeState ==
    [nVersion : BOOLEAN,
     fPreferredDownload : BOOLEAN,
     fSyncStarted : BOOLEAN,
     nHeadersSyncTimeout : {"zero", "set", "max"},
     pindexBestKnownBlock : Block \cup {NoBlock},
     hashLastUnknownBlock : Block \cup {NoBlock},
     pindexLastCommonBlock : Block \cup {NoBlock},
     vBlocksInFlight : SUBSET Block,
     nBlocksInFlight : Int,
     nBlocksInFlightValidHeaders : Int,
     nStallingSince : BOOLEAN,
     m_protect : BOOLEAN,
     m_timeout : BOOLEAN,
     m_work_header : Block \cup {NoBlock},
     m_sent_getheaders : BOOLEAN,
     nLastHeightRequests : Nat,
     fDisconnect : BOOLEAN]

NewNodeState ==
    [nVersion |-> FALSE, fPreferredDownload |-> FALSE, fSyncStarted |-> FALSE,
     nHeadersSyncTimeout |-> "zero",
     pindexBestKnownBlock |-> NoBlock, hashLastUnknownBlock |-> NoBlock,
     pindexLastCommonBlock |-> NoBlock,
     vBlocksInFlight |-> {}, nBlocksInFlight |-> 0,
     nBlocksInFlightValidHeaders |-> 0, nStallingSince |-> FALSE,
     m_protect |-> FALSE, m_timeout |-> FALSE, m_work_header |-> NoBlock,
     m_sent_getheaders |-> FALSE, nLastHeightRequests |-> 0,
     fDisconnect |-> FALSE]

(***************************************************************************)
(* mapNodeState, mapBlocksInFlight and the counters over all peers.        *)
(* asked[p] holds the blocks whose locators the unanswered getheaders to a *)
(* prompt peer carried.                                                    *)
(***************************************************************************)
Net ==
    [state : [Peer -> NodeState],
     mapBlocksInFlight : [Block -> Peer \cup {NoPeer}],
     nSyncStarted : Int,
     nPreferredDownload : Int,
     nPeersWithValidatedDownloads : Int,
     nProtected : Int,
     asked : [Peer -> SUBSET Block]]

(***************************************************************************)
(* A handler between its two holds of cs_main: that of a BLOCK keeps       *)
(* forceProcessing, that of HEADERS whether the message was full.          *)
(***************************************************************************)
Handling == [kind : {"block", "headers"}, peer : Peer, block : Block, flag : BOOLEAN]

Idle == [kind |-> "idle", peer |-> NoPeer]

TypeOK ==
    /\ connected \subseteq Peer
    /\ ready \subseteq connected
    /\ gone \subseteq Peer \ connected
    /\ net \in Net
    /\ index \subseteq Block
    /\ haveData \subseteq index
    /\ tip \in haveData
    /\ ibd \in BOOLEAN
    /\ importing \in BOOLEAN
    /\ handling \in Handling \cup {Idle}

Init ==
    /\ connected = {} /\ ready = {} /\ gone = {}
    /\ net = [state |-> [p \in Peer |-> NewNodeState],
              mapBlocksInFlight |-> [b \in Block |-> NoPeer],
              nSyncStarted |-> 0, nPreferredDownload |-> 0,
              nPeersWithValidatedDownloads |-> 0, nProtected |-> 0,
              asked |-> [p \in Peer |-> {}]]
    /\ index = {Genesis} /\ haveData = {Genesis} /\ tip = Genesis
    /\ ibd = TRUE
    /\ importing = TRUE
    /\ handling = Idle

----------------------------------------------------------------------------
(* The k lowest blocks of a set of blocks of one chain, and the highest. *)
Lowest(S, k) == {b \in S : Cardinality({c \in S : Height(c) < Height(b)}) < k}

Highest(S) == CHOOSE b \in S : \A c \in S : Height(c) =< Height(b)

Fork(a, b) == CHOOSE f \in Block : IsFork(f, a, b)

Linked(b) == Chain[b] \subseteq haveData

pindexBestHeader == CHOOSE b \in index : \A c \in index : Work[c] =< Work[b]

BoolToInt(c) == IF c THEN 1 ELSE 0

IsOutboundDisconnectionCandidate(p) == p \notin Inbound \cup Manual

InFlight(n, b) == n.mapBlocksInFlight[b] # NoPeer

Disconnect(n, p) == [n EXCEPT !.state[p].fDisconnect = TRUE]

(* PushMessage(GETHEADERS, GetLocator(b)) *)
GetHeaders(n, p, b) == IF p \in Prompt THEN [n EXCEPT !.asked[p] = @ \cup {b}] ELSE n

(* Mutant: the stalling clock keeps running. *)
MarkBlockAsReceived_StillStalling(n, b) ==
    LET p == n.mapBlocksInFlight[b]
        s == n.state[p]
        left == s.nBlocksInFlightValidHeaders - 1
    IN  IF p = NoPeer THEN n
        ELSE [n EXCEPT !.state[p] =
                 [s EXCEPT !.nBlocksInFlightValidHeaders = left,
                           !.vBlocksInFlight = @ \ {b},
                           !.nBlocksInFlight = @ - 1],
              !.nPeersWithValidatedDownloads = @ - BoolToInt(left = 0),
              !.mapBlocksInFlight[b] = NoPeer]

MarkBlockAsReceived(n, b) ==
    LET p == n.mapBlocksInFlight[b]
        s == n.state[p]
        left == s.nBlocksInFlightValidHeaders - 1
    IN  IF p = NoPeer THEN n
        ELSE [n EXCEPT !.state[p] =
                 [s EXCEPT !.nBlocksInFlightValidHeaders = left,
                           !.vBlocksInFlight = @ \ {b},
                           !.nBlocksInFlight = @ - 1,
                           !.nStallingSince = FALSE],
              !.nPeersWithValidatedDownloads = @ - BoolToInt(left = 0),
              !.mapBlocksInFlight[b] = NoPeer]

(***************************************************************************)
(* The calls of MarkBlockAsInFlight for every block of D, none of which is *)
(* in flight: both callers look at mapBlocksInFlight before they list a    *)
(* block.  The counters pass 1 when they leave 0.                          *)
(***************************************************************************)
MarkBlocksAsInFlight(n, p, D) ==
    LET s == n.state[p]
    IN  [n EXCEPT !.state[p] =
            [s EXCEPT !.vBlocksInFlight = @ \cup D,
                      !.nBlocksInFlight = @ + Cardinality(D),
                      !.nBlocksInFlightValidHeaders = @ + Cardinality(D)],
         !.nPeersWithValidatedDownloads =
            @ + BoolToInt(D # {} /\ s.nBlocksInFlightValidHeaders = 0),
         !.mapBlocksInFlight = [b \in Block |-> IF b \in D THEN p ELSE @[b]]]

(* pindexBestKnownBlock becomes b when it has no less work. *)
Knows(s, b) ==
    IF \/ s.pindexBestKnownBlock = NoBlock
       \/ Work[b] >= Work[s.pindexBestKnownBlock]
    THEN [s EXCEPT !.pindexBestKnownBlock = b] ELSE s

ProcessBlockAvailability(s, known) ==
    IF s.hashLastUnknownBlock \in known
    THEN [Knows(s, s.hashLastUnknownBlock) EXCEPT !.hashLastUnknownBlock = NoBlock]
    ELSE s

UpdateBlockAvailability(n, p, b, known) ==
    LET s == ProcessBlockAvailability(n.state[p], known)
    IN  [n EXCEPT !.state[p] = IF b \in known THEN Knows(s, b)
                               ELSE [s EXCEPT !.hashLastUnknownBlock = b]]

----------------------------------------------------------------------------
(* Connections *)

InitializeNode(p) ==
    /\ p \notin connected \cup gone
    /\ connected' = connected \cup {p}
    /\ UNCHANGED <<ready, gone, net, chain, handling>>

UpdatePreferredDownload(n, p) ==
    LET preferred == (p \notin Inbound \/ p \in Whitelisted) /\ p \notin Client
    IN  [n EXCEPT !.state[p].fPreferredDownload = preferred,
                  !.nPreferredDownload =
                     @ - BoolToInt(n.state[p].fPreferredDownload) + BoolToInt(preferred)]

(* VERSION: each connection can send one. *)
Version(p) ==
    /\ handling = Idle
    /\ p \in connected /\ ~net.state[p].fDisconnect
    /\ ~net.state[p].nVersion
    /\ net' = [UpdatePreferredDownload(net, p) EXCEPT !.state[p].nVersion = TRUE]
    /\ UNCHANGED <<connected, ready, gone, chain, handling>>

Verack(p) ==
    /\ handling = Idle
    /\ p \in connected \ ready /\ ~net.state[p].fDisconnect
    /\ net.state[p].nVersion
    /\ ready' = ready \cup {p}
    /\ UNCHANGED <<connected, gone, net, chain, handling>>

(* Mutant: the requests to the peer stay in mapBlocksInFlight. *)
FinalizeNode_KeepsRequests(p) ==
    LET s == net.state[p]
    IN  /\ p \in connected
        /\ handling.peer # p
        /\ p \in Prompt => s.fDisconnect
        /\ connected' = connected \ {p}
        /\ ready' = ready \ {p}
        /\ gone' = gone \cup {p}
        /\ net' = [net EXCEPT
              !.nSyncStarted = @ - BoolToInt(s.fSyncStarted),
              !.nPreferredDownload = @ - BoolToInt(s.fPreferredDownload),
              !.nPeersWithValidatedDownloads =
                 @ - BoolToInt(s.nBlocksInFlightValidHeaders # 0),
              !.nProtected = @ - BoolToInt(s.m_protect),
              !.state[p] = NewNodeState,
              !.asked[p] = {}]
        /\ UNCHANGED <<chain, handling>>

(* A peer is deleted when nobody refers to it, its message handler included. *)
FinalizeNode(p) ==
    LET s == net.state[p]
    IN  /\ p \in connected
        /\ handling.peer # p
        /\ p \in Prompt => s.fDisconnect
        /\ connected' = connected \ {p}
        /\ ready' = ready \ {p}
        /\ gone' = gone \cup {p}
        /\ net' = [net EXCEPT
              !.nSyncStarted = @ - BoolToInt(s.fSyncStarted),
              !.mapBlocksInFlight =
                 [b \in Block |-> IF b \in s.vBlocksInFlight THEN NoPeer ELSE @[b]],
              !.nPreferredDownload = @ - BoolToInt(s.fPreferredDownload),
              !.nPeersWithValidatedDownloads =
                 @ - BoolToInt(s.nBlocksInFlightValidHeaders # 0),
              !.nProtected = @ - BoolToInt(s.m_protect),
              !.state[p] = NewNodeState,
              !.asked[p] = {}]
        /\ UNCHANGED <<chain, handling>>

(* The handlers look at a peer that has shaken hands and is not to be dropped. *)
Active(p) == p \in ready /\ ~net.state[p].fDisconnect

----------------------------------------------------------------------------
(* Messages *)

(* Mutant: a block in flight from another peer is fetched as well. *)
DirectFetchBlocks_InFlightToo(n, p, last) ==
    LET missing == Chain[last] \ (Chain[tip] \cup haveData)
    IN  IF tip \in DirectFetch /\ Work[tip] =< Work[last]
        THEN Lowest(missing, MaxBlocksInTransitPerPeer - n.state[p].nBlocksInFlight)
        ELSE {}

(***************************************************************************)
(* The blocks that switching to `last' takes, from the lowest, unless the  *)
(* walk down from `last' gives up before it reaches the active chain.      *)
(***************************************************************************)
DirectFetchBlocks(n, p, last) ==
    LET walk == Chain[last] \ Chain[tip]
        missing == {b \in walk : b \notin haveData /\ ~InFlight(n, b)}
        reached == \A w \in walk :
                      Cardinality({b \in missing : Height(b) > Height(w)})
                         =< MaxBlocksInTransitPerPeer
    IN  IF tip \in DirectFetch /\ Work[tip] =< Work[last] /\ reached
        THEN Lowest(missing, MaxBlocksInTransitPerPeer - n.state[p].nBlocksInFlight)
        ELSE {}

(* Drop an outbound peer whose chain is too short to sync from. *)
InsufficientWork(n, p, full) ==
    IF /\ ibd /\ ~full
       /\ Work[n.state[p].pindexBestKnownBlock] < MinimumChainWork
       /\ IsOutboundDisconnectionCandidate(p)
    THEN Disconnect(n, p) ELSE n

Protect(n, p) ==
    LET s == n.state[p]
    IN  IF /\ ~s.fDisconnect /\ IsOutboundDisconnectionCandidate(p)
           /\ n.nProtected < MaxProtected
           /\ Work[s.pindexBestKnownBlock] >= Work[tip]
           /\ ~s.m_protect
        THEN [n EXCEPT !.state[p].m_protect = TRUE, !.nProtected = @ + 1] ELSE n

(* A full message may have more behind it: ask on, but not twice in 2 minutes. *)
(* Only what prompt peers are asked is kept.                                   *)
MoreHeaders(n, p, last, full, again) ==
    IF p \notin Prompt \/ ~full \/ (n.state[p].nLastHeightRequests = Height(last) /\ ~again) THEN n
    ELSE [GetHeaders(n, p, last) EXCEPT !.state[p].nLastHeightRequests = Height(last)]

(***************************************************************************)
(* The headers of a message that connects are known: the peer's best block *)
(* moves, more headers or blocks are asked for, and the peer is judged by  *)
(* its work.                                                               *)
(***************************************************************************)
AcceptedHeaders(n, p, last, full, again) ==
    LET n1 == UpdateBlockAvailability(n, p, last, index)
        n2 == MoreHeaders(n1, p, last, full, again)
        n3 == MarkBlocksAsInFlight(n2, p, DirectFetchBlocks(n2, p, last))
    IN  Protect(InsufficientWork(n3, p, full), p)

(***************************************************************************)
(* A HEADERS message with the headers of the blocks after `from', up to    *)
(* `last'.  One that does not connect is only remembered.  Those of one    *)
(* that does are stored by ProcessNewBlockHeaders, which lets go of cs_main*)
(* at its end; HeadersAccepted is the rest of the handler.                 *)
(***************************************************************************)
ProcessHeadersMessage(n, p, from, last) ==
    LET nCount == Height(last) - Height(from)
    IN  /\ handling = Idle /\ ~importing
        /\ from \in Chain[last] /\ nCount =< MaxHeadersResults
        /\ UNCHANGED <<connected, ready, gone, haveData, tip, ibd, importing>>
        /\ \/ /\ nCount = 0
              /\ net' = n
              /\ UNCHANGED <<index, handling>>
           \/ /\ nCount > 0 /\ from \notin index /\ nCount < MaxBlocksToAnnounce
              /\ net' = UpdateBlockAvailability(GetHeaders(n, p, pindexBestHeader), p, last, index)
              /\ UNCHANGED <<index, handling>>
           \/ /\ nCount > 0 /\ from \in index
              /\ net' = n
              /\ index' = index \cup Chain[last]
              /\ handling' = [kind |-> "headers", peer |-> p, block |-> last,
                              flag |-> nCount = MaxHeadersResults]

HeadersAccepted ==
    /\ handling.kind = "headers"
    /\ \E again \in BOOLEAN :
          net' = AcceptedHeaders(net, handling.peer, handling.block, handling.flag, again)
    /\ handling' = Idle
    /\ UNCHANGED <<connected, ready, gone, chain>>

Headers(p) ==
    /\ Active(p) /\ p \notin Prompt
    /\ \E last \in Chain[Serves[p]] \cap Announced, from \in Chain[Serves[p]] :
          ProcessHeadersMessage(net, p, from, last)

(* A prompt peer answers a getheaders from the last block it shares with us. *)
AnswerHeaders(p) ==
    /\ Active(p)
    /\ \E locator \in net.asked[p] :
          LET from == Fork(locator, Serves[p])
              sent == Lowest(Chain[Serves[p]] \ Chain[from], MaxHeadersResults)
          IN  ProcessHeadersMessage([net EXCEPT !.asked[p] = @ \ {locator}], p, from,
                                    IF sent = {} THEN from ELSE Highest(sent))

(* INV of a block *)
Inv(p) ==
    /\ handling = Idle /\ Active(p)
    /\ \E b \in IF p \in Prompt THEN {Serves[p]} ELSE Chain[Serves[p]] \cap Announced :
          LET n == UpdateBlockAvailability(net, p, b, index)
          IN  net' = IF b \notin index /\ ~importing /\ ~InFlight(net, b)
                     THEN GetHeaders(n, p, pindexBestHeader) ELSE n
    /\ UNCHANGED <<connected, ready, gone, chain, handling>>

(* ActivateBestChain moves to the chain on disk with the most work. *)
ActivateBestChain ==
    LET linked == {c \in haveData' : Chain[c] \subseteq haveData'}
    IN  tip' \in IF tip \in Best(linked) THEN {tip} ELSE Best(linked)

(* IsInitialBlockDownload is latched to false once it is over. *)
InitialBlockDownload ==
    ibd /\ (importing' \/ Work[tip'] < MinimumChainWork \/ tip' \notin NearToday)

(***************************************************************************)
(* ProcessNewBlock: AcceptBlock stores the block if it was asked for, or if*)
(* its chain may become the active one.                                    *)
(***************************************************************************)
ProcessNewBlock(b, fRequested) ==
    LET accepted ==
            /\ Parent[b] \in index /\ b \notin haveData
            /\ \/ fRequested
               \/ /\ Work[b] >= Work[tip]
                  /\ Height(b) =< Height(tip) + MinBlocksToKeep
                  /\ Work[b] >= MinimumChainWork
    IN  /\ index' = IF Parent[b] \in index THEN index \cup {b} ELSE index
        /\ haveData' = IF accepted THEN haveData \cup {b} ELSE haveData
        /\ ActivateBestChain
        /\ UNCHANGED importing
        /\ ibd' = InitialBlockDownload

(* BLOCK: the block may have been asked from this peer, another, or none. *)
ReceiveBlock(p, b) ==
    /\ handling = Idle /\ Active(p) /\ ~importing
    /\ b \in Chain[Serves[p]] \ {Genesis}
    /\ net' = MarkBlockAsReceived(net, b)
    /\ handling' = [kind |-> "block", peer |-> p, block |-> b, flag |-> InFlight(net, b)]
    /\ UNCHANGED <<connected, ready, gone, chain>>

(* Its handler goes on with forceProcessing as it was. *)
BlockProcessed ==
    /\ handling.kind = "block"
    /\ ProcessNewBlock(handling.block, handling.flag)
    /\ handling' = Idle
    /\ UNCHANGED <<connected, ready, gone, net>>

(* The node's own miner extends its tip: no request is looked at. *)
MineBlock(b) ==
    /\ b \in Mined \ haveData /\ Parent[b] = tip
    /\ ProcessNewBlock(b, TRUE)
    /\ UNCHANGED <<connected, ready, gone, net, handling>>

(***************************************************************************)
(* ThreadImport: LoadExternalBlockFile stores the blocks that connect, the *)
(* best chain is activated, and the guard CImportingNow goes out of scope. *)
(***************************************************************************)
ImportBlock(b) ==
    /\ importing
    /\ b \in Imported \ haveData /\ Parent[b] \in index
    /\ index' = index \cup {b}
    /\ haveData' = haveData \cup {b}
    /\ UNCHANGED <<connected, ready, gone, net, tip, ibd, importing, handling>>

ImportActivates ==
    /\ importing
    /\ UNCHANGED <<connected, ready, gone, net, index, haveData, ibd, importing, handling>>
    /\ ActivateBestChain

ImportEnds ==
    /\ importing /\ tip \in Best({b \in haveData : Linked(b)})
    /\ importing' = FALSE
    /\ UNCHANGED <<connected, ready, gone, net, index, haveData, tip, handling>>
    /\ ibd' = InitialBlockDownload

----------------------------------------------------------------------------
(* SendMessages *)

fFetch(n, p) ==
    \/ n.state[p].fPreferredDownload
    \/ n.nPreferredDownload = 0 /\ p \notin Client

(* Mutant: the locator starts at the best header, so the answer may be empty. *)
StartSync_AtBest(n, p) ==
    IF /\ ~n.state[p].fSyncStarted /\ p \notin Client /\ ~importing
       /\ (n.nSyncStarted = 0 /\ fFetch(n, p)) \/ pindexBestHeader \in NearToday
    THEN [GetHeaders(n, p, pindexBestHeader) EXCEPT
             !.state[p].fSyncStarted = TRUE,
             !.state[p].nHeadersSyncTimeout = "set",
             !.nSyncStarted = @ + 1]
    ELSE n

(* Ask one peer for headers, or every peer once the best header is recent. *)
StartSync(n, p) ==
    IF /\ ~n.state[p].fSyncStarted /\ p \notin Client /\ ~importing
       /\ (n.nSyncStarted = 0 /\ fFetch(n, p)) \/ pindexBestHeader \in NearToday
    THEN LET start == IF pindexBestHeader = Genesis THEN Genesis
                      ELSE Parent[pindexBestHeader]
         IN  [GetHeaders(n, p, start) EXCEPT
                 !.state[p].fSyncStarted = TRUE,
                 !.state[p].nHeadersSyncTimeout = "set",
                 !.nSyncStarted = @ + 1]
    ELSE n

StallingTimeout(n, p, T) == n.state[p].nStallingSince /\ "stalling" \in T

DownloadTimeout(n, p, T) == n.state[p].vBlocksInFlight # {} /\ "download" \in T

(* Our only headers peer is late, and there is another one to turn to. *)
HeadersTimeout(n, p, T) ==
    /\ n.state[p].fSyncStarted /\ n.state[p].nHeadersSyncTimeout # "max"
    /\ pindexBestHeader \notin NearToday
    /\ "headers" \in T
    /\ n.nSyncStarted = 1
    /\ n.nPreferredDownload - BoolToInt(n.state[p].fPreferredDownload) >= 1

(* Mutant: the peer is still counted as a sync peer. *)
HeadersSyncState_StillCounted(n, p, T) ==
    IF HeadersTimeout(n, p, T)
    THEN [n EXCEPT !.state[p].fSyncStarted = FALSE,
                   !.state[p].nHeadersSyncTimeout = "zero"]
    ELSE n

(* What is left of it when the peer is kept. *)
HeadersSyncState(n, p, T) ==
    IF HeadersTimeout(n, p, T)
    THEN [n EXCEPT !.state[p].fSyncStarted = FALSE,
                   !.nSyncStarted = @ - 1,
                   !.state[p].nHeadersSyncTimeout = "zero"]
    ELSE IF n.state[p].fSyncStarted /\ pindexBestHeader \in NearToday
    THEN [n EXCEPT !.state[p].nHeadersSyncTimeout = "max"]
    ELSE n

(* Give an outbound peer behind our tip some time, one getheaders, and then up. *)
ConsiderEviction(n, p, T) ==
    LET s == n.state[p]
        best == s.pindexBestKnownBlock
        reaches(b) == best # NoBlock /\ Work[best] >= Work[b]
        chainSync(timeout, header, sent) ==
            [n EXCEPT !.state[p].m_timeout = timeout,
                      !.state[p].m_work_header = header,
                      !.state[p].m_sent_getheaders = sent]
    IN  IF s.m_protect \/ ~IsOutboundDisconnectionCandidate(p) \/ ~s.fSyncStarted
        THEN n
        ELSE IF reaches(tip)
        THEN IF s.m_timeout THEN chainSync(FALSE, NoBlock, FALSE) ELSE n
        ELSE IF ~s.m_timeout \/ (s.m_work_header # NoBlock /\ reaches(s.m_work_header))
        THEN chainSync(TRUE, tip, FALSE)
        ELSE IF "chain" \notin T THEN n
        ELSE IF s.m_sent_getheaders THEN Disconnect(n, p)
        ELSE GetHeaders(chainSync(TRUE, s.m_work_header, TRUE), p,
                        IF s.m_work_header = Genesis THEN tip ELSE Parent[s.m_work_header])

(***************************************************************************)
(* FindNextBlocksToDownload, from a node state whose availability is       *)
(* processed: the new pindexLastCommonBlock, the blocks to ask for, and the*)
(* peer that keeps the window from moving.                                 *)
(***************************************************************************)
LastCommonBlock(s) ==
    LET best == s.pindexBestKnownBlock
        guess == CHOOSE b \in Chain[tip] :
                    Height(b) = IF Height(best) < Height(tip) THEN Height(best) ELSE Height(tip)
    IN  Fork(IF s.pindexLastCommonBlock = NoBlock THEN guess ELSE s.pindexLastCommonBlock, best)

(* Mutant: any block on disk moves the window, linked or not. *)
FindNextBlocksToDownload_NotLinked(n, p, s, count) ==
    LET common == LastCommonBlock(s)
        nWindowEnd == Height(common) + BlockDownloadWindow
        walk == {b \in Chain[s.pindexBestKnownBlock] \ Chain[common] : Height(b) =< nWindowEnd + 1}
        missing == {b \in walk : b \notin haveData /\ ~InFlight(n, b)}
    IN  [common  |-> Highest({common} \cup (walk \cap haveData)),
         toFetch |-> Lowest({b \in missing : Height(b) =< nWindowEnd}, count),
         staller |-> {}]

FindNextBlocksToDownload(n, p, s, count) ==
    LET common == LastCommonBlock(s)
        nWindowEnd == Height(common) + BlockDownloadWindow
        walk == {b \in Chain[s.pindexBestKnownBlock] \ Chain[common] : Height(b) =< nWindowEnd + 1}
        missing == {b \in walk : b \notin haveData /\ ~InFlight(n, b)}
        toFetch == Lowest({b \in missing : Height(b) =< nWindowEnd}, count)
        visited == {b \in walk : Cardinality({c \in toFetch : Height(c) < Height(b)}) < count}
        waitingfor == {n.mapBlocksInFlight[b] :
                          b \in Lowest({c \in walk : c \notin haveData /\ InFlight(n, c)}, 1)}
    IN  [common  |-> Highest({common} \cup {b \in visited : Linked(b)}),
         toFetch |-> toFetch,
         staller |-> IF toFetch = {} /\ \E b \in missing : Height(b) > nWindowEnd
                     THEN waitingfor \ {p} ELSE {}]

(* The getdata of SendMessages *)
RequestBlocks(n, p) ==
    LET s == ProcessBlockAvailability(n.state[p], index)
        n1 == [n EXCEPT !.state[p] = s]
        found == FindNextBlocksToDownload(n, p, s, MaxBlocksInTransitPerPeer - s.nBlocksInFlight)
        n2 == MarkBlocksAsInFlight([n1 EXCEPT !.state[p].pindexLastCommonBlock = found.common],
                                   p, found.toFetch)
    IN  IF p \in Client \/ ~(fFetch(n, p) \/ ~ibd) \/ s.nBlocksInFlight >= MaxBlocksInTransitPerPeer
        THEN n
        ELSE IF \/ s.pindexBestKnownBlock = NoBlock
                \/ Work[s.pindexBestKnownBlock] < Work[tip]
                \/ Work[s.pindexBestKnownBlock] < MinimumChainWork
        THEN n1
        ELSE [n2 EXCEPT !.state =
                 [q \in Peer |-> IF q \in found.staller /\ n2.state[p].nBlocksInFlight = 0
                                 THEN [@[q] EXCEPT !.nStallingSince = TRUE] ELSE @[q]]]

(* An announced block may have become known since. *)
Availability(n, p) == [n EXCEPT !.state[p] = ProcessBlockAvailability(@, index)]

(* What SendMessages makes of the state when the timers of T have expired. *)
Sent(p, T) ==
    LET n == Availability(StartSync(net, p), p)
    IN  IF \/ StallingTimeout(n, p, T)
           \/ DownloadTimeout(n, p, T)
           \/ HeadersTimeout(n, p, T) /\ p \notin Whitelisted
        THEN Disconnect(n, p)
        ELSE RequestBlocks(ConsiderEviction(HeadersSyncState(n, p, T), p, T), p)

(* The timers that run when SendMessages is called. *)
Armed(p) ==
    LET s == net.state[p]
    IN  {t \in Timer : \/ t = "stalling" /\ s.nStallingSince
                       \/ t = "download" /\ s.vBlocksInFlight # {}
                       \/ t = "headers" /\ s.nHeadersSyncTimeout = "set"
                       \/ t = "chain" /\ s.m_timeout}

SendMessages(p, T) ==
    /\ handling = Idle /\ Active(p) /\ T \subseteq Armed(p)
    /\ p \in Prompt => T = {}
    /\ UNCHANGED <<connected, ready, gone, chain, handling>>
    /\ net' = Sent(p, T)

(* The scheduler drops an outbound peer when there are too many. *)
EvictExtraOutboundPeers(p) ==
    /\ p \in connected /\ IsOutboundDisconnectionCandidate(p)
    /\ ~net.state[p].fDisconnect /\ ~net.state[p].m_protect
    /\ net.state[p].nBlocksInFlight = 0
    /\ net' = Disconnect(net, p)
    /\ UNCHANGED <<connected, ready, gone, chain, handling>>

Next ==
    \/ \E p \in Peer :
          \/ InitializeNode(p)
          \/ Version(p)
          \/ Verack(p)
          \/ FinalizeNode(p)
          \/ Headers(p)
          \/ AnswerHeaders(p)
          \/ Inv(p)
          \/ \E b \in Block : ReceiveBlock(p, b)
          \/ \E T \in Expired : SendMessages(p, T)
          \/ EvictExtraOutboundPeers(p)
    \/ HeadersAccepted
    \/ BlockProcessed
    \/ \E b \in Block : MineBlock(b) \/ ImportBlock(b)
    \/ ImportActivates
    \/ ImportEnds

Spec == Init /\ [][Next]_vars

(* SendMessages has something to do, to start with a peer, or to do about a timer. *)
HasToSend(p) == Active(p) /\ Sent(p, {}) # net

CanStart(p) == Active(p) /\ StartSync(net, p) # net

Late(p, t) ==
    Active(p) /\ (DownloadTimeout(net, p, {t}) \/ HeadersTimeout(net, p, {t}))

(***************************************************************************)
(* What cannot last for ever.  The handler of a message ends, a connection *)
(* to be dropped is dropped, and the files to import end.  A prompt peer   *)
(* connects, shakes hands, and answers every request.  The message handler *)
(* serves the peers in turn, so that no prompt peer is passed over whenever*)
(* it could start to sync, and a timer that stays armed expires.           *)
(***************************************************************************)
Fairness ==
    /\ []<>(handling = Idle)
    /\ []<>~importing
    /\ \A p \in Peer : []<>~(p \in connected /\ net.state[p].fDisconnect)
    /\ \A p \in Prompt :
          /\ []<>(p \in ready \cup gone)
          /\ \A b \in Block :
                []<>~(Active(p) /\ (b \in net.asked[p] \/ net.mapBlocksInFlight[b] = p))
          /\ <>[]~CanStart(p) \/ []<><<CanStart(p) /\ SendMessages(p, {})>>_vars
          /\ []<>~HasToSend(p) \/ []<><<SendMessages(p, {})>>_vars
    /\ \A p \in Peer \ Prompt, t \in {"download", "headers"} :
          []<>~Late(p, t) \/ []<><<Late(p, t) /\ SendMessages(p, {t})>>_vars

FairSpec == Spec /\ Fairness

----------------------------------------------------------------------------
(***************************************************************************)
(* mapBlocksInFlight, the list of blocks of each peer and its two counters *)
(* say the same, and name connected peers only: MarkBlockAsReceived finds  *)
(* the state it asserts, and State(staller) is not null.                   *)
(***************************************************************************)
InFlightConsistent ==
    /\ \A b \in Block : InFlight(net, b) => net.mapBlocksInFlight[b] \in connected
    /\ \A p \in Peer :
          LET s == net.state[p]
          IN  /\ s.vBlocksInFlight = {b \in Block : net.mapBlocksInFlight[b] = p}
              /\ s.nBlocksInFlight = Cardinality(s.vBlocksInFlight)
              /\ s.nBlocksInFlightValidHeaders = Cardinality(s.vBlocksInFlight)

Those(P(_)) == {p \in connected : P(net.state[p])}

(***************************************************************************)
(* The counters over all peers count what they are named for, whatever the *)
(* order in which peers come, start, fail and go: the assertions of        *)
(* FinalizeNode hold.                                                      *)
(***************************************************************************)
CountersExact ==
    /\ net.nSyncStarted = Cardinality(Those(LAMBDA s : s.fSyncStarted))
    /\ net.nPreferredDownload = Cardinality(Those(LAMBDA s : s.fPreferredDownload))
    /\ net.nPeersWithValidatedDownloads = Cardinality(Those(LAMBDA s : s.vBlocksInFlight # {}))
    /\ net.nProtected = Cardinality(Those(LAMBDA s : s.m_protect))
    /\ net.nProtected =< MaxProtected

(***************************************************************************)
(* Nobody is asked for more than MAX_BLOCKS_IN_TRANSIT_PER_PEER blocks, and*)
(* a peer on the stalling clock owes a block: it is not dropped for having *)
(* answered.                                                               *)
(***************************************************************************)
RequestsBounded ==
    \A p \in Peer :
        /\ Cardinality(net.state[p].vBlocksInFlight) =< MaxBlocksInTransitPerPeer
        /\ net.state[p].nStallingSince => net.state[p].vBlocksInFlight # {}

(***************************************************************************)
(* The block the download window starts from is linked: its whole chain is *)
(* on disk, so no block that is missing lies below the window.             *)
(***************************************************************************)
WindowStartsLinked ==
    \A p \in connected :
        net.state[p].pindexLastCommonBlock # NoBlock => Linked(net.state[p].pindexLastCommonBlock)

(***************************************************************************)
(* A block is asked for when it is neither on disk nor asked of a peer.    *)
(***************************************************************************)
NeverAskedTwice ==
    [][\A b \in Block :
          net'.mapBlocksInFlight[b] \notin {NoPeer, net.mapBlocksInFlight[b]} =>
             net.mapBlocksInFlight[b] = NoPeer /\ b \notin haveData]_vars

(***************************************************************************)
(* With one prompt peer the node gets to a chain with as much work as that *)
(* peer's, whatever the other peers do not answer: their requests end when *)
(* they are dropped, and the prompt peer is then asked.                    *)
(***************************************************************************)
CatchesUp == \A p \in Prompt : <>(Work[tip] >= Work[Serves[p]])

=============================================================================
