----------------------------- MODULE ChainSearch -----------------------------
(***************************************************************************)
(* CChain::FindEarliestAtLeast: the binary search for a block time on the  *)
(* active chain, one step per round of its loop.  The rescan of the wallet *)
(* and the pruneblockchain RPC call it, holding cs_main.                   *)
(***************************************************************************)
EXTENDS Integers, FiniteSets

CONSTANTS
    MaxHeight,      \* bound on the height of the active chain
    MaxTime         \* bound on the block times and on nTime

VARIABLES
    blockTime,      \* GetBlockTime of the active chain's blocks, by height
    nTime,          \* the argument
    pc,             \* "enter", "loop" or "returned"
    loHeight, hiHeight,
    result          \* the height of the block returned, -1 for nullptr

vars == <<blockTime, nTime, pc, loHeight, hiHeight, result>>

Height == CHOOSE h \in DOMAIN blockTime : \A g \in DOMAIN blockTime : g <= h

\* GetMedianTimePast of the block at height h.
MedianTimePast(time, h) ==
    LET span == {g \in 0 .. h : g > h - 11}
        rank == Cardinality(span) \div 2
    IN  CHOOSE t \in 0 .. MaxTime :
            /\ Cardinality({g \in span : time[g] < t}) <= rank
            /\ Cardinality({g \in span : time[g] <= t}) > rank

\* The check of ContextualCheckBlockHeader: times may go back, but not below the median.
TimesAccepted(time) ==
    \A h \in DOMAIN time \ {0} : time[h] > MedianTimePast(time, h - 1)

Init ==
    /\ \E h \in 0 .. MaxHeight :
           blockTime \in {time \in [0 .. h -> 0 .. MaxTime] : TimesAccepted(time)}
    /\ nTime \in 0 .. MaxTime
    /\ pc = "enter" /\ loHeight = 0 /\ hiHeight = 0 /\ result = -1

Return(h) == pc' = "returned" /\ result' = h

\* The two early returns, or the start of the loop.
Enter ==
    /\ pc = "enter"
    /\ IF blockTime[0] > nTime \/ blockTime[Height] < nTime
       THEN Return(-1) /\ UNCHANGED hiHeight
       ELSE pc' = "loop" /\ hiHeight' = Height /\ UNCHANGED result
    /\ UNCHANGED <<blockTime, nTime, loHeight>>

\* One round.  Once hiHeight = loHeight + 1 a round may change nothing.
Halve ==
    /\ pc = "loop" /\ loHeight < hiHeight
    /\ LET mHeight == (loHeight + hiHeight) \div 2
       IN  IF blockTime[mHeight] < nTime
           THEN loHeight' = mHeight /\ UNCHANGED hiHeight
           ELSE hiHeight' = mHeight /\ UNCHANGED loHeight
    /\ UNCHANGED <<blockTime, nTime, pc, result>>

Found ==
    /\ pc = "loop" /\ loHeight >= hiHeight
    /\ Return(hiHeight)
    /\ UNCHANGED <<blockTime, nTime, loHeight, hiHeight>>

Next == Enter \/ Halve \/ Found

Spec == Init /\ [][Next]_vars

\* The search runs in one thread that nothing interrupts.
FairSpec == Spec /\ WF_vars(Next)

-----------------------------------------------------------------------------
(***************************************************************************)
(* The search returns: CChain promises to "find the earliest block with    *)
(* timestamp equal or greater than the given".                             *)
(***************************************************************************)
SearchReturns == <>(pc = "returned")
=============================================================================
