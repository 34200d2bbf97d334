----------------------------- MODULE CoinsView -----------------------------
(***************************************************************************)
(* What the stack of coin views promises: three versions of the set of     *)
(* unspent outputs, the one on disk, the one at the active tip and the one *)
(* of the block being connected or disconnected, with no cache in sight.   *)
(* Every call has exactly its effect on them and is answered from them.    *)
(***************************************************************************)
CONSTANTS Outpoint, Coin, Spent

VARIABLES
    disk, utxo, block,
    call        \* the last call, with its argument and its answer

vars == <<disk, utxo, block, call>>

Init ==
    /\ disk = [o \in Outpoint |-> Spent] /\ utxo = disk /\ block = disk
    /\ call = <<"none">>

GetTip(o) == call' = <<"GetTip", o, utxo[o]>> /\ UNCHANGED <<disk, utxo, block>>

Get(o) == call' = <<"Get", o, block[o]>> /\ UNCHANGED <<disk, utxo, block>>

Add(o, c) ==
    /\ call' = <<"Add", o, c>>
    /\ block' = [block EXCEPT ![o] = c]
    /\ UNCHANGED <<disk, utxo>>

Spend(o) ==
    /\ call' = <<"Spend", o, block[o]>>
    /\ block' = [block EXCEPT ![o] = Spent]
    /\ UNCHANGED <<disk, utxo>>

Commit == call' = <<"Commit">> /\ utxo' = block /\ UNCHANGED <<disk, block>>

Discard == call' = <<"Discard">> /\ block' = utxo /\ UNCHANGED <<disk, utxo>>

Sync == call' = <<"Sync">> /\ disk' = utxo /\ UNCHANGED <<utxo, block>>

Next ==
    \/ \E o \in Outpoint : GetTip(o) \/ Get(o) \/ Spend(o)
    \/ \E o \in Outpoint, c \in Coin : Add(o, c)
    \/ Commit \/ Discard \/ Sync

Spec == Init /\ [][Next]_vars
=============================================================================
