---------------------------- MODULE ChannelLedger ----------------------------
(***************************************************************************)
(* What the persisted state of one end of a channel promises, whatever    *)
(* protocol produced it: the channel is a ledger of two balances and a    *)
(* set of pending HTLCs, and each committed update only                   *)
(*   - locks new HTLCs, debiting the side that offered them, and           *)
(*   - settles pending HTLCs, crediting the side they pay.                 *)
(* No other movement of funds happens, and the update counter counts the  *)
(* updates.  LightningChannel refines it once per party, with the         *)
(* persisted channelState and the local chain tail as the ledger.         *)
(***************************************************************************)
EXTENDS Integers, FiniteSetsExt

CONSTANTS
    Self,       \* the end whose view this is
    Capacity    \* the funding amount

VARIABLES
    ourBalance, theirBalance,   \* settled balances of Self and of its peer
    htlcs,                      \* pending HTLCs: records with from and Amount
    numUpdates                  \* committed updates so far

vars == <<ourBalance, theirBalance, htlcs, numUpdates>>

Value(S) == MapThenSumSet(LAMBDA h : h.Amount, S)
Offered(S) == {h \in S : h.from = Self}
Received(S) == {h \in S : h.from # Self}

Init ==
    /\ htlcs = {}
    /\ numUpdates = 0
    /\ ourBalance + theirBalance = Capacity

\* One committed update: HTLCs that appear are locked by their sender, HTLCs
\* that disappear are paid to their receiver.
Commit ==
    LET added   == htlcs' \ htlcs
        settled == htlcs \ htlcs'
    IN /\ numUpdates' = numUpdates + 1
       /\ ourBalance' = ourBalance - Value(Offered(added)) + Value(Received(settled))
       /\ theirBalance' = theirBalance - Value(Received(added)) + Value(Offered(settled))

Spec == Init /\ [][Commit]_vars
=============================================================================
