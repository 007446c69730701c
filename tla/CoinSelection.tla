---------------------------- MODULE CoinSelection ----------------------------
(***************************************************************************)
(* Coin selection of lnwallet/wallet.go: selectInputs walks the listed    *)
(* unspent outputs in order, taking every output of the active colour     *)
(* asset and skipping the others, until the taken colour value covers the *)
(* amount; coinSelect adds the change.  A coin is a model value; its      *)
(* colour data (GetTxoData) is CoinValue and CoinAsset.                   *)
(***************************************************************************)
EXTENDS Integers, SequencesExt

CONSTANTS
    CoinValue,     \* [Coins -> Nat]: ColorData.Value of each output
    CoinAsset,     \* [Coins -> Assets]: ColorData.AssetId of each output
    ActiveAsset    \* globallyActiveAssetId (CC_ASSET_ID)

Coins == DOMAIN CoinValue

IsActive(c) == CoinAsset[c] = ActiveAsset

\* A mutant: the bounds check is off by one and the last output is never
\* looked at.
RECURSIVE SelectLoopOffByOne(_, _, _, _, _)
SelectLoopOffByOne(amt, coins, i, satSelected, selected) ==
    IF satSelected >= amt
    THEN [err |-> FALSE, sat |-> satSelected, sel |-> selected]
    ELSE IF i >= Len(coins)
    THEN [err |-> TRUE, sat |-> 0, sel |-> <<>>]
    ELSE IF IsActive(coins[i])
    THEN SelectLoopOffByOne(amt, coins, i + 1, satSelected + CoinValue[coins[i]],
                            Append(selected, coins[i]))
    ELSE SelectLoopOffByOne(amt, coins, i + 1, satSelected, selected)

\* The loop of selectInputs, from index i with satSelected taken so far.
RECURSIVE SelectLoop(_, _, _, _, _)
SelectLoop(amt, coins, i, satSelected, selected) ==
    IF satSelected >= amt
    THEN [err |-> FALSE, sat |-> satSelected, sel |-> selected]
    ELSE IF i > Len(coins)
    THEN [err |-> TRUE, sat |-> 0, sel |-> <<>>]
    ELSE IF IsActive(coins[i])
    THEN SelectLoop(amt, coins, i + 1, satSelected + CoinValue[coins[i]],
                    Append(selected, coins[i]))
    ELSE SelectLoop(amt, coins, i + 1, satSelected, selected)

SelectInputs(amt, coins) == SelectLoop(amt, coins, 1, 0, <<>>)

\* coinSelect: the selected outputs and the change above amt.
CoinSelect(amt, coins) ==
    LET r == SelectInputs(amt, coins)
    IN [err |-> r.err, sel |-> Range(r.sel), change |-> r.sat - amt]

-----------------------------------------------------------------------------
(* The reference: the shortest prefix of the listing whose active-colour  *)
(* value covers amt, and the active outputs in it (spec: "select a        *)
(* minimal prefix whose asset-filtered sum >= our_fund_amt").             *)
ActiveSum(s) == MapThenSumSet(LAMBDA i : IF IsActive(s[i]) THEN CoinValue[s[i]] ELSE 0,
                              DOMAIN s)

MinimalPrefixSelection(amt, coins) ==
    LET covering == {l \in 0..Len(coins) : ActiveSum(SubSeq(coins, 1, l)) >= amt}
        prefix == SubSeq(coins, 1, Min(covering))
    IN IF covering = {}
       THEN [err |-> TRUE, sat |-> 0, sel |-> <<>>]
       ELSE [err |-> FALSE, sat |-> ActiveSum(prefix),
             sel |-> SelectSeq(prefix, IsActive)]
=============================================================================
