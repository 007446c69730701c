---------------------------- MODULE MCTransactions ----------------------------
(* One call of a transaction builder per state, with every input in a    *)
(* small range.  Coin selection and the funding transaction: every       *)
(* listing order of every subset of four outputs of two colours, every   *)
(* amount up to one above the total, a change of theirs, and every order *)
(* of the three scripts.  The commitment transaction: both balances zero *)
(* or not, and up to two HTLCs each way, of two amounts and two payment  *)
(* hashes, so that outputs tie on value and on script.                    *)
EXTENDS CoinSelection, CommitmentTx

CONSTANTS c1, c2, c3, c4, X, Y

MCCoinValue == (c1 :> 1) @@ (c2 :> 2) @@ (c3 :> 0) @@ (c4 :> 3)
MCCoinAsset == (c1 :> X) @@ (c2 :> Y) @@ (c3 :> X) @@ (c4 :> X)
MCOpReturnScript == <<106>>
MaxAmount == 7
MaxTheirs == 2

\* The channel as Alice and as Bob hold it: keys 1 and 2, CSV delays 5 and 6.
AliceChan == [ourKey |-> 1, theirKey |-> 2, localCsv |-> 5, remoteCsv |-> 6]
BobChan == [ourKey |-> 2, theirKey |-> 1, localCsv |-> 6, remoteCsv |-> 5]
HTLCs == [amount : {1, 2}, rHash : {7, 8}, timeout : {9}]
\* The revocation key and hash of the commitment being built.
RevKey == 3
RevHash == 4

VARIABLES coins, amt, theirAmt, theirChange, scripts,
          balance, aliceHTLCs, bobHTLCs
vars == <<coins, amt, theirAmt, theirChange, scripts, balance, aliceHTLCs, bobHTLCs>>

FundingCall ==
    /\ coins \in UNION {SetToSeqs(S) : S \in SUBSET Coins}
    /\ amt \in 0..MaxAmount
    /\ theirAmt \in 0..MaxTheirs
    /\ theirChange \in 0..MaxTheirs
    \* pkScripts of our change, their change and the 2-of-2 output
    /\ scripts \in SetToSeqs({<<1>>, <<2>>, <<1, 0>>})
    /\ balance = [p \in {"alice", "bob"} |-> 0]
    /\ aliceHTLCs = <<>> /\ bobHTLCs = <<>>

CommitmentCall ==
    /\ coins = <<>> /\ amt = 0 /\ theirAmt = 0 /\ theirChange = 0
    /\ scripts = <<<<1>>, <<2>>, <<1, 0>>>>
    /\ balance \in [{"alice", "bob"} -> {0, 2}]
    /\ aliceHTLCs \in BoundedSeq(HTLCs, 2)
    /\ bobHTLCs \in BoundedSeq(HTLCs, 2)

Init == FundingCall \/ CommitmentCall

\* The inputs are fixed: each state is one call.
Next == UNCHANGED vars

Spec == Init /\ [][Next]_vars

(* selectInputs returns the active outputs of the shortest covering       *)
(* prefix of the listing, and fails exactly when the whole listing holds  *)
(* too little of the active colour.                                        *)
SelectInputsMinimal == SelectInputs(amt, coins) = MinimalPrefixSelection(amt, coins)

Selection == CoinSelect(amt, coins)
OurChange == ChangeOutputs(Selection.change, scripts[1])
TheirChange == ChangeOutputs(theirChange, scripts[2])
FundingOut == TxOut(amt + theirAmt, scripts[3])

(* Canonical sort (spec): the initiator and the responder, each adding    *)
(* its own change first, build byte-identical coloured funding            *)
(* transactions, so exchanging signatures is enough.                      *)
CanonicalFundingTx ==
    ~Selection.err =>
        BuildFundingTx(OurChange, TheirChange, FundingOut)
          = BuildFundingTx(TheirChange, OurChange, FundingOut)

(* The colour instructions of the funding transaction pay every script    *)
(* exactly the value its output was assembled with: the index each        *)
(* instruction names is the position of that output after sorting.        *)
FundingPaymentsPreserved ==
    ~Selection.err =>
        ColouredPayments(BuildFundingTx(OurChange, TheirChange, FundingOut))
          = IntendedPayments(OurChange \o TheirChange \o <<FundingOut>>)

(* The funding output is spent by every commitment and closing           *)
(* transaction, and SignNextCommitment, ReceiveNewCommitment, the close   *)
(* and the reservation's first commitment sign or verify that input with  *)
(* amount Capacity, the value the 2-of-2 output was assembled with.  A    *)
(* BIP-143 signature commits to the spent output's amount, so the         *)
(* signatures are valid on chain only if the funding transaction, as      *)
(* colourified and published, gives that output exactly Capacity.        *)
FundingOutputKeepsCapacity ==
    ~Selection.err /\ FundingOut.value > 0 =>
        LET tx == BuildFundingTx(OurChange, TheirChange, FundingOut)
        IN \A i \in DOMAIN tx :
              tx[i].script = FundingOut.script => tx[i].value = FundingOut.value

(* The commitment SignNextCommitment builds of the peer's chain is the    *)
(* one the peer's ReceiveNewCommitment builds of its own, in both         *)
(* directions: the same HTLC is "ours" at one end and "theirs" at the     *)
(* other, and the delay, keys and balances change sides with it, so the   *)
(* signature one end makes verifies at the other.                         *)
CanonicalCommitTx ==
    /\ CommitmentView(AliceChan, TRUE, balance.alice, balance.bob,
                      aliceHTLCs, bobHTLCs, RevKey, RevHash)
         = CommitmentView(BobChan, FALSE, balance.bob, balance.alice,
                          bobHTLCs, aliceHTLCs, RevKey, RevHash)
    /\ CommitmentView(BobChan, TRUE, balance.bob, balance.alice,
                      bobHTLCs, aliceHTLCs, RevKey, RevHash)
         = CommitmentView(AliceChan, FALSE, balance.alice, balance.bob,
                          aliceHTLCs, bobHTLCs, RevKey, RevHash)
=============================================================================
