----------------------------- MODULE CommitmentTx -----------------------------
(***************************************************************************)
(* The commitment transaction of lnwallet/channel.go.  Neither end ever   *)
(* sends one: to sign the peer's next commitment an end builds the       *)
(* peer's transaction itself (fetchCommitmentView with remoteChain), and  *)
(* the peer verifies the signature against the transaction it builds of   *)
(* its own chain.  Both must come out byte-identical: the same outputs,   *)
(* the same scripts, sorted and colourified the same way.                 *)
(*                                                                         *)
(* Keys, delays, hashes and revocation values are numbers; a script is    *)
(* the sequence of its template tag and its arguments, and a P2WSH or     *)
(* P2WKH output script wraps it with a tag of its own.  Equal arguments   *)
(* give equal scripts and different ones different scripts, as with the  *)
(* real script templates and their hashes, and scripts sort by those      *)
(* sequences, an order as fixed as the order of the hashes.               *)
(***************************************************************************)
EXTENDS FundingTx

\* The script templates of script_utils (not part of this tree).
CommitScriptToSelf(csv, selfKey, revokeKey) == <<1, csv, selfKey, revokeKey>>
SenderHTLCScript(absTimeout, csv, senderKey, receiverKey, revoke, rHash) ==
    <<2, absTimeout, csv, senderKey, receiverKey, revoke, rHash>>
ReceiverHTLCScript(absTimeout, csv, senderKey, receiverKey, revoke, rHash) ==
    <<3, absTimeout, csv, senderKey, receiverKey, revoke, rHash>>
WitnessScriptHash(script) == <<0, 32>> \o script
CommitScriptUnencumbered(key) == <<0, 20, key>>

(* createCommitTx: the delayed pay-to-self output and the plain output    *)
(* paying the other end, each left out when its amount is zero.           *)
CreateCommitTx(selfKey, theirKey, revokeKey, csvTimeout, amountToSelf, amountToThem) ==
    (IF amountToSelf # 0
     THEN <<TxOut(amountToSelf,
                  WitnessScriptHash(CommitScriptToSelf(csvTimeout, selfKey, revokeKey)))>>
     ELSE <<>>)
    \o (IF amountToThem # 0
        THEN <<TxOut(amountToThem, CommitScriptUnencumbered(theirKey))>>
        ELSE <<>>)

(* A channel's static state as one end holds it: OurCommitKey,            *)
(* TheirCommitKey, LocalCsvDelay and RemoteCsvDelay.  An HTLC is a        *)
(* PaymentDescriptor's [Amount, RHash, Timeout].                          *)

\* A mutant: their HTLC on their commitment names the keys the other way.
AddHTLCSwapped(chan, ourCommit, pd, revocation, delay, isIncoming) ==
    LET localKey == chan.ourKey
        remoteKey == chan.theirKey
        script ==
            CASE isIncoming /\ ourCommit ->
                    ReceiverHTLCScript(pd.timeout, delay, remoteKey, localKey, revocation, pd.rHash)
              [] isIncoming /\ ~ourCommit ->
                    SenderHTLCScript(pd.timeout, delay, localKey, remoteKey, revocation, pd.rHash)
              [] ~isIncoming /\ ourCommit ->
                    SenderHTLCScript(pd.timeout, delay, localKey, remoteKey, revocation, pd.rHash)
              [] ~isIncoming /\ ~ourCommit ->
                    ReceiverHTLCScript(pd.timeout, delay, localKey, remoteKey, revocation, pd.rHash)
    IN TxOut(pd.amount, WitnessScriptHash(script))

(* addHTLC: the HTLC's output, with the sender's or the receiver's script *)
(* chosen by the direction of the HTLC and by whose commitment it is.     *)
AddHTLC(chan, ourCommit, pd, revocation, delay, isIncoming) ==
    LET localKey == chan.ourKey
        remoteKey == chan.theirKey
        script ==
            CASE isIncoming /\ ourCommit ->
                    ReceiverHTLCScript(pd.timeout, delay, remoteKey, localKey, revocation, pd.rHash)
              [] isIncoming /\ ~ourCommit ->
                    SenderHTLCScript(pd.timeout, delay, remoteKey, localKey, revocation, pd.rHash)
              [] ~isIncoming /\ ourCommit ->
                    SenderHTLCScript(pd.timeout, delay, localKey, remoteKey, revocation, pd.rHash)
              [] ~isIncoming /\ ~ourCommit ->
                    ReceiverHTLCScript(pd.timeout, delay, localKey, remoteKey, revocation, pd.rHash)
    IN TxOut(pd.amount, WitnessScriptHash(script))

(* fetchCommitmentView, from the balances and the HTLCs evaluateHTLCView  *)
(* left: the keys, delay and balances of whichever end owns the chain;    *)
(* createCommitTx, one output per HTLC of ours and then of theirs, sort,  *)
(* ColorifyTx(commitTx, false).                                           *)
CommitmentView(chan, remoteChain, ourBalance, theirBalance, ourUpdates, theirUpdates, revKey, revHash) ==
    LET selfKey == IF remoteChain THEN chan.theirKey ELSE chan.ourKey
        remoteKey == IF remoteChain THEN chan.ourKey ELSE chan.theirKey
        delay == IF remoteChain THEN chan.remoteCsv ELSE chan.localCsv
        delayBalance == IF remoteChain THEN theirBalance ELSE ourBalance
        p2wkhBalance == IF remoteChain THEN ourBalance ELSE theirBalance
        htlcOut(pd, incoming) ==
            AddHTLC(chan, ~remoteChain, pd, revHash, delay, incoming)
        outs == CreateCommitTx(selfKey, remoteKey, revKey, delay,
                               delayBalance, p2wkhBalance)
                \o [i \in DOMAIN ourUpdates |-> htlcOut(ourUpdates[i], FALSE)]
                \o [i \in DOMAIN theirUpdates |-> htlcOut(theirUpdates[i], TRUE)]
    IN ColorifyTx(TxSort(outs), FALSE)
=============================================================================
