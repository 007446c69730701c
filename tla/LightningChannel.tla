--------------------------- MODULE LightningChannel ---------------------------
(***************************************************************************)
(* The commitment state machine of lnwallet/channel.go, run by the two    *)
(* ends of one channel.  Each party owns one LightningChannel: two HTLC   *)
(* update logs, a local and a remote commitment chain, a revocation       *)
(* window received from the peer and the revocations it has used.  The    *)
(* parties talk over one FIFO link per direction (the peer connection).   *)
(*                                                                         *)
(* Data is abstracted to what the properties tell apart: a commitment     *)
(* transaction is the record of what it pays (owner, revocation key,      *)
(* balance per party, HTLC outputs); an elkrem pre-image or a revocation  *)
(* key is the elkrem index it is derived from; a signature verifies iff   *)
(* the verifier rebuilt the very transaction that was signed.             *)
(***************************************************************************)
EXTENDS Integers, SequencesExt

CONSTANTS
    Alice, Bob,              \* the two ends of the channel
    InitialBalance,          \* [Party -> Nat]: settled balances at open
    Hashes,                  \* payment hashes an HTLC may carry
    Amounts,                 \* HTLC amounts
    NoHash,                  \* RHash of a Settle entry (left zero by the code)
    MaxHTLCs,                \* bound: HTLCs each party's caller adds
    InitialRevocationWindow, \* channel.go:43
    MaxFaults,               \* bound: failed colour-encoding calls
    Closers,                 \* parties whose user may request a cooperative close
    MaxRestarts              \* bound: process restarts

Party == {Alice, Bob}
Other(p) == IF p = Alice THEN Bob ELSE Alice
Capacity == InitialBalance[Alice] + InitialBalance[Bob]

\* The all-zero pre-image / hash (zeroHash in the code).
Zero == -1

ASSUME InitialBalance \in [Party -> Nat]
ASSUME InitialRevocationWindow \in Nat \ {0}
ASSUME NoHash \notin Hashes
ASSUME Closers \subseteq Party

VARIABLES
    ourLogCounter, theirLogCounter,       \* next index of each update log
    ourUpdateLog, theirUpdateLog,         \* the HTLC update logs
    localCommitChain, remoteCommitChain,  \* unrevoked commitments, tail first
    currentHeight,                        \* height of our local chain tail
    revocationWindowEdge,                 \* highest index we offered the peer
    usedRevocations, revocationWindow,    \* peer revocations used / unused
    theirCurrentRevocation,               \* channelState.TheirCurrentRevocation
    theirCurrentRevocationHash,           \* channelState.TheirCurrentRevocationHash
    remoteElkrem,                         \* pre-images the elkrem receiver holds
    channelState,                         \* persisted OurBalance/TheirBalance/NumUpdates
    net,                                  \* net[p]: messages in flight to p
    htlcsAdded,                           \* caller: HTLCs p has offered
    errors,                               \* errors returned to the callers
    faults,                               \* colour-encoding failures so far
    status,                               \* lc.status: pending, closing, closed
    closeTxs,                             \* fully signed closing transactions
    restarts,                             \* restarts so far
    revealed                              \* history: pre-images p has revealed

chanVars == <<ourLogCounter, theirLogCounter, ourUpdateLog, theirUpdateLog,
              localCommitChain, remoteCommitChain, currentHeight,
              revocationWindowEdge, usedRevocations, revocationWindow,
              theirCurrentRevocation, theirCurrentRevocationHash,
              remoteElkrem, channelState>>
closeVars == <<status, closeTxs>>
vars == <<chanVars, net, htlcsAdded, errors, faults, closeVars, restarts,
          revealed>>

-----------------------------------------------------------------------------
(* Log entries (PaymentDescriptor) and commitments.                       *)

NewAdd(h, amt, idx) ==
    [EntryType |-> "Add", RHash |-> h, Amount |-> amt, Index |-> idx,
     ParentIndex |-> 0,
     addCommitHeightRemote |-> 0, addCommitHeightLocal |-> 0,
     removeCommitHeightRemote |-> 0, removeCommitHeightLocal |-> 0,
     isForwarded |-> FALSE, settled |-> FALSE]

NewSettle(amt, idx, parent) ==
    [NewAdd(NoHash, amt, idx) EXCEPT !.EntryType = "Settle",
                                     !.ParentIndex = parent]

Tip(chain) == chain[Len(chain)]
ChainTail(chain) == Head(chain)

\* The transaction a commitment stands for, as both parties see it: whose
\* output is delayed, the revocation key, what each party is paid and the
\* HTLC outputs (createCommitTx + addHTLC, sorted and colourified).
SignedTx(p, remoteChain, c) ==
    [owner |-> IF remoteChain THEN Other(p) ELSE p,
     revocationKey |-> c.revocationKey,
     balance |-> (p :> c.ourBalance) @@ (Other(p) :> c.theirBalance),
     htlcs |-> c.htlcs]

-----------------------------------------------------------------------------
(* fetchCommitmentView with fetchHTLCView, evaluateHTLCView,              *)
(* processAddEntry and processRemoveEntry.  It returns the new commitment *)
(* and both logs with the commit heights it stamped: the code stamps them *)
(* in place, before the caller verifies or signs anything.                *)

AddHeight(remoteChain) ==
    IF remoteChain THEN "addCommitHeightRemote" ELSE "addCommitHeightLocal"
\* A mutant: removals are stamped in the remote-chain field for both chains.
RemoveHeightRemoteOnly(remoteChain) == "removeCommitHeightRemote"

RemoveHeight(remoteChain) ==
    IF remoteChain THEN "removeCommitHeightRemote" ELSE "removeCommitHeightLocal"

AmountOf(log, S) == MapThenSumSet(LAMBDA i : log[i].Amount, S)

\* Entries of S not yet counted on this chain, and S with heights stamped.
\* A mutant: an entry is counted again on every build.
UnstampedAlways(log, S, f) == S

Unstamped(log, S, f) == {i \in S : log[i][f] = 0}
Stamp(log, S, f, h) ==
    [i \in DOMAIN log |-> IF i \in S /\ log[i][f] = 0
                          THEN [log[i] EXCEPT ![f] = h] ELSE log[i]]

FetchCommitmentView(p, remoteChain, ourLogIndex, theirLogIndex, revocationKey) ==
    LET chain      == IF remoteChain THEN remoteCommitChain[p]
                                     ELSE localCommitChain[p]
        nextHeight == Tip(chain).height + 1
        ours       == ourUpdateLog[p]
        theirs     == theirUpdateLog[p]
        ourView    == {i \in DOMAIN ours : ours[i].Index < ourLogIndex}
        theirView  == {i \in DOMAIN theirs : theirs[i].Index < theirLogIndex}
        ourRemoves   == {i \in ourView : ours[i].EntryType # "Add"}
        theirRemoves == {i \in theirView : theirs[i].EntryType # "Add"}
        skipThem == {ours[i].ParentIndex : i \in ourRemoves}
        skipUs   == {theirs[i].ParentIndex : i \in theirRemoves}
        ourAdds   == {i \in ourView : ours[i].EntryType = "Add"
                                      /\ ours[i].Index \notin skipUs}
        theirAdds == {i \in theirView : theirs[i].EntryType = "Add"
                                        /\ theirs[i].Index \notin skipThem}
        addF == AddHeight(remoteChain)
        remF == RemoveHeight(remoteChain)
        \* a Settle in our log pays us, one in theirs pays them; a new
        \* Add debits its sender
        ourBalance   == Tip(chain).ourBalance
                          + AmountOf(ours, Unstamped(ours, ourRemoves, remF))
                          - AmountOf(ours, Unstamped(ours, ourAdds, addF))
        theirBalance == Tip(chain).theirBalance
                          + AmountOf(theirs, Unstamped(theirs, theirRemoves, remF))
                          - AmountOf(theirs, Unstamped(theirs, theirAdds, addF))
        htlcs == {[from |-> p, Index |-> ours[i].Index,
                   RHash |-> ours[i].RHash, Amount |-> ours[i].Amount]
                    : i \in ourAdds}
                 \cup {[from |-> Other(p), Index |-> theirs[i].Index,
                        RHash |-> theirs[i].RHash, Amount |-> theirs[i].Amount]
                         : i \in theirAdds}
    IN [commit |-> [height |-> nextHeight,
                    ourMessageIndex |-> ourLogIndex,
                    theirMessageIndex |-> theirLogIndex,
                    ourBalance |-> ourBalance, theirBalance |-> theirBalance,
                    htlcs |-> htlcs, revocationKey |-> revocationKey],
        ourLog   |-> Stamp(Stamp(ours, ourRemoves, remF, nextHeight),
                           ourAdds, addF, nextHeight),
        theirLog |-> Stamp(Stamp(theirs, theirRemoves, remF, nextHeight),
                           theirAdds, addF, nextHeight)]

StampLogs(p, v) ==
    /\ ourUpdateLog' = [ourUpdateLog EXCEPT ![p] = v.ourLog]
    /\ theirUpdateLog' = [theirUpdateLog EXCEPT ![p] = v.theirLog]

Send(to, m) == net' = [net EXCEPT ![to] = Append(@, m)]
Receive(p) == net' = [net EXCEPT ![p] = Tail(@)]
ReceiveAndSend(p, m) ==
    net' = [net EXCEPT ![p] = Tail(@), ![Other(p)] = Append(@, m)]
Incoming(p, type) == net[p] # <<>> /\ Head(net[p]).type = type
Fail(p, e) == errors' = errors \cup {[party |-> p, error |-> e]}

-----------------------------------------------------------------------------
(* NewLightningChannel: both chains hold the funded commitment at height  *)
(* NumUpdates = 0; the logs and both revocation queues are empty.  The    *)
(* first revocation key of each side is elkrem index 0, exchanged during *)
(* funding (TheirCurrentRevocation); the current revocation hash is left *)
(* zero by the funding workflow.                                          *)

InitialCommitment(p) ==
    [height |-> 0, ourMessageIndex |-> 0, theirMessageIndex |-> 0,
     ourBalance |-> InitialBalance[p], theirBalance |-> InitialBalance[Other(p)],
     htlcs |-> {}, revocationKey |-> 0]

Init ==
    /\ ourLogCounter = [p \in Party |-> 0]
    /\ theirLogCounter = [p \in Party |-> 0]
    /\ ourUpdateLog = [p \in Party |-> <<>>]
    /\ theirUpdateLog = [p \in Party |-> <<>>]
    /\ localCommitChain = [p \in Party |-> <<InitialCommitment(p)>>]
    /\ remoteCommitChain = [p \in Party |-> <<InitialCommitment(p)>>]
    /\ currentHeight = [p \in Party |-> 0]
    /\ revocationWindowEdge = [p \in Party |-> 0]
    /\ usedRevocations = [p \in Party |-> <<>>]
    /\ revocationWindow = [p \in Party |-> <<>>]
    /\ theirCurrentRevocation = [p \in Party |-> 0]
    /\ theirCurrentRevocationHash = [p \in Party |-> Zero]
    /\ remoteElkrem = [p \in Party |-> 0]
    /\ channelState = [p \in Party |->
                         [OurBalance |-> InitialBalance[p],
                          TheirBalance |-> InitialBalance[Other(p)],
                          NumUpdates |-> 0]]
    /\ net = [p \in Party |-> <<>>]
    /\ htlcsAdded = [p \in Party |-> 0]
    /\ errors = {}
    /\ faults = 0
    /\ status = [p \in Party |-> "pending"]
    /\ closeTxs = {}
    /\ restarts = 0
    /\ revealed = [p \in Party |-> {}]

-----------------------------------------------------------------------------
(* The caller's discipline (lnd's htlc manager, outside this package):    *)
(* it signs whenever either log holds an update the remote tip does not  *)
(* cover, revokes right after accepting a commitment, and keeps the      *)
(* revocation window it offers at InitialRevocationWindow.               *)

NeedsSign(p) ==
    \/ ourLogCounter[p] > Tip(remoteCommitChain[p]).ourMessageIndex
    \/ theirLogCounter[p] > Tip(remoteCommitChain[p]).theirMessageIndex

\* PendingUpdates: the tips of the two chains cover different prefixes
\* of our log.
PendingUpdates(p) ==
    Tip(localCommitChain[p]).ourMessageIndex # Tip(remoteCommitChain[p]).ourMessageIndex

-----------------------------------------------------------------------------
(* AddHTLC: append an Add to our log under the next index; the caller     *)
(* sends it to the peer.  No balance check is made.                      *)
AddHTLC(p, h, amt) ==
    /\ htlcsAdded[p] < MaxHTLCs
    /\ ourUpdateLog' = [ourUpdateLog EXCEPT ![p] =
                          Append(@, NewAdd(h, amt, ourLogCounter[p]))]
    /\ ourLogCounter' = [ourLogCounter EXCEPT ![p] = @ + 1]
    /\ htlcsAdded' = [htlcsAdded EXCEPT ![p] = @ + 1]
    /\ Send(Other(p), [type |-> "AddHTLC", RHash |-> h, Amount |-> amt])
    /\ UNCHANGED <<closeVars, restarts, revealed, theirLogCounter, theirUpdateLog, localCommitChain,
                   remoteCommitChain, currentHeight, revocationWindowEdge,
                   usedRevocations, revocationWindow, theirCurrentRevocation,
                   theirCurrentRevocationHash, remoteElkrem, channelState,
                   errors, faults>>

\* ReceiveHTLC: append the peer's Add to their log under the next index.
ReceiveHTLC(p) ==
    /\ Incoming(p, "AddHTLC")
    /\ LET m == Head(net[p]) IN
         theirUpdateLog' = [theirUpdateLog EXCEPT ![p] =
                              Append(@, NewAdd(m.RHash, m.Amount, theirLogCounter[p]))]
    /\ theirLogCounter' = [theirLogCounter EXCEPT ![p] = @ + 1]
    /\ Receive(p)
    /\ UNCHANGED <<closeVars, restarts, revealed, ourLogCounter, ourUpdateLog, localCommitChain,
                   remoteCommitChain, currentHeight, revocationWindowEdge,
                   usedRevocations, revocationWindow, theirCurrentRevocation,
                   theirCurrentRevocationHash, remoteElkrem, channelState,
                   htlcsAdded, errors, faults>>

\* SettleHTLC(preimage of h): mark the FIRST unsettled Add of their log
\* with hash h settled and append a Settle pointing at it to our log.  The
\* caller holds the pre-image of h once an HTLC with hash h was forwarded
\* to it (this end is the exit hop).
\* A mutant: the scan forgets to skip Adds already settled.
SettleTargetAnySettled(e, h) == e.EntryType = "Add" /\ e.RHash = h

SettleTarget(e, h) == e.EntryType = "Add" /\ ~e.settled /\ e.RHash = h

SettleHTLC(p, h) ==
    LET theirs == theirUpdateLog[p]
        t == SelectInSeq(theirs, LAMBDA e : SettleTarget(e, h))
    IN
    /\ \E i \in DOMAIN theirs : SettleTarget(theirs[i], h) /\ theirs[i].isForwarded
    /\ theirUpdateLog' = [theirUpdateLog EXCEPT ![p][t].settled = TRUE]
    /\ ourUpdateLog' = [ourUpdateLog EXCEPT ![p] =
                          Append(@, NewSettle(theirs[t].Amount, ourLogCounter[p],
                                              theirs[t].Index))]
    /\ ourLogCounter' = [ourLogCounter EXCEPT ![p] = @ + 1]
    /\ Send(Other(p), [type |-> "SettleHTLC", RHash |-> h,
                       logIndex |-> theirs[t].Index])
    /\ UNCHANGED <<closeVars, restarts, revealed, theirLogCounter, localCommitChain, remoteCommitChain,
                   currentHeight, revocationWindowEdge, usedRevocations,
                   revocationWindow, theirCurrentRevocation,
                   theirCurrentRevocationHash, remoteElkrem, channelState,
                   htlcsAdded, errors, faults>>

\* ReceiveHTLCSettle(preimage, logIndex): look the Add up in our log index,
\* check the pre-image, append a Settle to their log.  It fails when no
\* Add has that index (UnknownLogEntry) or the pre-image does not match
\* (InvalidPreimage); SettlesMatchAdds shows only a restart leads there.
ReceiveHTLCSettle(p) ==
    LET m == Head(net[p])
        ours == ourUpdateLog[p]
        found == {i \in DOMAIN ours : ours[i].EntryType = "Add"
                                      /\ ours[i].Index = m.logIndex}
    IN
    /\ Incoming(p, "SettleHTLC")
    /\ Receive(p)
    /\ \/ /\ \E i \in found :
                /\ ours[i].RHash = m.RHash
                /\ theirUpdateLog' = [theirUpdateLog EXCEPT ![p] =
                      Append(@, NewSettle(ours[i].Amount, theirLogCounter[p],
                                          ours[i].Index))]
          /\ theirLogCounter' = [theirLogCounter EXCEPT ![p] = @ + 1]
          /\ UNCHANGED errors
       \/ /\ ~\E i \in found : ours[i].RHash = m.RHash
          /\ Fail(p, "SettleRejected")
          /\ UNCHANGED <<theirUpdateLog, theirLogCounter>>
    /\ UNCHANGED <<closeVars, restarts, revealed, ourLogCounter, ourUpdateLog,
                   localCommitChain, remoteCommitChain, currentHeight,
                   revocationWindowEdge, usedRevocations, revocationWindow,
                   theirCurrentRevocation, theirCurrentRevocationHash,
                   remoteElkrem, channelState, htlcsAdded, faults>>

-----------------------------------------------------------------------------
(* SignNextCommitment: with a revocation left in the window, extend the   *)
(* remote chain by a view over both whole logs, keyed by the head of the *)
(* window, and move that revocation to the used queue.  The commitment   *)
(* signature carries theirLogCounter.                                    *)
SignNextCommitment(p) ==
    LET nextRevocation == Head(revocationWindow[p])
        v == FetchCommitmentView(p, TRUE, ourLogCounter[p], theirLogCounter[p],
                                 nextRevocation.NextRevocationKey)
    IN
    /\ NeedsSign(p)
    /\ Len(revocationWindow[p]) > 0
    /\ Len(usedRevocations[p]) # InitialRevocationWindow
    /\ StampLogs(p, v)
    /\ remoteCommitChain' = [remoteCommitChain EXCEPT ![p] = Append(@, v.commit)]
    /\ usedRevocations' = [usedRevocations EXCEPT ![p] = Append(@, nextRevocation)]
    /\ revocationWindow' = [revocationWindow EXCEPT ![p] = Tail(@)]
    /\ Send(Other(p), [type |-> "CommitSig",
                       tx |-> SignedTx(p, TRUE, v.commit),
                       logIndex |-> theirLogCounter[p]])
    /\ UNCHANGED <<closeVars, restarts, revealed, ourLogCounter, theirLogCounter, localCommitChain,
                   currentHeight, revocationWindowEdge, theirCurrentRevocation,
                   theirCurrentRevocationHash, remoteElkrem, channelState,
                   htlcsAdded, errors, faults>>

\* The same call when ColorifyTx fails (its HTTP call to the colour
\* encoding service errors): fetchCommitmentView returns the error after
\* evaluateHTLCView has stamped the logs; nothing else changes.
SignNextCommitmentEncodingFails(p) ==
    LET v == FetchCommitmentView(p, TRUE, ourLogCounter[p], theirLogCounter[p],
                                 Head(revocationWindow[p]).NextRevocationKey)
    IN
    /\ faults < MaxFaults
    /\ NeedsSign(p)
    /\ Len(revocationWindow[p]) > 0
    /\ Len(usedRevocations[p]) # InitialRevocationWindow
    /\ StampLogs(p, v)
    /\ faults' = faults + 1
    /\ Fail(p, "EncodingFailed")
    /\ UNCHANGED <<closeVars, restarts, revealed, ourLogCounter, theirLogCounter, localCommitChain,
                   remoteCommitChain, currentHeight, revocationWindowEdge,
                   usedRevocations, revocationWindow, theirCurrentRevocation,
                   theirCurrentRevocationHash, remoteElkrem, channelState,
                   net, htlcsAdded>>

(* ReceiveNewCommitment(sig, ourLogIndex): build our next local view with *)
(* the revocation key of elkrem index currentHeight+1, over our log up to *)
(* ourLogIndex and all of theirs, and append it iff the signature         *)
(* verifies.  The caller revokes before it handles the next commitment.  *)
ReceiveNewCommitment(p) ==
    LET m == Head(net[p])
        v == FetchCommitmentView(p, FALSE, m.logIndex, theirLogCounter[p],
                                 currentHeight[p] + 1)
    IN
    /\ Incoming(p, "CommitSig")
    /\ Len(localCommitChain[p]) = 1
    /\ Receive(p)
    /\ StampLogs(p, v)
    /\ \/ /\ SignedTx(p, FALSE, v.commit) = m.tx
          /\ localCommitChain' = [localCommitChain EXCEPT ![p] = Append(@, v.commit)]
          /\ UNCHANGED <<errors, faults>>
       \/ /\ SignedTx(p, FALSE, v.commit) # m.tx
          /\ Fail(p, "InvalidCommitSig")
          /\ UNCHANGED <<localCommitChain, faults>>
       \/ /\ faults < MaxFaults
          /\ faults' = faults + 1
          /\ Fail(p, "EncodingFailed")
          /\ UNCHANGED localCommitChain
    /\ UNCHANGED <<closeVars, restarts, revealed, ourLogCounter, theirLogCounter, remoteCommitChain,
                   currentHeight, revocationWindowEdge, usedRevocations,
                   revocationWindow, theirCurrentRevocation,
                   theirCurrentRevocationHash, remoteElkrem, channelState,
                   htlcsAdded>>

(* RevokeCurrentCommitment: reveal the pre-image at currentHeight, offer  *)
(* one more key (revocationWindowEdge+1), drop the local tail and persist *)
(* the new tail's balances.                                               *)
\* A mutant: the pre-image is read after currentHeight is incremented.
RevocationMsgAfterIncrement(p) ==
    [type |-> "Revocation", Revocation |-> currentHeight[p] + 1,
     NextRevocationKey |-> revocationWindowEdge[p] + 1]

\* The revocation message: the pre-image at currentHeight and the key at
\* the incremented window edge.
RevocationMsg(p) ==
    [type |-> "Revocation", Revocation |-> currentHeight[p],
     NextRevocationKey |-> revocationWindowEdge[p] + 1]

\* A mutant: only our own balance is copied into channelState.
PersistTailOurOnly(p, tail) ==
    channelState' = [channelState EXCEPT ![p].OurBalance = tail.ourBalance,
                                         ![p].NumUpdates = @ + 1]

\* A mutant: the update counter is not advanced in the snapshot.
PersistTailNoCount(p, tail) ==
    channelState' = [channelState EXCEPT ![p].OurBalance = tail.ourBalance,
                                         ![p].TheirBalance = tail.theirBalance]

\* The new tail's balances become the persisted channel state.
PersistTail(p, tail) ==
    channelState' = [channelState EXCEPT ![p] =
                       [OurBalance |-> tail.ourBalance,
                        TheirBalance |-> tail.theirBalance,
                        NumUpdates |-> @.NumUpdates + 1]]

RevokeCurrentCommitment(p) ==
    LET newChain == Tail(localCommitChain[p])
        tail == ChainTail(newChain)
    IN
    /\ Len(localCommitChain[p]) > 1
    /\ localCommitChain' = [localCommitChain EXCEPT ![p] = newChain]
    /\ currentHeight' = [currentHeight EXCEPT ![p] = @ + 1]
    /\ revocationWindowEdge' = [revocationWindowEdge EXCEPT ![p] = @ + 1]
    /\ PersistTail(p, tail)
    /\ revealed' = [revealed EXCEPT ![p] = @ \cup {RevocationMsg(p).Revocation}]
    /\ Send(Other(p), RevocationMsg(p))
    /\ UNCHANGED <<closeVars, restarts, ourLogCounter, theirLogCounter, ourUpdateLog, theirUpdateLog,
                   remoteCommitChain, usedRevocations, revocationWindow,
                   theirCurrentRevocation, theirCurrentRevocationHash,
                   remoteElkrem, htlcsAdded, errors, faults>>

\* A mutant: the window check admits one key too many.
WindowNotFullOffByOne(p) ==
    revocationWindowEdge[p] - currentHeight[p] <= InitialRevocationWindow

\* The caller keeps at most InitialRevocationWindow keys offered beyond
\* its current height (the check the code's TODO asks for).
WindowNotFull(p) ==
    revocationWindowEdge[p] - currentHeight[p] < InitialRevocationWindow

\* ExtendRevocationWindow: offer the key at revocationWindowEdge+1 with a
\* zero pre-image.
ExtendRevocationWindow(p) ==
    /\ WindowNotFull(p)
    /\ revocationWindowEdge' = [revocationWindowEdge EXCEPT ![p] = @ + 1]
    /\ Send(Other(p), [type |-> "Revocation", Revocation |-> Zero,
                       NextRevocationKey |-> revocationWindowEdge[p] + 1])
    /\ UNCHANGED <<closeVars, restarts, revealed, ourLogCounter, theirLogCounter, ourUpdateLog, theirUpdateLog,
                   localCommitChain, remoteCommitChain, currentHeight,
                   usedRevocations, revocationWindow, theirCurrentRevocation,
                   theirCurrentRevocationHash, remoteElkrem, channelState,
                   htlcsAdded, errors, faults>>

-----------------------------------------------------------------------------
(* The forwarding scan of ReceiveRevocation over their log.  An Add is    *)
(* forwarded once both add heights are set and within the chain tails.   *)
(* Any other entry is forwarded once its remove heights are within the   *)
(* tails, and an unset remove height (0) is within every tail.           *)
Uncommitted(e) == e.addCommitHeightRemote = 0 \/ e.addCommitHeightLocal = 0

Forwardable(e, localTail, remoteTail) ==
    /\ ~e.isForwarded
    /\ \/ /\ e.EntryType = "Add"
          /\ ~Uncommitted(e)
          /\ remoteTail >= e.addCommitHeightRemote
          /\ localTail >= e.addCommitHeightLocal
       \/ /\ e.EntryType # "Add"
          /\ remoteTail >= e.removeCommitHeightRemote
          /\ localTail >= e.removeCommitHeightLocal

ForwardHTLCs(log, localTail, remoteTail) ==
    [i \in DOMAIN log |->
        IF Forwardable(log[i], localTail, remoteTail)
        THEN [log[i] EXCEPT !.isForwarded = TRUE] ELSE log[i]]

(* compactLog(logA, logB): drop every Settle of logA removed on both      *)
(* chains at or below their tails, together with its parent Add in logB. *)
Evictable(e, localTail, remoteTail) ==
    /\ e.EntryType # "Add"
    /\ e.removeCommitHeightRemote # 0
    /\ e.removeCommitHeightLocal # 0
    /\ remoteTail >= e.removeCommitHeightRemote
    /\ localTail >= e.removeCommitHeightLocal

CompactLog(logA, logB, localTail, remoteTail) ==
    LET Evicted(e) == Evictable(e, localTail, remoteTail)
        parents == {logA[i].ParentIndex : i \in {j \in DOMAIN logA : Evicted(logA[j])}}
        Kept(e) == ~Evicted(e)
        KeptB(e) == e.Index \notin parents
    IN <<SelectSeq(logA, Kept), SelectSeq(logB, KeptB)>>

\* compactLogs: compactLog(our, their), then compactLog(their, our).
CompactLogs(ours, theirs, localTail, remoteTail) ==
    LET first  == CompactLog(ours, theirs, localTail, remoteTail)
        second == CompactLog(first[2], first[1], localTail, remoteTail)
    IN <<second[2], second[1]>>

(* The checks ReceiveRevocation makes of a non-zero pre-image, in order:  *)
(* elkrem AddNext accepts only the next index, the derived key must be   *)
(* theirCurrentRevocation, and its hash theirCurrentRevocationHash when   *)
(* that is set.  Keys and hashes are named by their elkrem index.         *)
RevocationValid(p, m) ==
    /\ m.Revocation = remoteElkrem[p]
    /\ m.Revocation = theirCurrentRevocation[p]
    /\ theirCurrentRevocationHash[p] \in {Zero, m.Revocation}

\* A mutant: the revocation message is not queued in the window.
ExtendWindowDropped(p, m) == UNCHANGED revocationWindow

ExtendWindow(p, m) ==
    revocationWindow' = [revocationWindow EXCEPT ![p] =
                           Append(@, [NextRevocationKey |-> m.NextRevocationKey])]

(* ReceiveRevocation.  A zero pre-image only extends the window.  A valid *)
(* one rotates theirCurrentRevocation(Hash) to the head of the used queue,*)
(* pops it, extends the window, advances the remote tail, forwards from   *)
(* their log and compacts both logs.  The elkrem receiver takes the       *)
(* pre-image (AddNext) BEFORE the key and hash are checked, so a          *)
(* revocation refused by those checks still advances it.                  *)
(* usedRevocations[0] on an empty queue panics; the model reports it as   *)
(* an error.  These refusals are reached only after a restart:            *)
(* RevocationAccepted shows honest runs never meet them.  AddNext itself  *)
(* refuses only a pre-image out of elkrem order, which needs a replayed   *)
(* message: the elkrem receiver is persisted, so not even a restart       *)
(* produces one, and that return (which changes nothing) is left out.     *)
ReceiveRevocation(p) ==
    LET m == Head(net[p]) IN
    /\ Incoming(p, "Revocation")
    /\ Receive(p)
    /\ \/ /\ m.Revocation = Zero
          /\ ExtendWindow(p, m)
          /\ UNCHANGED <<ourUpdateLog, theirUpdateLog, remoteCommitChain,
                         usedRevocations, theirCurrentRevocation,
                         theirCurrentRevocationHash, remoteElkrem, errors>>
       \/ /\ m.Revocation # Zero
          /\ m.Revocation = remoteElkrem[p]
          /\ ~(RevocationValid(p, m) /\ usedRevocations[p] # <<>>)
          /\ remoteElkrem' = [remoteElkrem EXCEPT ![p] = @ + 1]
          /\ Fail(p, "RevocationRejected")
          /\ UNCHANGED <<ourUpdateLog, theirUpdateLog, remoteCommitChain,
                         usedRevocations, revocationWindow, theirCurrentRevocation,
                         theirCurrentRevocationHash>>
       \/ /\ m.Revocation # Zero
          /\ RevocationValid(p, m)
          /\ usedRevocations[p] # <<>>
          /\ ExtendWindow(p, m)
          /\ LET next == Head(usedRevocations[p])
                 newRemote == Tail(remoteCommitChain[p])
                 remoteTail == ChainTail(newRemote).height
                 localTail == ChainTail(localCommitChain[p]).height
                 logs == CompactLogs(ourUpdateLog[p],
                                     ForwardHTLCs(theirUpdateLog[p], localTail, remoteTail),
                                     localTail, remoteTail)
             IN /\ remoteElkrem' = [remoteElkrem EXCEPT ![p] = @ + 1]
                /\ theirCurrentRevocation' =
                       [theirCurrentRevocation EXCEPT ![p] = next.NextRevocationKey]
                /\ theirCurrentRevocationHash' =
                       [theirCurrentRevocationHash EXCEPT ![p] = next.NextRevocationKey]
                /\ usedRevocations' = [usedRevocations EXCEPT ![p] = Tail(@)]
                /\ remoteCommitChain' = [remoteCommitChain EXCEPT ![p] = newRemote]
                /\ ourUpdateLog' = [ourUpdateLog EXCEPT ![p] = logs[1]]
                /\ theirUpdateLog' = [theirUpdateLog EXCEPT ![p] = logs[2]]
                /\ UNCHANGED errors
    /\ UNCHANGED <<closeVars, restarts, revealed, ourLogCounter, theirLogCounter,
                   localCommitChain, currentHeight, revocationWindowEdge,
                   channelState, htlcsAdded, faults>>

-----------------------------------------------------------------------------
(* Cooperative close.  createCooperativeCloseTx spends the funding output *)
(* to the two delivery scripts, paying each side its persisted settled     *)
(* balance (channelState, last set by RevokeCurrentCommitment); an output *)
(* of zero is omitted and the outputs are sorted, so both ends build the  *)
(* same transaction iff their channelStates mirror each other.  Pending   *)
(* HTLCs get no output.                                                   *)
CloseTx(p) ==
    [balance |-> (p :> channelState[p].OurBalance)
                   @@ (Other(p) :> channelState[p].TheirBalance)]

(* The caller's precondition (InitCooperativeClose's doc comment): close  *)
(* only once all pending HTLCs are cleared, i.e. both logs are empty and  *)
(* both chains are synced.                                               *)
MayClose(p) ==
    /\ p \in Closers
    /\ ourUpdateLog[p] = <<>> /\ theirUpdateLog[p] = <<>>
    /\ Len(localCommitChain[p]) = 1 /\ Len(remoteCommitChain[p]) = 1
    /\ ~NeedsSign(p)

(* lc.status starts at its zero value, channelPending: no code sets      *)
(* channelOpen, and only closing and closed are ever tested.             *)
(* InitCooperativeClose: a channel not yet closing moves to closing and the caller  *)
(* sends the initiator's signature over its closing transaction.  On a    *)
(* channel already closing or closed it returns ErrChanClosing and       *)
(* changes nothing (a stuttering step, left out).                        *)
InitCooperativeClose(p) ==
    /\ MayClose(p)
    /\ status[p] \notin {"closing", "closed"}
    /\ status' = [status EXCEPT ![p] = "closing"]
    /\ Send(Other(p), [type |-> "CloseRequest", tx |-> CloseTx(p)])
    /\ UNCHANGED <<chanVars, htlcsAdded, errors, faults, closeTxs, restarts,
                   revealed>>

(* CompleteCooperativeClose(remoteSig): on a channel already closing or   *)
(* closed, ErrChanClosing.  Otherwise the status becomes closed FIRST,     *)
(* then the responder builds its own closing transaction and runs the     *)
(* script engine over the initiator's signature: the channel stays closed *)
(* whether or not the signature verifies.                                 *)
CompleteCooperativeClose(p) ==
    LET m == Head(net[p]) IN
    /\ Incoming(p, "CloseRequest")
    /\ Receive(p)
    /\ \/ /\ status[p] \in {"closing", "closed"}
          /\ Fail(p, "ErrChanClosing")
          /\ UNCHANGED closeVars
       \/ /\ status[p] \notin {"closing", "closed"}
          /\ status' = [status EXCEPT ![p] = "closed"]
          /\ LET verified == m.tx = CloseTx(p) IN
             /\ closeTxs' = IF verified THEN closeTxs \cup {m.tx} ELSE closeTxs
             /\ errors' = IF verified THEN errors
                          ELSE errors \cup {[party |-> p, error |-> "InvalidCloseSig"]}
    /\ UNCHANGED <<chanVars, htlcsAdded, faults, restarts, revealed>>

-----------------------------------------------------------------------------
(* A restart of p's process: NewLightningChannel rebuilds the channel    *)
(* from the snapshot FullSync (RevokeCurrentCommitment) and SyncRevocation*)
(* (ReceiveRevocation) persisted.  Both chains restart from one          *)
(* commitment at height NumUpdates carrying the persisted balances and no *)
(* HTLC, the logs, counters and revocation queues are empty, the window   *)
(* edge is NumUpdates and the status is back at its zero value.  The     *)
(* elkrem receiver and the peer's current revocation key live in the     *)
(* snapshot and survive.  Messages in flight to p are lost with the       *)
(* connection.                                                            *)
RestoredCommitment(p) ==
    [height |-> channelState[p].NumUpdates,
     ourMessageIndex |-> 0, theirMessageIndex |-> 0,
     ourBalance |-> channelState[p].OurBalance,
     theirBalance |-> channelState[p].TheirBalance,
     htlcs |-> {}, revocationKey |-> channelState[p].NumUpdates]

Restart(p) ==
    /\ restarts < MaxRestarts
    /\ restarts' = restarts + 1
    /\ ourLogCounter' = [ourLogCounter EXCEPT ![p] = 0]
    /\ theirLogCounter' = [theirLogCounter EXCEPT ![p] = 0]
    /\ ourUpdateLog' = [ourUpdateLog EXCEPT ![p] = <<>>]
    /\ theirUpdateLog' = [theirUpdateLog EXCEPT ![p] = <<>>]
    /\ localCommitChain' = [localCommitChain EXCEPT ![p] = <<RestoredCommitment(p)>>]
    /\ remoteCommitChain' = [remoteCommitChain EXCEPT ![p] = <<RestoredCommitment(p)>>]
    /\ currentHeight' = [currentHeight EXCEPT ![p] = channelState[p].NumUpdates]
    /\ revocationWindowEdge' = [revocationWindowEdge EXCEPT ![p] = channelState[p].NumUpdates]
    /\ usedRevocations' = [usedRevocations EXCEPT ![p] = <<>>]
    /\ revocationWindow' = [revocationWindow EXCEPT ![p] = <<>>]
    /\ status' = [status EXCEPT ![p] = "pending"]
    /\ net' = [net EXCEPT ![p] = <<>>]
    /\ UNCHANGED <<theirCurrentRevocation, theirCurrentRevocationHash,
                   remoteElkrem, channelState, htlcsAdded, errors, faults,
                   closeTxs, revealed>>

\* Every message sent has been handled and no HTLC is left to add: the
\* peers are idle, which is not a deadlock.
Quiescent ==
    /\ \A p \in Party : net[p] = <<>> /\ htlcsAdded[p] = MaxHTLCs
    /\ UNCHANGED vars

Next ==
    \/ \E p \in Party :
          \/ \E h \in Hashes, a \in Amounts : AddHTLC(p, h, a)
          \/ ReceiveHTLC(p)
          \/ \E h \in Hashes : SettleHTLC(p, h)
          \/ ReceiveHTLCSettle(p)
          \/ SignNextCommitment(p)
          \/ SignNextCommitmentEncodingFails(p)
          \/ ReceiveNewCommitment(p)
          \/ RevokeCurrentCommitment(p)
          \/ ExtendRevocationWindow(p)
          \/ ReceiveRevocation(p)
          \/ InitCooperativeClose(p)
          \/ CompleteCooperativeClose(p)
          \/ Restart(p)
    \/ Quiescent

Spec == Init /\ [][Next]_vars

(* The callers handle every message they receive, sign while updates are *)
(* pending, revoke what they accepted, keep the window open and settle   *)
(* what is forwarded to them (the exit hop knows every pre-image).        *)
Fairness ==
    \A p \in Party :
        /\ WF_vars(ReceiveHTLC(p))
        /\ WF_vars(ReceiveHTLCSettle(p))
        /\ WF_vars(SignNextCommitment(p))
        /\ WF_vars(ReceiveNewCommitment(p))
        /\ WF_vars(RevokeCurrentCommitment(p))
        /\ WF_vars(ExtendRevocationWindow(p))
        /\ WF_vars(ReceiveRevocation(p))
        /\ WF_vars(\E h \in Hashes : SettleHTLC(p, h))
        /\ WF_vars(CompleteCooperativeClose(p))

FairSpec == Spec /\ Fairness

-----------------------------------------------------------------------------
(* Properties                                                              *)

Entry == [EntryType : {"Add", "Settle"}, RHash : Hashes \cup {NoHash},
          Amount : Amounts, Index : Nat, ParentIndex : Nat,
          addCommitHeightRemote : Nat, addCommitHeightLocal : Nat,
          removeCommitHeightRemote : Nat, removeCommitHeightLocal : Nat,
          isForwarded : BOOLEAN, settled : BOOLEAN]

TypeOK ==
    /\ ourUpdateLog \in [Party -> Seq(Entry)]
    /\ theirUpdateLog \in [Party -> Seq(Entry)]
    /\ \A p \in Party :
          /\ ourLogCounter[p] \in Nat /\ theirLogCounter[p] \in Nat
          /\ Len(localCommitChain[p]) \in 1..2
          /\ Len(remoteCommitChain[p]) \in 1..InitialRevocationWindow + 1
          /\ Len(usedRevocations[p]) \in 0..InitialRevocationWindow
          /\ Len(revocationWindow[p]) \in 0..InitialRevocationWindow
          /\ currentHeight[p] = ChainTail(localCommitChain[p]).height
          /\ \A m \in Range(net[p]) :
                m.type \in {"AddHTLC", "SettleHTLC", "CommitSig", "Revocation",
                           "CloseRequest"}
    /\ faults \in 0..MaxFaults

Commitments(p) == Range(localCommitChain[p]) \cup Range(remoteCommitChain[p])

(* Every commitment either party holds or has signed pays out exactly the *)
(* channel capacity: the two balances plus the HTLC outputs.  The balances *)
(* are built incrementally by evaluateHTLCView, which debits or credits an *)
(* entry only the first time it is stamped for a chain, so a stamp left by *)
(* a failed build (fetchCommitmentView errors after evaluateHTLCView)      *)
(* makes the next build skip the debit.                                    *)
CommitmentBalanced ==
    \A p \in Party : \A c \in Commitments(p) :
        c.ourBalance + c.theirBalance
          + MapThenSumSet(LAMBDA h : h.Amount, c.htlcs) = Capacity

(* No honest commitment update fails: no commitment signature is rejected *)
(* and no revocation is refused, whatever order the two ends interleave   *)
(* in (the close errors are the subject of CloseAgreement and             *)
(* CloseCompletes).                                                        *)
CloseErrors == {"ErrChanClosing", "InvalidCloseSig"}
NoHonestRejection == \A e \in errors : e.error \in CloseErrors

(* A revocation that reaches ReceiveRevocation with a non-zero pre-image  *)
(* passes every check: elkrem order, key and hash match the current ones  *)
(* and a used revocation is there to pop (usedRevocations[0] would panic).*)
RevocationAccepted ==
    \A p \in Party :
        Incoming(p, "Revocation") /\ Head(net[p]).Revocation # Zero
          => RevocationValid(p, Head(net[p])) /\ usedRevocations[p] # <<>>

(* Every Settle in a log has its parent Add in the other log, and every   *)
(* settle in flight names an Add the receiver still holds, under the same *)
(* payment hash.  The code looks parents up without a nil check           *)
(* (evaluateHTLCView, compactLogs); ReceiveHTLCSettle fails otherwise.    *)
AddIndices(log) == {log[i].Index : i \in {j \in DOMAIN log : log[j].EntryType = "Add"}}
AddWith(log, i) == {e \in Range(log) : e.EntryType = "Add" /\ e.Index = i}
SettlesMatchAdds ==
    \A p \in Party :
        /\ \A e \in Range(ourUpdateLog[p]) :
              e.EntryType = "Settle" => e.ParentIndex \in AddIndices(theirUpdateLog[p])
        /\ \A e \in Range(theirUpdateLog[p]) :
              e.EntryType = "Settle" => e.ParentIndex \in AddIndices(ourUpdateLog[p])
        /\ \A m \in Range(net[p]) :
              m.type = "SettleHTLC" =>
                \E a \in AddWith(ourUpdateLog[p], m.logIndex) : a.RHash = m.RHash

(* An entry of their log is forwarded only once it is locked in on both   *)
(* chains (spec: "entries that have become locked-in on both chains").   *)
LockedIn(p, e) ==
    LET f == IF e.EntryType = "Add"
             THEN <<e.addCommitHeightRemote, e.addCommitHeightLocal>>
             ELSE <<e.removeCommitHeightRemote, e.removeCommitHeightLocal>>
    IN /\ f[1] # 0 /\ f[1] <= ChainTail(remoteCommitChain[p]).height
       /\ f[2] # 0 /\ f[2] <= ChainTail(localCommitChain[p]).height
ForwardedOnlyWhenLockedIn ==
    \A p \in Party : \A e \in Range(theirUpdateLog[p]) :
        e.isForwarded => LockedIn(p, e)

(* Every HTLC a party receives is eventually forwarded by it: the peer's *)
(* Add in its log becomes locked in on both chains and ReceiveRevocation  *)
(* hands it upstream.  Forwarding is only attempted inside               *)
(* ReceiveRevocation, so this needs a revocation to arrive after the Add  *)
(* is locked in.                                                           *)
PendingAdd(p, i) ==
    \E e \in Range(theirUpdateLog[p]) :
        e.EntryType = "Add" /\ e.Index = i /\ ~e.isForwarded
AddsForwarded ==
    \A p \in Party, i \in 0..2 * MaxHTLCs :
        PendingAdd(p, i) ~> ~PendingAdd(p, i)

(* Every update reaches both commitment chains: the peers always come to *)
(* rest with one unrevoked commitment per chain that covers both logs     *)
(* entirely, and PendingUpdates reports none.  Needs each signature      *)
(* answered by a revocation and each revocation to reopen the window the *)
(* next signature uses.                                                    *)
Synced(p) ==
    /\ Len(localCommitChain[p]) = 1
    /\ Len(remoteCommitChain[p]) = 1
    /\ ~NeedsSign(p)
    /\ ~PendingUpdates(p)
EventuallySynced == <>[](\A p \in Party : Synced(p))

(* A responder never rejects the signature of an initiator that closed as *)
(* documented (no pending HTLC, synced chains): the two ends build the    *)
(* same closing transaction from their persisted balances, even when      *)
(* commitment updates of the peer are still in flight.  A rejection       *)
(* leaves the responder's channel closed with no closing transaction.     *)
CloseAgreement == \A e \in errors : e.error # "InvalidCloseSig"

(* The revocation window is a budget shared by the two ends: the keys p  *)
(* holds unused or used, plus the window extensions still in flight to p, *)
(* are exactly the keys the peer offered beyond its current height (spec, *)
(* "window budget").  A revocation moves a key from p's used queue back   *)
(* to its window while the peer advances height and edge together.        *)
InFlightExtensions(p) ==
    Len(SelectSeq(net[p], LAMBDA m : m.type = "Revocation" /\ m.Revocation = Zero))
WindowBudget ==
    \A p \in Party :
        Len(revocationWindow[p]) + Len(usedRevocations[p]) + InFlightExtensions(p)
          = revocationWindowEdge[Other(p)] - currentHeight[Other(p)]

(* No end ever holds, as an unrevoked local commitment, one whose          *)
(* revocation pre-image it has revealed to the peer: the peer could then  *)
(* claim all of it.  RevokeCurrentCommitment reveals the pre-image at     *)
(* currentHeight and must do so before the height moves on; after a      *)
(* restart, currentHeight comes back from the persisted NumUpdates.       *)
NoRevealedCommitment ==
    \A p \in Party : \A c \in Range(localCommitChain[p]) :
        c.revocationKey \notin revealed[p]

(* Once a closing transaction is fully signed the persisted balances of  *)
(* both ends stay what it pays: InitCooperativeClose's doc comment says   *)
(* the closing state rejects every incoming and outgoing HTLC request, so *)
(* no commitment update may move the channel after it.                    *)
CloseIsFinal ==
    \A tx \in closeTxs : \A p \in Party :
        /\ channelState[p].OurBalance = tx.balance[p]
        /\ channelState[p].TheirBalance = tx.balance[Other(p)]

(* A cooperative close that was initiated eventually yields a fully      *)
(* signed closing transaction, given that the peer handles every message. *)
CloseCompletes ==
    (\E p \in Party : status[p] = "closing") ~> (closeTxs # {})

(* Refinement: each end's persisted channel state, read with the HTLCs of *)
(* its local chain tail, is a ChannelLedger.  Every RevokeCurrentCommitment*)
(* moves funds exactly as the HTLCs added and settled since the previous  *)
(* tail say, which is what evaluateHTLCView's incremental stamping must    *)
(* get right across interleaved and repeated view builds.                 *)
LedgerAlice == INSTANCE ChannelLedger WITH
    Self <- Alice,
    ourBalance <- channelState[Alice].OurBalance,
    theirBalance <- channelState[Alice].TheirBalance,
    htlcs <- ChainTail(localCommitChain[Alice]).htlcs,
    numUpdates <- channelState[Alice].NumUpdates
LedgerBob == INSTANCE ChannelLedger WITH
    Self <- Bob,
    ourBalance <- channelState[Bob].OurBalance,
    theirBalance <- channelState[Bob].TheirBalance,
    htlcs <- ChainTail(localCommitChain[Bob]).htlcs,
    numUpdates <- channelState[Bob].NumUpdates
LedgerRefinement == LedgerAlice!Spec /\ LedgerBob!Spec
====
