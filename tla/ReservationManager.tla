-------------------------- MODULE ReservationManager --------------------------
(***************************************************************************)
(* The channel reservation workflow of lnwallet/wallet.go.  One dispatcher *)
(* goroutine (requestHandler) runs the handlers one at a time, so each     *)
(* handler is one atomic action; the callers (the funding manager) issue   *)
(* requests in any order and any number of reservations interleave.       *)
(*                                                                         *)
(* A reservation is a ChannelReservation object, named here by the order  *)
(* in which the callers started it.  The wallet keys it in fundingLimbo  *)
(* by the id it handed out (rid); a caller's later requests carry that id *)
(* and act on whatever the limbo holds under it.  Ids repeat only after   *)
(* ResetReservations.  Its inputs are the outputs coin selection locked   *)
(* for it.  lockedOutPoints stands for both the wallet's own set and the  *)
(* base wallet's lock (LockOutpoint / UnlockOutpoint), which the code     *)
(* always changes together.  Failures of the key chain, the address book, *)
(* the colour service, the publisher and the database are faults, at most *)
(* MaxFaults of them.                                                      *)
(***************************************************************************)
EXTENDS Integers, SequencesExt, CoinSelection

CONSTANTS
    FundingAmounts,    \* amounts a caller asks to fund (0: single-funder responder)
    MaxReservations,   \* bound: reservations the callers start
    MaxFaults          \* bound: failed wallet, colour-service or database calls

ASSUME FundingAmounts \subseteq Nat /\ MaxReservations \in Nat

Reservations == 1..MaxReservations

\* How far the caller got with a reservation.
Steps == {"unused", "requested", "failed", "reserved", "contributed", "signed", "opened"}

VARIABLES
    msgChan,           \* the initFundingReserveMsgs queued on l.msgChan
    nextFundingID,     \* last id handed out (atomic.AddUint64)
    rid,               \* rid[res]: res.reservationID, 0 before it is started
    fundingLimbo,      \* the reservations in l.fundingLimbo, keyed by rid
    fundAmt,           \* fundAmt[res]: our funding amount
    inputs,            \* inputs[res]: outputs locked as its funding inputs
    lockedOutPoints,   \* l.lockedOutPoints (and the base wallet's lock)
    spent,             \* outputs spent by a published funding transaction
    confirming,        \* reservations an openChannelAfterConfirmations waits on
    chanOpen,          \* chanOpen[res]: what res.chanOpen delivered
    step,              \* step[res]: the caller's progress
    cancelled,         \* reservations the caller has asked to cancel
    crashed,           \* the process panicked (nil dereference)
    quit,              \* Shutdown closed l.quit
    faults

vars == <<msgChan, nextFundingID, rid, fundingLimbo, fundAmt, inputs, lockedOutPoints, spent,
          confirming, chanOpen, step, cancelled, crashed, quit, faults>>

Init ==
    /\ msgChan = <<>>
    /\ nextFundingID = 0
    /\ rid = [r \in Reservations |-> 0]
    /\ fundingLimbo = {}
    /\ fundAmt = [r \in Reservations |-> 0]
    /\ inputs = [r \in Reservations |-> {}]
    /\ lockedOutPoints = {}
    /\ spent = {}
    /\ confirming = {}
    /\ chanOpen = [r \in Reservations |-> "none"]
    /\ step = [r \in Reservations |-> "unused"]
    /\ cancelled = {}
    /\ crashed = FALSE
    /\ quit = FALSE
    /\ faults = 0

\* The dispatcher is running and the process alive.
Serving == ~quit /\ ~crashed

Fault == faults < MaxFaults /\ faults' = faults + 1

Started == {r \in Reservations : step[r] # "unused"}

\* ActiveReservations: the reservations in l.fundingLimbo.
ActiveReservations == fundingLimbo

\* l.fundingLimbo[res.reservationID]: what the limbo holds under the id the
\* caller's reservation carries (empty when the id is not there).
Pending(res) == {p \in fundingLimbo : rid[p] = rid[res]}

\* ListUnspentWitness(1): the base wallet lists the unlocked outputs not
\* spent by a transaction it published, in an order of its own.
Listings == SetToSeqs(Coins \ (lockedOutPoints \cup spent))

\* A mutant: the id is read before the atomic increment.
NewFundingIDStale == nextFundingID

\* atomic.AddUint64(&l.nextFundingID, 1): the incremented counter.
NewFundingID == nextFundingID + 1

\* BtcWallet.LockOutpoint and UnlockOutpoint, for each of the outpoints,
\* together with the same change to l.lockedOutPoints.
LockOutpoints(ops) == lockedOutPoints' = lockedOutPoints \cup ops
UnlockOutpoints(ops) == lockedOutPoints' = lockedOutPoints \ ops

\* selectCoinsAndChange, once coinSelect succeeded: each selected output
\* is locked and becomes an input of the reservation.
LockSelected(res, sel) ==
    /\ inputs' = [inputs EXCEPT ![res] = sel]
    /\ LockOutpoints(sel)

-----------------------------------------------------------------------------
(* InitChannelReservation: a caller queues an initFundingReserveMsg on    *)
(* l.msgChan (buffered, so the send does not wait for the dispatcher) and *)
(* blocks reading the reply, first from respChan and then from errChan.   *)
(* A caller may do so at any time, before or after Shutdown.              *)
InitChannelReservation(amt) ==
    LET res == Cardinality(Started) + 1 IN
    /\ ~crashed
    /\ Cardinality(Started) < MaxReservations
    /\ msgChan' = Append(msgChan, res)
    /\ fundAmt' = [fundAmt EXCEPT ![res] = amt]
    /\ step' = [step EXCEPT ![res] = "requested"]
    /\ UNCHANGED <<nextFundingID, rid, fundingLimbo, inputs, lockedOutPoints, spent,
                   confirming, chanOpen, cancelled, crashed, quit, faults>>

(* selectCoinsAndChange fails: ListUnspentWitness errs, or the listed     *)
(* outputs hold too little of the active colour.  The handler sends the   *)
(* error and a nil reservation and returns.                               *)
\* A mutant: the error path returns without sending on req.resp.
SelectionFailsNoReply(res, amt) ==
    /\ amt # 0
    /\ \/ Fault
       \/ \E coins \in Listings : CoinSelect(amt, coins).err /\ UNCHANGED faults
    /\ UNCHANGED step

SelectionFails(res, amt) ==
    /\ amt # 0
    /\ \/ Fault
       \/ \E coins \in Listings : CoinSelect(amt, coins).err /\ UNCHANGED faults
    /\ step' = [step EXCEPT ![res] = "failed"]

(* handleFundingReserveRequest, for the message at the head of msgChan.   *)
(* A new id; with a funding amount, coin selection under coinSelectMtx    *)
(* locks the selected outputs; then two keys and a delivery address are   *)
(* derived.  Only when all succeeded is the reservation put in the limbo. *)
(* Every return answers the caller: step leaves "requested".              *)
HandleFundingReserveRequest ==
    LET res == Head(msgChan)
        amt == fundAmt[res]
        id == NewFundingID
    IN
    /\ Serving
    /\ msgChan # <<>>
    /\ msgChan' = Tail(msgChan)
    /\ nextFundingID' = id
    /\ rid' = [rid EXCEPT ![res] = id]
    /\ \/ \* no coin selection (responder), or selection succeeded
          /\ \/ amt = 0 /\ UNCHANGED <<inputs, lockedOutPoints>>
             \/ amt # 0 /\ \E coins \in Listings :
                  LET r == CoinSelect(amt, coins) IN
                  /\ ~r.err
                  /\ LockSelected(res, r.sel)
          /\ \/ /\ fundingLimbo' = fundingLimbo \cup {res}
                /\ step' = [step EXCEPT ![res] = "reserved"]
                /\ UNCHANGED faults
             \/ \* NewAddress (change), NewRawKey or NewAddress fails
                /\ Fault
                /\ step' = [step EXCEPT ![res] = "failed"]
                /\ UNCHANGED fundingLimbo
       \/ SelectionFails(res, amt) /\ UNCHANGED <<fundingLimbo, inputs, lockedOutPoints>>
    /\ UNCHANGED <<fundAmt, spent, confirming, chanOpen, cancelled, crashed, quit>>

(* handleFundingCancelRequest: the reservation the limbo holds under the  *)
(* id has its inputs unlocked and leaves the limbo; an id not there is an  *)
(* error.  The caller (a peer going away, a zombie sweeper) cancels a     *)
(* reservation it started at any time, once; its other requests for it    *)
(* may still follow.                                                       *)
\* Mutants: the limbo entry is kept, or the inputs are not unlocked.
ReleaseReservationKeepLimbo(p) ==
    /\ UnlockOutpoints(inputs[p])
    /\ UNCHANGED fundingLimbo
ReleaseReservationNoUnlock(p) ==
    /\ UNCHANGED lockedOutPoints
    /\ fundingLimbo' = fundingLimbo \ {p}

\* Unlock every input of the pending reservation and delete it from the limbo.
ReleaseReservation(p) ==
    /\ UnlockOutpoints(inputs[p])
    /\ fundingLimbo' = fundingLimbo \ {p}

HandleFundingCancelRequest(res) ==
    /\ Serving
    /\ step[res] \in {"reserved", "contributed", "signed"}
    /\ res \notin cancelled
    /\ cancelled' = cancelled \cup {res}
    /\ \/ \E p \in Pending(res) : ReleaseReservation(p)
       \/ Pending(res) = {} /\ UNCHANGED <<lockedOutPoints, fundingLimbo>>
    /\ UNCHANGED <<msgChan, nextFundingID, rid, fundAmt, inputs, spent, confirming, chanOpen,
                   step, crashed, quit, faults>>

\* The handlers of the later steps first look the id up in the limbo and
\* return an error when it is not there.
Missing(res) ==
    /\ Pending(res) = {}
    /\ UNCHANGED vars

(* handleContributionMsg (dual funder, step 2): builds the funding        *)
(* transaction from both contributions, colourifies it, signs our inputs  *)
(* and their commitment.  A failure leaves the reservation in the limbo.  *)
HandleContributionMsg(res) ==
    /\ Serving
    /\ step[res] = "reserved" /\ fundAmt[res] # 0
    /\ \/ Missing(res)
       \/ /\ Pending(res) # {}
          /\ \/ step' = [step EXCEPT ![res] = "contributed"] /\ UNCHANGED faults
             \/ Fault /\ UNCHANGED step    \* ColorifyTx, FetchInputInfo or signing
          /\ UNCHANGED <<msgChan, nextFundingID, rid, fundingLimbo, fundAmt, inputs, lockedOutPoints,
                         spent, confirming, chanOpen, cancelled, crashed, quit>>

(* handleFundingCounterPartySigs (dual funder, step 3): checks their      *)
(* input scripts and commitment signature; then removes the pending       *)
(* reservation from the limbo, publishes its funding transaction,         *)
(* persists the channel and starts waiting for confirmations.  The        *)
(* inputs stay in lockedOutPoints.                                         *)
HandleFundingCounterPartySigs(res) ==
    /\ Serving
    /\ step[res] = "contributed" /\ fundAmt[res] # 0
    /\ \/ Missing(res)
       \/ \E p \in Pending(res) :
          /\ \/ \* an input script or their commitment signature fails to verify
                UNCHANGED vars
             \/ /\ fundingLimbo' = fundingLimbo \ {p}
                /\ \/ \* PublishTransaction fails
                      /\ Fault
                      /\ step' = [step EXCEPT ![res] = "failed"]
                      /\ UNCHANGED <<spent, confirming>>
                   \/ \* published, FullSync fails
                      /\ Fault
                      /\ spent' = spent \cup inputs[p]
                      /\ step' = [step EXCEPT ![res] = "failed"]
                      /\ UNCHANGED confirming
                   \/ /\ spent' = spent \cup inputs[p]
                      /\ confirming' = confirming \cup {p}
                      /\ step' = [step EXCEPT ![res] = "signed"]
                      /\ UNCHANGED faults
                /\ UNCHANGED <<msgChan, nextFundingID, rid, fundAmt, inputs, lockedOutPoints,
                               chanOpen, cancelled, crashed, quit>>

\* handleSingleContribution (single-funder responder, step 2): stores the
\* initiator's contribution and derives our elkrem sender.
HandleSingleContribution(res) ==
    /\ Serving
    /\ step[res] = "reserved" /\ fundAmt[res] = 0
    /\ \/ Missing(res)
       \/ /\ Pending(res) # {}
          /\ \/ step' = [step EXCEPT ![res] = "contributed"] /\ UNCHANGED faults
             \/ Fault /\ UNCHANGED step    \* deriveMasterElkremRoot or a script
          /\ UNCHANGED <<msgChan, nextFundingID, rid, fundingLimbo, fundAmt, inputs, lockedOutPoints,
                         spent, confirming, chanOpen, cancelled, crashed, quit>>

\* handleSingleFunderSigs (single-funder responder, step 3): builds both
\* commitments, checks the initiator's signature and signs theirs.  The
\* reservation stays in the limbo until the channel is opened.
HandleSingleFunderSigs(res) ==
    /\ Serving
    /\ step[res] = "contributed" /\ fundAmt[res] = 0
    /\ \/ Missing(res)
       \/ /\ Pending(res) # {}
          /\ \/ step' = [step EXCEPT ![res] = "signed"] /\ UNCHANGED faults
             \/ UNCHANGED <<step, faults>>  \* their signature is invalid
             \/ Fault /\ UNCHANGED step      \* ColorifyTx or signing fails
          /\ UNCHANGED <<msgChan, nextFundingID, rid, fundingLimbo, fundAmt, inputs, lockedOutPoints,
                         spent, confirming, chanOpen, cancelled, crashed, quit>>

(* handleChannelOpen (single-funder responder, once the funding output    *)
(* confirmed): takes the pending reservation out of the limbo, persists   *)
(* it and delivers the channel.  For an id not in the limbo the code      *)
(* sends the error and then writes to res.chanOpen with res nil, which    *)
(* panics.                                                                 *)
HandleChannelOpen(res) ==
    /\ Serving
    /\ step[res] = "signed" /\ fundAmt[res] = 0
    /\ step' = [step EXCEPT ![res] = "opened"]
    /\ \/ /\ Pending(res) = {}
          /\ crashed' = TRUE
          /\ UNCHANGED <<fundingLimbo, chanOpen, faults>>
       \/ \E p \in Pending(res) :
          /\ fundingLimbo' = fundingLimbo \ {p}
          /\ \/ chanOpen' = [chanOpen EXCEPT ![p] = "channel"] /\ UNCHANGED faults
             \/ Fault /\ chanOpen' = [chanOpen EXCEPT ![p] = "nil"]  \* FullSync
          /\ UNCHANGED crashed
    /\ UNCHANGED <<msgChan, nextFundingID, rid, fundAmt, inputs, lockedOutPoints, spent,
                   confirming, cancelled, quit>>

\* openChannelAfterConfirmations: the confirmation arrives, or the wallet
\* shuts down first and a nil channel is delivered.
OpenChannelAfterConfirmations(res) ==
    /\ res \in confirming
    /\ ~crashed
    /\ confirming' = confirming \ {res}
    /\ chanOpen' = [chanOpen EXCEPT ![res] = IF quit THEN "nil" ELSE "channel"]
    /\ UNCHANGED <<msgChan, nextFundingID, rid, fundingLimbo, fundAmt, inputs, lockedOutPoints,
                   spent, step, cancelled, crashed, quit, faults>>

\* Shutdown closes l.quit: the dispatcher stops taking requests.
Shutdown ==
    /\ Serving
    /\ quit' = TRUE
    /\ UNCHANGED <<msgChan, nextFundingID, rid, fundingLimbo, fundAmt, inputs, lockedOutPoints,
                   spent, confirming, chanOpen, step, cancelled, crashed, faults>>

\* Nothing is left to do: the process died, or every waiter has its answer
\* and the callers are done (or the wallet stopped serving them).
Done ==
    /\ crashed \/ quit \/ Cardinality(Started) = MaxReservations
    /\ confirming = {} \/ crashed
    /\ UNCHANGED vars

Next ==
    \/ \E amt \in FundingAmounts : InitChannelReservation(amt)
    \/ HandleFundingReserveRequest
    \/ \E res \in Reservations :
          \/ HandleFundingCancelRequest(res)
          \/ HandleContributionMsg(res)
          \/ HandleFundingCounterPartySigs(res)
          \/ HandleSingleContribution(res)
          \/ HandleSingleFunderSigs(res)
          \/ HandleChannelOpen(res)
          \/ OpenChannelAfterConfirmations(res)
    \/ Shutdown
    \/ Done

Spec == Init /\ [][Next]_vars

(* requestHandler loops for as long as l.quit is open, taking whatever    *)
(* l.msgChan holds: a queued reservation request that stays takeable is   *)
(* taken.  Nothing in the code makes the callers or the chain act, so    *)
(* no other step is fair.                                                  *)
FairSpec == Spec /\ WF_vars(HandleFundingReserveRequest)

(* ResetReservations: the id counter restarts at zero, the limbo is       *)
(* emptied and every locked outpoint is unlocked.  It is exported but     *)
(* nothing in this tree calls it, so Spec leaves it out; SpecWithReset    *)
(* lets a caller call it at any time.  It runs on the caller's goroutine, *)
(* not the dispatcher's, and writes fundingLimbo without limboMtx: it     *)
(* falls between two handlers, or the runtime catches the concurrent map  *)
(* access and aborts the process.  The callers keep the reservations, and *)
(* the ids, they hold.                                                     *)
ResetReservations ==
    /\ ~crashed
    /\ \/ /\ nextFundingID' = 0
          /\ fundingLimbo' = {}
          /\ lockedOutPoints' = {}
          /\ UNCHANGED crashed
       \/ /\ crashed' = TRUE
          /\ UNCHANGED <<nextFundingID, fundingLimbo, lockedOutPoints>>
    /\ UNCHANGED <<msgChan, rid, fundAmt, inputs, spent, confirming, chanOpen, step,
                   cancelled, quit, faults>>

SpecWithReset == Init /\ [][Next \/ ResetReservations]_vars

-----------------------------------------------------------------------------
(* Properties                                                              *)

(* Types; besides, a started reservation carries an id the wallet handed  *)
(* out, and the limbo, a map, holds at most one reservation per id.       *)
TypeOK ==
    /\ msgChan \in Seq(Reservations)
    /\ nextFundingID \in 0..MaxReservations
    /\ rid \in [Reservations -> 0..MaxReservations]
    /\ \A r \in Started : step[r] # "requested" => rid[r] \in 1..MaxReservations
    /\ fundingLimbo \subseteq Started
    /\ \A p, q \in fundingLimbo : p # q => rid[p] # rid[q]
    /\ fundAmt \in [Reservations -> FundingAmounts \cup {0}]
    /\ inputs \in [Reservations -> SUBSET Coins]
    /\ lockedOutPoints \subseteq Coins /\ spent \subseteq Coins
    /\ confirming \subseteq Reservations /\ cancelled \subseteq Reservations
    /\ chanOpen \in [Reservations -> {"none", "channel", "nil"}]
    /\ step \in [Reservations -> Steps]
    /\ crashed \in BOOLEAN /\ quit \in BOOLEAN
    /\ faults \in 0..MaxFaults

(* Funding-lock correctness (spec): no output is an input of two          *)
(* reservations that are live at once, in the limbo or published and     *)
(* awaiting confirmation.  Coin selection lists only unlocked outputs and *)
(* cancellation unlocks only what leaves the limbo.                       *)
FundingLockCorrect ==
    \A i, j \in ActiveReservations \cup confirming :
        i # j => inputs[i] \cap inputs[j] = {}

(* Every locked output belongs to a reservation still in the limbo, which *)
(* a cancel can release, or was spent by a published funding transaction. *)
(* A lock no reservation accounts for is lost until the wallet restarts:  *)
(* the reservation manager never looks at it again.                       *)
NoLeakedLocks ==
    lockedOutPoints \subseteq spent \cup UNION {inputs[i] : i \in ActiveReservations}

(* A caller blocked in InitChannelReservation is answered: once the       *)
(* dispatcher has taken its request, every return of                      *)
(* handleFundingReserveRequest sends on both reply channels, so the       *)
(* caller gets its reservation or its error, unless the wallet shuts down *)
(* or dies with the request still queued.                                 *)
RequestsAnswered ==
    \A res \in Reservations :
        step[res] = "requested" ~> step[res] # "requested" \/ quit \/ crashed

(* The process never panics: handleChannelOpen's error path for an id    *)
(* missing from the limbo reports the error without dereferencing the    *)
(* reservation it did not find.                                           *)
NoNilDereference == ~crashed
=============================================================================
