------------------------------ MODULE FundingTx ------------------------------
(***************************************************************************)
(* How lnd-cc builds the transactions both ends sign without sending them *)
(* to each other: each end assembles the outputs in its own order, sorts  *)
(* them canonically (txsort, BIP-69) and then colourifies them            *)
(* (ColorifyTx): every output's value becomes a colour-transfer           *)
(* instruction (Output = its index, Amount = its value) carried in a final *)
(* OP_RETURN output, and the output itself is re-written to a dust value. *)
(* The peer checks a signature, so both ends must produce the same bytes. *)
(*                                                                         *)
(* An output is a record [value, script, data]: script is a sequence of   *)
(* numbers standing for the pkScript bytes and data is the instruction    *)
(* list of the OP_RETURN output (<<>> elsewhere).                          *)
(***************************************************************************)
EXTENDS Integers, SequencesExt

CONSTANTS
    Dust,           \* dustAmount
    FundingDust,    \* dustAmount*15, the value of a funding-tx output
    OpReturnScript  \* the OP_RETURN script (its bytes follow from data)

TxOut(value, script) == [value |-> value, script |-> script, data |-> <<>>]

\* selectCoinsAndChange: one change output when the change is not zero.
ChangeOutputs(changeAmt, script) ==
    IF changeAmt # 0 THEN <<TxOut(changeAmt, script)>> ELSE <<>>

\* bytes.Compare(a, b) < 0: lexicographic, a proper prefix first.
RECURSIVE BytesLess(_, _)
BytesLess(a, b) ==
    /\ b # <<>>
    /\ \/ a = <<>>
       \/ a[1] < b[1]
       \/ a[1] = b[1] /\ BytesLess(Tail(a), Tail(b))

\* txsort.InPlaceSort on the outputs (btcutil/txsort, BIP-69): ascending by
\* value, ties by pkScript bytes.
OutputBefore(a, b) ==
    \/ a.value < b.value
    \/ a.value = b.value /\ BytesLess(a.script, b.script)
TxSort(outs) == SortSeq(outs, OutputBefore)

\* A mutant: the instruction index counts from one.
ColorifyTxOneBased(outs, isFunding) ==
    LET insts == [i \in DOMAIN outs |-> [Output |-> i, Amount |-> outs[i].value]]
    IN [i \in DOMAIN outs |->
           TxOut(IF isFunding THEN FundingDust ELSE Dust, outs[i].script)]
       \o <<[value |-> 0, script |-> OpReturnScript, data |-> insts]>>

\* ColorifyTx: one instruction per output, in output order, each output
\* re-written to dust, the OP_RETURN output (value 0) appended last.
\* The funding path calls lndcc.ColorifyTx (unnamed/part_000, 42-89) and the
\* commitment and closing paths lnwallet's copy (colored.go, 28-75); the
\* two copies do the same.
ColorifyTx(outs, isFunding) ==
    LET insts == [i \in DOMAIN outs |-> [Output |-> i - 1, Amount |-> outs[i].value]]
    IN [i \in DOMAIN outs |->
           TxOut(IF isFunding THEN FundingDust ELSE Dust, outs[i].script)]
       \o <<[value |-> 0, script |-> OpReturnScript, data |-> insts]>>

\* A mutant: the outputs are colourified in assembly order, never sorted.
BuildFundingTxUnsorted(ourChange, theirChange, fundingOut) ==
    ColorifyTx(ourChange \o theirChange \o <<fundingOut>>, TRUE)

(* handleContributionMsg: our change outputs, then theirs, then the 2-of-2 *)
(* funding output; sort; ColorifyTx(fundingTx, true).  The responder of  *)
(* the same channel runs it with "our" and "their" swapped.               *)
BuildFundingTx(ourChange, theirChange, fundingOut) ==
    ColorifyTx(TxSort(ourChange \o theirChange \o <<fundingOut>>), TRUE)

-----------------------------------------------------------------------------
(* What a colourified transaction pays: the colour amount each script     *)
(* receives, read the way the colour protocol reads it (instruction k     *)
(* pays Amount to output k).  As a bag of <<script, amount>> pairs.       *)
ColouredPayments(tx) ==
    LET insts == tx[Len(tx)].data
    IN ToBag([k \in DOMAIN insts |->
                 <<tx[insts[k].Output + 1].script, insts[k].Amount>>])

\* The payments the assembled outputs stand for, before colourifying.
IntendedPayments(outs) == ToBag([k \in DOMAIN outs |-> <<outs[k].script, outs[k].value>>])
=============================================================================
