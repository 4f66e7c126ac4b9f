--------------------------- MODULE SequencerSafety ----------------------------
(***************************************************************************)
(* What the sequencer's records promise about the VM's log, through        *)
(* crashes between its durable writes, and what must eventually be logged. *)
(***************************************************************************)
EXTENDS Sequencer, FiniteSets

\* Every variable keeps its type.
TypeOK ==
    /\ tip \in Hash /\ best \in Hash /\ unsaved \in Block \cup {None}
    /\ emitted \subseteq Hash /\ parked \in [Hash -> Seq(Copy)]
    /\ disk \in [emitted : SUBSET Hash, parked : [Hash -> Seq(Copy)]]
    /\ work \in Seq(Copy) /\ pending \in Seq(Block) /\ log \in Seq(Hash)
    /\ step \in Step /\ crashes \in Nat

\* The VM never gets a block before its parent: whatever order blocks arrive
\* in, whichever chunk was the last one written before a crash.
NoGap(s) ==
    \A i \in DOMAIN s : s[i] = Genesis \/ \E j \in 1 .. i - 1 : s[j] = s[i].parent

LogHasNoGap == NoGap(log)

\* writeToKafka: the durable records never claim a block the log does not
\* have.
RecordsAreLogged == disk.emitted \cup {best} \subseteq Members(log)

\* Where a restarted engine resumes, the DependentBlockDB agrees: unless an
\* operator has deleted its mark, the best sequenced block is marked, so that
\* the next block finds its parent emitted.
BestIsMarked == best \in disk.emitted \cup Deletable

\* Within one life of the process no block is logged twice, although copies
\* come from many peers, votes and sync race, and an operator may delete marks.
Times(s, b) == Cardinality({i \in DOMAIN s : s[i] = b})

LoggedOncePerLife == \A b \in Block : Times(log, b) <= crashes + 1

\* The inductive invariant behind these: log and pending output are one gapless
\* sequence, marks and best block lie within it, and nothing is pending once
\* the marks are being committed.
Output == log \o pending

MarksFollowTheOutput ==
    /\ NoGap(Output)
    /\ emitted \subseteq Members(Output)
    /\ unsaved \in Members(Output) \cup {None}
    /\ step \in {"marking", "saving"} => pending = <<>>

\* But for deletions marks only grow, and are durable before what is saved.
MarksOnlyGrow ==
    /\ disk.emitted \subseteq emitted \cup Deletable
    /\ unsaved \in emitted \cup Deletable \cup {None}
    /\ step = "saving" => disk.emitted = emitted

\* A block is yielded once in a life, and then the engine's tip has passed it:
\* the tip is what keeps a block whose mark was deleted from being yielded again.
YieldedOncePerLife ==
    \A b \in Block :
        Times(Output, b) <= crashes + (IF Height(b) <= Height(tip) THEN 1 ELSE 0)

SInv ==
    /\ TypeOK /\ MarksFollowTheOutput /\ MarksOnlyGrow /\ YieldedOncePerLife
    /\ RecordsAreLogged /\ BestIsMarked

\* Peers deliver every block of the chain again and again and the event loop
\* works off what is delivered; what it emits is flushed.
Fairness ==
    /\ \A b \in Chain : SF_vars(HistoricBlock([block |-> b, sealed |-> TRUE]))
    /\ WF_vars(EmitNext) /\ WF_vars(Flush)
    /\ WF_vars(WriteChunk) /\ WF_vars(CommitMarks) /\ WF_vars(SaveBest)

LiveSpec == Spec /\ Fairness

\* writeToKafka, DependentBlockDB: after a crash, a block is emitted again when
\* p2p re-delivers it.  So every block of the chain comes to be logged,
\* whatever was parked, dropped or lost on the way.
LoggedOnceDelivered == \A b \in Chain : <>(b \in Members(log))

\* The engine's tip is marked, and no block after it is marked and logged already.
InStep ==
    /\ tip \in emitted
    /\ \A b \in Chain : b.parent = tip /\ b \in emitted => b \notin Members(log)

\* That holds unless the engine falls out of step with the DependentBlockDB, because
\* an operator deletes the mark of its tip or a crash between the two durable
\* records takes it back behind a mark.
DeliveredInStep == []InStep => LoggedOnceDelivered
=============================================================================
