------------------------------ MODULE Sequencer -------------------------------
(***************************************************************************)
(* The block path of strato-sequencer: historic blocks from p2p are parked *)
(* until their parent has been emitted, handed to the consensus engine and *)
(* written to the VM's log; what has been emitted, and the best sequenced  *)
(* block, are made durable after the log.  The process may die between any *)
(* two of its durable writes.                                              *)
(*                                                                         *)
(* tip       the last block the consensus engine of this process committed *)
(* emitted,  the DependentBlockDB as reads see it, staged writes included: *)
(*  parked   hashes marked Emitted, and copies parked under a parent's hash*)
(* disk      the same in LevelDB                                           *)
(* best      BestSequencedBlock in Redis; unsaved is the one not yet put   *)
(* work      blocks whose emission has begun: emitBlockAndCachedChildren   *)
(* pending   VM tasks yielded to writeToKafka and not yet written          *)
(* log       the VM's log (vm_tasks)                                       *)
(* step      what the process is doing: handling events or flushing        *)
(*                                                                         *)
(* What consensus decides is the constant Chain; Blockstanbul is the model *)
(* of how.                                                                 *)
(***************************************************************************)
EXTENDS Integers, Sequences

CONSTANTS
    Block,        \* blocks peers may send, as records with number and parent
    Chain,        \* the blocks consensus decides
    Genesis,      \* marked Emitted when the node was bootstrapped
    None,         \* Haskell's Nothing
    Deletable,    \* hashes an operator may delete from the DependentBlockDB
    CrashPoints,  \* steps at which the process may die
    PutFails,     \* whether the put to Redis may fail
    MaxCrashes    \* bound: how often it dies

Step == {"handling", "writing", "marking", "saving"}

Height(b) == IF b = Genesis THEN 0 ELSE b.number

ASSUME SequencerAssumption ==
    /\ Genesis \notin Block /\ None \notin Block \cup {Genesis}
    /\ Chain \subseteq Block /\ Deletable \subseteq Block
    /\ CrashPoints \subseteq Step /\ PutFails \in BOOLEAN /\ MaxCrashes \in Nat
    /\ Block \subseteq [number : Nat \ {0}, parent : Block \cup {Genesis}]

\* Consensus decides one block a height, each on the one before it.
ASSUME ChainAssumption ==
    /\ \A b \in Chain : b.parent \in Chain \cup {Genesis} /\ b.number = Height(b.parent) + 1
    /\ \A b, c \in Chain : b.number = c.number => b = c

VARIABLES tip, emitted, parked, disk, best, unsaved, work, pending, log, step, crashes
engineVars == <<tip, unsaved>>
storeVars  == <<disk, best, log>>
vars == <<tip, emitted, parked, disk, best, unsaved, work, pending, log, step, crashes>>

Hash == Block \cup {Genesis}

\* A block with its commitment seals; copies whose seals do not verify differ
\* from the good one, hash to the same and are parked separately.
Copy == {c \in [block : Block, sealed : BOOLEAN] : c.sealed => c.block \in Chain}

Members(s) == {s[i] : i \in DOMAIN s}

-----------------------------------------------------------------------------
(* Blocks from p2p *)

\* isBlockReadyForEmission.
IsReady(b) == b.parent \in emitted

\* cacheBlockUntilParentEmitted.
Park(c) ==
    parked' = IF c \in Members(parked[c.block.parent]) THEN parked
              ELSE [parked EXCEPT ![c.block.parent] = <<c>> \o @]

\* emitOrCacheHistoricBlock.
HistoricBlock(c) ==
    /\ step = "handling" /\ work = <<>>
    /\ IF IsReady(c.block)
       THEN work' = <<c>> /\ UNCHANGED parked
       ELSE Park(c) /\ UNCHANGED work
    /\ UNCHANGED <<emitted, pending, step, crashes, engineVars, storeVars>>

\* claimBlockForEmission refuses what has been emitted.
Claimed(b) == b \in emitted

\* The engine commits b: insertEmitted yields it to the log if its parent was
\* emitted, and drops it otherwise.
Commit(b, children) ==
    /\ tip' = b
    /\ IF b.parent \in emitted
       THEN /\ emitted' = emitted \cup {b}
            /\ parked'  = [parked EXCEPT ![b] = <<>>]
            /\ pending' = Append(pending, b)
            /\ unsaved' = b
            /\ work'    = children \o (IF work = <<>> THEN <<>> ELSE Tail(work))
       ELSE /\ work' = IF work = <<>> THEN <<>> ELSE Tail(work)
            /\ UNCHANGED <<emitted, parked, pending, unsaved>>

\* Variant: the block number is not checked.
AcceptsAnywhere(c) == c.sealed

\* PreviousBlock as replayHistoricBlock decides it: see Blockstanbul.
Accepts(c) == c.sealed /\ c.block.number = Height(tip) + 1

\* emitBlockAndCachedChildren for the block on top of the work.
EmitNext ==
    /\ step = "handling" /\ work # <<>>
    /\ LET c == Head(work) IN
       \/ /\ Claimed(c.block)
          /\ work' = Tail(work)
          /\ UNCHANGED <<tip, emitted, parked, pending, unsaved>>
       \/ /\ ~ Claimed(c.block) /\ Accepts(c)
          /\ Commit(c.block, parked[c.block])
       \/ /\ ~ Claimed(c.block) /\ ~ Accepts(c)     \* FailedHistoric
          /\ work'    = Tail(work)
          /\ emitted' = emitted \ {c.block}
          /\ parked'  = [parked EXCEPT ![c.block] = <<>>]
          /\ UNCHANGED <<tip, pending, unsaved>>
    /\ UNCHANGED <<step, crashes, storeVars>>

-----------------------------------------------------------------------------
(* Other events *)

\* A COMMIT completes the quorum of the block the engine is deciding.
VotedBlock ==
    /\ step = "handling" /\ work = <<>>
    /\ \E b \in Chain : b.parent = tip /\ Commit(b, <<>>)
    /\ UNCHANGED <<step, crashes, storeVars>>

\* IEDeleteDepBlock.
DeleteDepBlock(h) ==
    /\ step = "handling" /\ work = <<>>
    /\ emitted' = emitted \ {h}
    /\ parked'  = [parked EXCEPT ![h] = <<>>]
    /\ UNCHANGED <<work, pending, step, crashes, engineVars, storeVars>>

-----------------------------------------------------------------------------
(* writeToKafka *)

\* Variant: marks reach LevelDB as soon as they are made.
FlushMarks ==
    /\ step = "handling"
    /\ work = <<>> \/ pending # <<>>
    /\ step' = "writing"
    /\ disk' = [emitted |-> emitted, parked |-> parked]
    /\ UNCHANGED <<emitted, parked, work, pending, best, log, crashes, engineVars>>

\* A batch has been handled, or what is pending has reached its cap.
Flush ==
    /\ step = "handling"
    /\ work = <<>> \/ pending # <<>>
    /\ step' = "writing"
    /\ UNCHANGED <<emitted, parked, work, pending, crashes, engineVars, storeVars>>

Backwards(s) == [i \in DOMAIN s |-> s[Len(s) + 1 - i]]

\* Variant: what is pending, accumulated newest first, is not reversed.
WriteNewestFirst ==
    /\ step = "writing"
    /\ step' = "marking" /\ log' = log \o Backwards(pending) /\ pending' = <<>>
    /\ UNCHANGED <<tip, emitted, parked, work, disk, best, unsaved, crashes>>

\* Variant: the best sequenced block is saved with the log.
WriteAndSave ==
    /\ step = "writing"
    /\ step' = "marking" /\ log' = log \o pending /\ pending' = <<>>
    /\ best' = IF unsaved = None THEN best ELSE unsaved
    /\ UNCHANGED <<tip, emitted, parked, work, disk, unsaved, crashes>>

\* One chunk is written, or none is left.
WriteChunk ==
    /\ step = "writing"
    /\ IF pending = <<>>
       THEN step' = "marking" /\ UNCHANGED <<log, pending>>
       ELSE /\ \E k \in 1 .. Len(pending) :
                 /\ log' = log \o SubSeq(pending, 1, k)
                 /\ pending' = SubSeq(pending, k + 1, Len(pending))
            /\ UNCHANGED step
    /\ UNCHANGED <<emitted, parked, work, disk, best, crashes, engineVars>>

\* commitDependentBlockDB.
CommitMarks ==
    /\ step = "marking" /\ step' = "saving"
    /\ disk' = [emitted |-> emitted, parked |-> parked]
    /\ UNCHANGED <<emitted, parked, work, pending, best, log, crashes, engineVars>>

\* Variant: puts whatever the best sequenced block is, Nothing included.
SaveAnything ==
    /\ step = "saving" /\ step' = "handling"
    /\ best' = unsaved /\ unsaved' = None
    /\ UNCHANGED <<emitted, parked, work, pending, disk, log, crashes, tip>>

\* The best sequenced block goes to Redis; a failed put is left to the next
\* flush.
SaveBest ==
    /\ step = "saving" /\ step' = "handling"
    /\ \/ unsaved # None /\ best' = unsaved /\ unsaved' = None
       \/ (unsaved = None \/ PutFails) /\ UNCHANGED <<best, unsaved>>
    /\ UNCHANGED <<emitted, parked, work, pending, disk, log, crashes, tip>>

\* The process dies and comes back: the engine starts from the best sequenced
\* block, and only what is durable is left.
Crash ==
    /\ step \in CrashPoints /\ crashes < MaxCrashes
    /\ crashes' = crashes + 1
    /\ tip' = best /\ unsaved' = None
    /\ emitted' = disk.emitted /\ parked' = disk.parked
    /\ work' = <<>> /\ pending' = <<>> /\ step' = "handling"
    /\ UNCHANGED storeVars

-----------------------------------------------------------------------------
Empty == [h \in Hash |-> <<>>]

\* bootstrapSequencer.
Init ==
    /\ tip = Genesis /\ best = Genesis /\ unsaved = None
    /\ emitted = {Genesis} /\ parked = Empty
    /\ disk = [emitted |-> {Genesis}, parked |-> Empty]
    /\ work = <<>> /\ pending = <<>> /\ log = <<Genesis>>
    /\ step = "handling" /\ crashes = 0

Next ==
    \/ \E c \in Copy : HistoricBlock(c)
    \/ EmitNext \/ VotedBlock \/ \E h \in Deletable : DeleteDepBlock(h)
    \/ Flush \/ WriteChunk \/ CommitMarks \/ SaveBest \/ Crash

Spec == Init /\ [][Next]_vars
=============================================================================
