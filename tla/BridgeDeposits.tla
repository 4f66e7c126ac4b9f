---------------------------- MODULE BridgeDeposits ----------------------------
(***************************************************************************)
(* Deposits of the bridge from one chain: the MercataBridge contract on    *)
(* STRATO and the two pollers of each bridge server.  The deposit poller   *)
(* scans the chain in windows of blocks, records their deposits on STRATO  *)
(* and moves the checkpoints on; the initiated-deposit poller verifies     *)
(* what is recorded and has it minted, or reviewed by an operator.         *)
(* Servers may stop at any moment, and a call to the contract may be mined *)
(* after its poster has given up on it.                                    *)
(***************************************************************************)
EXTENDS Naturals, FiniteSets

CONSTANTS
    Deposit,       \* deposits into the router, numbered in their order
    MaxBlock,      \* bound: length of the chain
    Made,          \* what may be on it: the block of each deposit, those that share a
                   \* transaction with others and those that ask for an action
    Span,          \* blocks of a window
    MaxWindows,    \* windows of one poll
    Server,        \* processes running the bridge service
    Configured,    \* values of BRIDGE_RECORD_DEPOSIT_WINDOW: which calls record a window
    Refused,       \* deposits recordDepositWindow reverts on, however often it is called
    Rebasing,      \* deposits of tokens the oracle has a rebase factor for
    Balanced,      \* whether two requests may reach different nodes of the chain
    Blind,         \* whether a verification may go without the oracle's rebase factor
    Late,          \* bound: kinds of calls mined after their poster has given up on them
    MaxLate        \* bound: such calls at a time

ASSUME DepositsAssumption ==
    /\ Deposit \subseteq Nat /\ MaxBlock \in Nat
    /\ Made \subseteq [at : [Deposit -> 1 .. MaxBlock], shared : SUBSET Deposit, action : SUBSET Deposit]
    /\ Span \in Nat \ {0} /\ MaxWindows \in Nat \ {0}
    /\ Rebasing \subseteq Deposit /\ Configured \subseteq BOOLEAN /\ Balanced \in BOOLEAN /\ Blind \in BOOLEAN

VARIABLES
    chain,        \* the chain: its last block with enough confirmations, and what is on it
    record,       \* the contract's BridgeStatus of each deposit
    rebased,      \* deposits recorded with an amount that was rebased
    checkpoint,   \* the contract's lastProcessedBlock
    local,        \* per server: lastProcessedBlocks.json
    dead,         \* per server: depositDeadLetters.json
    mempool,      \* calls to the contract whose posters did not learn that they were posted
    scan,         \* per server: where the deposit poller is
    judge         \* per server: where the initiated-deposit poller is

contractVars == <<record, rebased, checkpoint>>
vars == <<chain, record, rebased, checkpoint, local, dead, mempool, scan, judge>>

Block == 0 .. MaxBlock
Chain == [head : Block, at : [Deposit -> 1 .. MaxBlock], shared : SUBSET Deposit, action : SUBSET Deposit]

Status == {"none", "initiated", "review", "quarantined", "completed", "aborted"}

Call == [kind : {"window", "deposits", "advance", "confirm", "review"},
         of : SUBSET Deposit, to : Block, rebased : BOOLEAN]

Scanning ==
    [at : {"idle", "reading", "recording", "each", "verifying", "advancing", "saving"},
     windowed : BOOLEAN, from : 0 .. MaxBlock + 1, upto : Block, rebased : BOOLEAN,
     rest : SUBSET Deposit, then : {"advancing", "saving"}]

Judging == [at : {"idle", "confirming", "reviewing"}, good : SUBSET Deposit, bad : SUBSET Deposit]

Resting == [at |-> "idle", windowed |-> TRUE, from |-> 0, upto |-> 0,
            rebased |-> FALSE, rest |-> {}, then |-> "saving"]
Asleep  == [at |-> "idle", good |-> {}, bad |-> {}]

Least(m, n)    == IF m < n THEN m ELSE n
Greatest(m, n) == IF m < n THEN n ELSE m

-----------------------------------------------------------------------------
(* The contract *)

Recorded(d) == record[d] # "none"

\* A call reverts as a whole.
Accepted(c) ==
    CASE c.kind = "window"   -> c.of \cap Refused = {}
      [] c.kind = "deposits" -> \A d \in c.of : ~ Recorded(d)
      [] c.kind = "advance"  -> c.to >= checkpoint
      [] c.kind = "confirm"  -> \A d \in c.of : record[d] \in {"initiated", "review"}
      [] c.kind = "review"   -> \A d \in c.of : record[d] = "initiated"

\* What is recorded stays as it is; the contract quarantines what it cannot mint.
Register(ds, held, r) ==
    LET fresh == {d \in ds : ~ Recorded(d)}
    IN  /\ record' = [d \in Deposit |-> IF d \in fresh
                                        THEN IF d \in held THEN "quarantined" ELSE "initiated"
                                        ELSE record[d]]
        /\ rebased' = IF r THEN rebased \cup (fresh \cap Rebasing) ELSE rebased

Become(ds, st) ==
    /\ record' = [d \in Deposit |-> IF d \in ds THEN st ELSE record[d]]
    /\ UNCHANGED <<rebased, checkpoint>>

Apply(c) ==
    \/ /\ c.kind = "window"
       /\ \E held \in SUBSET c.of : Register(c.of, held, c.rebased)
       /\ checkpoint' = Greatest(checkpoint, c.to)
    \/ /\ c.kind = "deposits"
       /\ Register(c.of, {}, c.rebased)
       /\ UNCHANGED checkpoint
    \/ c.kind = "advance" /\ checkpoint' = c.to /\ UNCHANGED <<record, rebased>>
    \/ c.kind = "confirm" /\ Become(c.of, "completed")
    \/ c.kind = "review" /\ Become(c.of, "review")

\* A deposit that cannot be minted as requested reverts the calls that cannot
\* quarantine it.
Unroutable(c) == c.kind = "deposits"

Mined(c, ok) ==
    \/ ok /\ Accepted(c) /\ Apply(c)
    \/ ~ ok /\ (~ Accepted(c) \/ Unroutable(c)) /\ UNCHANGED contractVars

-----------------------------------------------------------------------------
(* The deposit poller *)

WindowEnd(t) == Least(t.from + Span - 1, t.upto)

ScanGoes(s, t) == scan' = [scan EXCEPT ![s] = t]

\* Without recordDepositWindow the deposits with an action have a call of their own,
\* after the others.
Batch(t) == IF t.windowed \/ t.rest \subseteq chain.action THEN t.rest ELSE t.rest \ chain.action

First(d, ds) == d \in ds /\ \A e \in ds : d <= e

\* The windows of a poll start where both checkpoints have been; the index may be
\* late about the contract's.
StartScan(s) ==
    /\ scan[s].at = "idle"
    /\ \E seen \in 0 .. checkpoint, reached \in 0 .. chain.head, windowed \in Configured :
          LET last == Greatest(local[s], seen)
          IN  /\ reached > last
              /\ ScanGoes(s, [Resting EXCEPT !.at = "reading", !.windowed = windowed, !.from = last + 1,
                                             !.upto = Least(reached, last + Span * MaxWindows)])
    /\ UNCHANGED <<chain, contractVars, local, dead, mempool, judge>>

\* Variant: the node that answers need not have the last block of the window.
ReadWindowUnchecked(s) ==
    /\ scan[s].at = "reading"
    /\ \E reached \in 0 .. chain.head, r \in BOOLEAN :
          LET to == WindowEnd(scan[s])
              ds == {d \in Deposit : chain.at[d] \in scan[s].from .. Least(to, reached)}
          IN  /\ r => ds \cap Rebasing # {}
              /\ ScanGoes(s, [scan[s] EXCEPT !.at = IF ds = {} THEN "saving" ELSE "recording",
                                             !.rebased = r, !.rest = ds,
                                             !.then = IF scan[s].windowed THEN "saving" ELSE "advancing"])
    /\ UNCHANGED <<chain, contractVars, local, dead, mempool, judge>>

\* A node that has the last block of the window answers with its deposits; with
\* Balanced another node answers, which may not have got so far.  An oracle that
\* does not answer leaves the amounts as they are.
ReadWindow(s) ==
    /\ scan[s].at = "reading"
    /\ \E reached \in 0 .. chain.head, r \in BOOLEAN :
          LET to == WindowEnd(scan[s])
              ds == {d \in Deposit : chain.at[d] \in scan[s].from .. Least(to, reached)}
          IN  /\ Balanced \/ reached >= to
              /\ r => ds \cap Rebasing # {}
              /\ ScanGoes(s, [scan[s] EXCEPT !.at = IF ds = {} THEN "saving" ELSE "recording",
                                             !.rebased = r, !.rest = ds,
                                             !.then = IF scan[s].windowed THEN "saving" ELSE "advancing"])
    /\ UNCHANGED <<chain, contractVars, local, dead, mempool, judge>>

\* Without recordDepositWindow only one deposit of a transaction can be told
\* apart, so none is recorded.
SetAside(s) ==
    /\ scan[s].at = "recording" /\ ~ scan[s].windowed
    /\ \E d \in scan[s].rest \cap chain.shared :
          /\ dead' = [dead EXCEPT ![s] = @ \cup {d}]
          /\ LET rest == scan[s].rest \ {d}
             IN  ScanGoes(s, [scan[s] EXCEPT !.rest = rest,
                                             !.at = IF rest = {} THEN "verifying" ELSE "recording"])
    /\ UNCHANGED <<chain, contractVars, local, mempool, judge>>

\* The next calls the scan of s waits for.
ScanCalls(s) ==
    LET t == scan[s]
        to == WindowEnd(t)
    IN  CASE t.at = "recording" /\ t.windowed ->
                 {[kind |-> "window", of |-> t.rest, to |-> to, rebased |-> t.rebased]}
          [] t.at = "recording" /\ ~ t.windowed /\ t.rest \cap chain.shared = {} ->
                 {[kind |-> "deposits", of |-> Batch(t), to |-> 0, rebased |-> t.rebased]}
          [] t.at = "each" ->
                 {[kind |-> IF t.windowed THEN "window" ELSE "deposits",
                   of |-> {d}, to |-> 0, rebased |-> t.rebased] : d \in {e \in t.rest : First(e, Batch(t))}}
          [] t.at = "advancing" ->
                 {[kind |-> IF t.windowed THEN "window" ELSE "advance",
                   of |-> {}, to |-> to, rebased |-> FALSE]}
          [] OTHER -> {}

\* Once ds are settled, the rest of the window is recorded, or else read back.
Onward(t, ds) ==
    LET u == [t EXCEPT !.rest = @ \ ds]
    IN  [u EXCEPT !.at = IF u.rest = {} THEN "verifying"
                         ELSE IF Batch(u) \subseteq Batch(t) THEN t.at ELSE "recording"]

\* Variant: a deposit that reverts is forgotten.
SettleQuietly(s, t, c, ok) ==
    /\ dead' = dead
    /\ ScanGoes(s, Onward(t, c.of))

\* A deposit that reverts by itself is set aside, unless it had been recorded before.
Settle(s, t, c, ok) ==
    LET known == c.kind = "deposits" /\ \A d \in c.of : Recorded(d)
    IN  /\ dead' = IF ok \/ known THEN dead ELSE [dead EXCEPT ![s] = @ \cup c.of]
        /\ ScanGoes(s, Onward(t, c.of))

\* Variant: a batch that reverts is tried again as it is.
CallRecordAgain(s) ==
    /\ scan[s].at = "recording"
    /\ \E c \in ScanCalls(s), ok \in BOOLEAN :
          /\ Mined(c, ok)
          /\ IF ok THEN Settle(s, scan[s], c, ok) ELSE UNCHANGED <<scan, dead>>
    /\ UNCHANGED <<chain, local, mempool, judge>>

\* All of the window, or of the batch, at once.  A batch that reverts for good is
\* tried one deposit at a time, and then the window's checkpoint is due by itself.
CallRecord(s) ==
    /\ scan[s].at = "recording"
    /\ \E c \in ScanCalls(s), ok \in BOOLEAN :
          LET t == IF ok THEN scan[s] ELSE [scan[s] EXCEPT !.then = "advancing"]
          IN  /\ Mined(c, ok)
              /\ IF ok \/ Cardinality(c.of) = 1 THEN Settle(s, t, c, ok)
                 ELSE ScanGoes(s, [t EXCEPT !.at = "each"]) /\ UNCHANGED dead
    /\ UNCHANGED <<chain, local, mempool, judge>>

CallEach(s) ==
    /\ scan[s].at = "each"
    /\ \E c \in ScanCalls(s), ok \in BOOLEAN : Mined(c, ok) /\ Settle(s, scan[s], c, ok)
    /\ UNCHANGED <<chain, local, mempool, judge>>

\* The index must show the deposits before a checkpoint passes them, which it does
\* in the end: what the calls recorded is recorded.
VerifyRecorded(s) ==
    /\ scan[s].at = "verifying"
    /\ ScanGoes(s, [scan[s] EXCEPT !.at = scan[s].then])
    /\ UNCHANGED <<chain, contractVars, local, dead, mempool, judge>>

CallAdvance(s) ==
    /\ scan[s].at = "advancing"
    /\ \E c \in ScanCalls(s), ok \in BOOLEAN :
          /\ Mined(c, ok)
          /\ ScanGoes(s, IF ok THEN [scan[s] EXCEPT !.at = "saving"] ELSE Resting)
    /\ UNCHANGED <<chain, local, dead, mempool, judge>>

SaveLocal(s) ==
    /\ scan[s].at = "saving"
    /\ LET to == WindowEnd(scan[s])
       IN  /\ local' = [local EXCEPT ![s] = to]
           /\ ScanGoes(s, IF to < scan[s].upto
                          THEN [scan[s] EXCEPT !.at = "reading", !.from = to + 1]
                          ELSE Resting)
    /\ UNCHANGED <<chain, contractVars, dead, mempool, judge>>

-----------------------------------------------------------------------------
(* The initiated-deposit poller *)

JudgeGoes(s, t) == judge' = [judge EXCEPT ![s] = t]

\* Variant: the amount recorded is not compared with the transfer.
JudgeByReceipt(s) ==
    /\ judge[s].at = "idle"
    /\ \E seen \in SUBSET {d \in Deposit : record[d] \notin {"none", "quarantined"}} :
          /\ seen # {}
          /\ \E good \in SUBSET seen :
                JudgeGoes(s, [at   |-> IF good = {} THEN "reviewing" ELSE "confirming",
                              good |-> good, bad |-> seen \ good])
    /\ UNCHANGED <<chain, contractVars, local, dead, mempool, scan>>

\* The poll is about deposits the index says are initiated, which it may be late
\* about.  One is good when the amount recorded is what the transfer comes to; a
\* receipt may be missing.
Judge(s) ==
    /\ judge[s].at = "idle"
    /\ \E seen \in SUBSET {d \in Deposit : record[d] \notin {"none", "quarantined"}}, r \in BOOLEAN :
          /\ seen # {} /\ (r \/ Blind)
          /\ \E good \in SUBSET {d \in seen : r /\ d \in Rebasing <=> d \in rebased} :
                JudgeGoes(s, [at   |-> IF good = {} THEN "reviewing" ELSE "confirming",
                              good |-> good, bad |-> seen \ good])
    /\ UNCHANGED <<chain, contractVars, local, dead, mempool, scan>>

JudgeCalls(s) ==
    CASE judge[s].at = "confirming" -> {[kind |-> "confirm", of |-> judge[s].good, to |-> 0, rebased |-> FALSE]}
      [] judge[s].at = "reviewing"  -> {[kind |-> "review", of |-> judge[s].bad, to |-> 0, rebased |-> FALSE]}
      [] OTHER -> {}

\* A state the poller did not expect means that another server has been here.
CallJudge(s) ==
    /\ \E c \in JudgeCalls(s), ok \in BOOLEAN :
          /\ Mined(c, ok)
          /\ JudgeGoes(s, IF c.kind = "confirm" /\ judge[s].bad # {}
                          THEN [judge[s] EXCEPT !.at = "reviewing", !.good = {}] ELSE Asleep)
    /\ UNCHANGED <<chain, local, dead, mempool, scan>>

-----------------------------------------------------------------------------
(* Failures *)

\* An error ends a poll; a process that stops loses both.
EndScan(s) ==
    /\ scan[s].at # "idle"
    /\ ScanGoes(s, Resting)
    /\ UNCHANGED <<chain, contractVars, local, dead, mempool, judge>>

EndJudge(s) ==
    /\ judge[s].at # "idle"
    /\ JudgeGoes(s, Asleep)
    /\ UNCHANGED <<chain, contractVars, local, dead, mempool, scan>>

\* An unreadable file of checkpoints is taken for an empty one.
LoseLocal(s) ==
    /\ local[s] # 0
    /\ local' = [local EXCEPT ![s] = 0]
    /\ UNCHANGED <<chain, contractVars, dead, mempool, scan, judge>>

\* A call is posted and the response is lost, or does not come in time: it may be
\* mined later.  The client posts it again, or the poll ends.
Unanswered(s) ==
    /\ \E c \in ScanCalls(s) \cup JudgeCalls(s) :
          /\ c.kind \in Late /\ mempool' = mempool \cup {c}
          /\ Cardinality(mempool') <= MaxLate
    /\ UNCHANGED <<chain, contractVars, local, dead, scan, judge>>

MineLate(c) ==
    /\ c \in mempool
    /\ \E ok \in BOOLEAN : Mined(c, ok)
    /\ mempool' = mempool \ {c}
    /\ UNCHANGED <<chain, local, dead, scan, judge>>

-----------------------------------------------------------------------------
(* The chain, the oracle and the owner of the contract *)

Confirm ==
    /\ chain.head < MaxBlock
    /\ chain' = [chain EXCEPT !.head = @ + 1]
    /\ UNCHANGED <<contractVars, local, dead, mempool, scan, judge>>

\* A quarantined deposit is given a route and an amount, which may be wrong.
Reroute(d) ==
    /\ record[d] = "quarantined"
    /\ record' = [record EXCEPT ![d] = "initiated"]
    /\ rebased' \in {rebased \cup ({d} \cap Rebasing), rebased \ {d}}
    /\ UNCHANGED <<chain, checkpoint, local, dead, mempool, scan, judge>>

AbortDeposit(d) ==
    /\ record[d] \in {"review", "quarantined"}
    /\ Become({d}, "aborted")
    /\ UNCHANGED <<chain, local, dead, mempool, scan, judge>>

\* The owner confirms by hand only what was rebased.
ConfirmReviewed(d) ==
    /\ record[d] = "review" /\ (d \in Rebasing => d \in rebased)
    /\ Become({d}, "completed")
    /\ UNCHANGED <<chain, local, dead, mempool, scan, judge>>

Init ==
    /\ \E made \in Made : chain = [head |-> 0, at |-> made.at, shared |-> made.shared, action |-> made.action]
    /\ checkpoint = 0 /\ mempool = {}
    /\ record = [d \in Deposit |-> "none"] /\ rebased = {}
    /\ local = [s \in Server |-> 0] /\ dead = [s \in Server |-> {}]
    /\ scan = [s \in Server |-> Resting] /\ judge = [s \in Server |-> Asleep]

ScanStep(s) ==
    \/ StartScan(s) \/ ReadWindow(s) \/ SetAside(s) \/ CallRecord(s) \/ CallEach(s)
    \/ VerifyRecorded(s) \/ CallAdvance(s) \/ SaveLocal(s) \/ EndScan(s)

Next ==
    \/ \E s \in Server : ScanStep(s) \/ LoseLocal(s) \/ Unanswered(s)
    \/ \E s \in Server : Judge(s) \/ CallJudge(s) \/ EndJudge(s)
    \/ \E c \in mempool : MineLate(c)
    \/ \E d \in Deposit : Reroute(d) \/ AbortDeposit(d) \/ ConfirmReviewed(d)
    \/ Confirm

Spec == Init /\ [][Next]_vars
=============================================================================
