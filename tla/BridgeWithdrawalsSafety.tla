----------------------- MODULE BridgeWithdrawalsSafety ------------------------
(***************************************************************************)
(* What makes withdrawals correct.                                         *)
(***************************************************************************)
EXTENDS BridgeWithdrawals

WithdrawalsTypeOK ==
    /\ held \subseteq Proposal
    /\ chain \in [Safe -> Seq([tx : Payout \cup {Other}, ok : BOOLEAN])]
    /\ status \in [Withdrawal -> Status]
    /\ custody \in [Withdrawal -> Payout \cup {None}]
    /\ mempool \subseteq Call
    /\ journal \in [Server -> SUBSET Proposal]
    /\ request \in [Server -> Requesting]
    /\ settle \in [Server -> Settling]

\* The Safes hold a payout of a withdrawal only if it is the one STRATO records
\* for it, so that no withdrawal has two payouts that could both run.
OnlyRecordedPayouts == \A h \in held : custody[h.w] = h.tx

\* Two transactions that paid the same thing are one transaction: with different
\* payments, a withdrawal is paid at most once.
PaidOnce ==
    \A a, b \in {h.tx : h \in held} : Paid(a) /\ Paid(b) /\ a.pays = b.pays => a = b

\* A Safe holds the transaction, or some server has it in its journal.
Kept(tx) ==
    \/ \E h \in held : h.tx = tx
    \/ \E s \in Server : \E e \in journal[s] : e.tx = tx

\* A payout that STRATO records and that can still run is never lost, whatever
\* becomes of the batches its withdrawal is in.
NoPayoutLost ==
    \A w \in Withdrawal :
        status[w] = "pending" /\ ~ Used(custody[w]) => Kept(custody[w])

\* Of a single withdrawal even a payout that cannot run any more is kept until it
\* is settled: the transaction poller gives up only what it finds in the journal.
NothingStranded ==
    \A w \in Withdrawal : status[w] = "pending" => Kept(custody[w])

-----------------------------------------------------------------------------
(* The promise *)

EscrowOf(st) ==
    CASE st = "none" -> "none"
      [] st \in {"initiated", "pending"} -> "locked"
      [] st = "completed" -> "burned"
      [] st \in {"aborted", "swept"} -> "given back"

\* The withdrawal has been paid when a transaction that pays it has run.
WasPaid(w) == \E h \in held : h.tx.pays = Payment[w] /\ Paid(h.tx)

Promise == INSTANCE WithdrawalSettlement WITH
    escrow <- [w \in Withdrawal |-> EscrowOf(status[w])],
    paid   <- {w \in Withdrawal : WasPaid(w)}

\* Every step of the bridge keeps the promise: a withdrawal is paid or given back,
\* never both, and its tokens are burned only once it has been paid.
KeepsThePromise == Promise!Settlement

\* A withdrawal whose tokens were given back is never paid.
NeverPaidAndGivenBack ==
    \A w \in Withdrawal : status[w] \in {"aborted", "swept"} => ~ WasPaid(w)

-----------------------------------------------------------------------------
(* Why the promise is kept *)

\* Transactions that pay for different withdrawals have different hashes.
DistinctPayments == \A v, w \in Withdrawal : Payment[v] = Payment[w] => v = w

OnRecord(p) == custody[p.w] = p.tx

\* The transaction has not paid and never will.
Dead(tx) == Used(tx) /\ ~ Paid(tx)

\* What a poll takes for dead is, unless payouts run while it decides.
TakenForDead(tx) == Hurried \/ Dead(tx)

PaysItsOwn(ps) == \A p \in ps : p.tx.pays = Payment[p.w]

OnePerWithdrawal(ps) == \A p, q \in ps : p.w = q.w => p = q

\* Whatever is kept for later pays the withdrawal it is for.
PayoutsInv ==
    /\ PaysItsOwn(held)
    /\ \A s \in Server : PaysItsOwn(journal[s])
    /\ \A w \in Withdrawal : custody[w] # None => custody[w].pays = Payment[w]

\* Only proposals run, and of those only what STRATO records.
SafesInv ==
    /\ OnlyRecordedPayouts
    /\ \A f \in Safe : \A n \in DOMAIN chain[f] :
          chain[f][n].tx = Other \/ \E h \in held : h.tx = chain[f][n].tx

\* A withdrawal is settled by what became of the transaction it records.
ContractInv ==
    \A w \in Withdrawal :
        /\ status[w] \in {"none", "initiated"} => custody[w] = None
        /\ status[w] = "completed" => custody[w] # None /\ Paid(custody[w])
        /\ status[w] \in {"aborted", "swept"} => custody[w] = None \/ TakenForDead(custody[w])

\* Pollers know what they do, and so do the calls they leave behind.
KnowsRequest(r) ==
    /\ PaysItsOwn(r.txs)
    /\ r.at = "adopting" \/ OnePerWithdrawal(r.txs)
    /\ r.at = "proposing" => \A p \in r.txs : OnRecord(p)

KnowsSettle(t) ==
    /\ \A p \in t.absent : OnRecord(p) /\ (Hurried \/ ~ Ran(p.tx))
    /\ \A p \in t.txs    : OnRecord(p)
    /\ \A p \in t.final  : OnRecord(p) /\ Paid(p.tx)
    /\ \A p \in t.reject : OnRecord(p) /\ TakenForDead(p.tx)

Justified(c) ==
    /\ PaysItsOwn(c.of)
    /\ c.kind = "finalise" => \A p \in c.of : OnRecord(p) /\ Paid(p.tx)
    /\ c.kind = "abort"    => \A p \in c.of : OnRecord(p) /\ TakenForDead(p.tx)

RequestsInv == \A s \in Server : KnowsRequest(request[s])
SettlesInv  == \A s \in Server : KnowsSettle(settle[s])
CallsInv    == \A c \in mempool : Justified(c)

WithdrawalsInv ==
    /\ WithdrawalsTypeOK /\ PayoutsInv /\ SafesInv /\ ContractInv
    /\ RequestsInv /\ SettlesInv /\ CallsInv

\* What a poller or a call of its may yet record on STRATO has been kept, and so has
\* what is recorded, until the withdrawal is settled.  When the batch it is to be
\* settled with is refused, it is not, and yet the journal forgets it: but then
\* its nonce has been used.
Several == \E v, w \in Withdrawal : v # w

PayoutsAreKept ==
    \A w \in Withdrawal :
        /\ status[w] \in {"none", "initiated"} =>
              /\ \A s \in Server : \A p \in request[s].txs : p.w = w => Kept(p.tx)
              /\ \A c \in mempool : \A p \in c.of : c.kind = "confirm" /\ p.w = w => Kept(p.tx)
        /\ status[w] = "pending" =>
              Kept(custody[w]) \/ (Several /\ custody[w] # None /\ Used(custody[w]))

-----------------------------------------------------------------------------
(* Progress *)

UpToDate(s) == \A w \in Withdrawal : status[w] = "initiated" => w \in request'[s].batch

Requests(s) ==
    \/ RequestPoll(s) /\ UpToDate(s)
    \/ CreatePayouts(s) \/ CallConfirm(s) \/ ProposePayout(s)

Settles(s) ==
    \/ CheckStatus(s) \/ LookAgain(s) \/ DecideAbsent(s)
    \/ ProposeSaved(s) \/ CallSettle(s)

\* What can keep a server from getting to the end of a poll that helps.  A poll
\* may also come to an end that looks like that of a failed one.
Setback(s) ==
    \/ EndRequest(s) /\ ~ Requests(s)
    \/ EndSettle(s) /\ ~ Settles(s)
    \/ RequestPoll(s) /\ ~ UpToDate(s)
    \/ ProposePayout(s) /\ held' = held /\ request[s].txs \cap held = {}
    \/ ProposeSaved(s) /\ held' = held /\ settle[s].txs \cap held = {}

\* Failures end at last: the servers are up, the index catches up, calls are
\* answered and the Safe service takes what it is sent.  Each poller is one loop,
\* and from then on it gets on with its polls, and the owners sign what the Safes
\* hold.
FairSpec ==
    /\ Spec
    /\ <>[][\A s \in Server : ~ Setback(s)]_vars
    /\ \A s \in Server : WF_vars(Requests(s)) /\ WF_vars(Settles(s))
    /\ SF_vars(RunPayout)

\* The payout of a withdrawal has run and failed.  No poll takes it for executed or
\* for rejected: it is left to an administrator.
PayoutFailed(w) == custody[w] # None /\ Ran(custody[w]) /\ ~ Paid(custody[w])

\* A withdrawal that has been requested is settled one way or the other, whatever
\* steps the servers fail at in between, unless its payout fails on the Safe.
EverySettled ==
    \A w \in Withdrawal :
        status[w] = "initiated" ~>
            status[w] \in {"completed", "aborted", "swept"} \/ PayoutFailed(w)
=============================================================================
