-------------------------- MODULE BridgeWithdrawals ---------------------------
(***************************************************************************)
(* Withdrawals of the bridge: the MercataBridge contract on STRATO and the *)
(* two pollers of each bridge server, which record a payout on STRATO,     *)
(* propose it to a Safe and settle the withdrawal by what became of it.    *)
(* Servers may stop at any moment; a call to the contract may be mined     *)
(* after its poster has given up on it; reads of the index may be stale.   *)
(***************************************************************************)
EXTENDS CustodySafe

CONSTANTS
    Server,      \* processes running the bridge service
    Wallets,     \* Wallets[w]: Safes that may pay w (the hot one, when it has the balance)
    Outage,      \* whether 24 hours may pass before a saved payout is proposed
    Hurried,     \* whether a payout may run while a poll is deciding that it cannot
    MaxLate,     \* bound: calls mined after their poster has given up on them, at a time
    MayFail      \* whether a payout may run and fail

ASSUME BridgeAssumption ==
    /\ Wallets \in [Withdrawal -> SUBSET Safe]
    /\ Hurried \in BOOLEAN /\ MayFail \in BOOLEAN

VARIABLES
    status,    \* the contract's BridgeStatus of each withdrawal
    custody,   \* the custody transaction the contract records for it
    mempool,   \* calls to the contract whose posters did not learn that they were posted
    journal,   \* per server: the withdrawal proposal journal, a file
    request,   \* per server: where the withdrawal request poller is
    settle     \* per server: where the withdrawal transaction poller is

contractVars == <<status, custody>>
vars == <<held, chain, status, custody, mempool, journal, request, settle>>

Status == {"none", "initiated", "pending", "completed", "aborted", "swept"}

\* A call concerns withdrawals and their custody transactions.
Call == [kind : {"confirm", "finalise", "abort"}, of : SUBSET Proposal]

Requesting ==
    [at : {"idle", "adopting", "confirming", "proposing"},
     batch : SUBSET Withdrawal, txs : SUBSET Proposal]

Settling ==
    [at : {"checking", "looking", "deciding", "proposing", "finalising", "aborting"},
     absent : SUBSET Proposal, txs : SUBSET Proposal,
     final : SUBSET Proposal, reject : SUBSET Proposal]

Resting == [at |-> "idle", batch |-> {}, txs |-> {}]
Asleep  == [at |-> "checking", absent |-> {}, txs |-> {}, final |-> {}, reject |-> {}]

-----------------------------------------------------------------------------
(* The contract *)

RequestWithdrawal(w) ==
    /\ status[w] = "none"
    /\ status' = [status EXCEPT ![w] = "initiated"]
    /\ UNCHANGED <<held, chain, custody, mempool, journal, request, settle>>

\* The sender after 48 hours, or an administrator.
AbortUnconfirmed(w) ==
    /\ status[w] = "initiated"
    /\ status' = [status EXCEPT ![w] = "aborted"]
    /\ UNCHANGED <<held, chain, custody, mempool, journal, request, settle>>

\* Administrators sweep a withdrawal once its payout, if any, has been rejected
\* on the Safe.
CancelAndSweep(w) ==
    /\ \/ status[w] = "initiated"
       \/ status[w] = "pending" /\ Replaced(custody[w])
    /\ status' = [status EXCEPT ![w] = "swept"]
    /\ UNCHANGED <<held, chain, custody, mempool, journal, request, settle>>

\* A batch reverts when one withdrawal of it is in another state.
Accepted(c) ==
    \A p \in c.of :
        CASE c.kind = "confirm"  -> status[p.w] = "initiated"
          [] c.kind = "finalise" -> status[p.w] = "pending"
          [] c.kind = "abort"    -> status[p.w] \in {"initiated", "pending"}

Outcome(kind) == CASE kind = "confirm" -> "pending" [] kind = "finalise" -> "completed"
                   [] kind = "abort" -> "aborted"

Apply(c) ==
    /\ status' = [w \in Withdrawal |-> IF \E p \in c.of : p.w = w THEN Outcome(c.kind) ELSE status[w]]
    /\ custody' = [w \in Withdrawal |->
                     IF c.kind = "confirm" /\ \E p \in c.of : p.w = w
                     THEN (CHOOSE p \in c.of : p.w = w).tx ELSE custody[w]]

-----------------------------------------------------------------------------
(* The journal *)

\* Variant: nothing is kept.
NotRecorded(j, ps) == j

\* Entries are kept by hash.  An entry the Safe has been sent is not read again, so
\* that it was is not kept with it.
Recorded(j, ps) == {e \in j : \A p \in ps : p.tx # e.tx} \cup ps

Prune(j, ps) == {e \in j : \A p \in ps : p.w # e.w}

-----------------------------------------------------------------------------
(* Where the pollers go on *)

\* With nothing to adopt and nothing to pay a poll of requests is over.
Onward(r) == IF r.txs = {} /\ r.batch = {} THEN Resting ELSE r

\* Executed withdrawals are finalised, then rejected ones aborted.
Settled(t) ==
    IF t.final # {} THEN [t EXCEPT !.at = "finalising"]
    ELSE IF t.reject # {} THEN [t EXCEPT !.at = "aborting"]
    ELSE Asleep

RequestGoes(s, r) == request' = [request EXCEPT ![s] = r]
SettleGoes(s, t)  == settle' = [settle EXCEPT ![s] = t]

-----------------------------------------------------------------------------
(* Calls to the contract *)

Mined(c) == IF Accepted(c) THEN Apply(c) ELSE UNCHANGED contractVars

\* The next calls the pollers of s wait for.
RequestCalls(s) ==
    CASE request[s].at = "adopting"   -> {[kind |-> "confirm", of |-> {p}] : p \in request[s].txs}
      [] request[s].at = "confirming" -> {[kind |-> "confirm", of |-> request[s].txs]}
      [] OTHER                        -> {}

SettleCalls(s) ==
    CASE settle[s].at = "finalising" -> {[kind |-> "finalise", of |-> settle[s].final]}
      [] settle[s].at = "aborting"   -> {[kind |-> "abort", of |-> settle[s].reject]}
      [] OTHER                       -> {}

\* Variant: the payouts are proposed also when the contract did not record them.
CallConfirmAndPropose(s) ==
    /\ \E c \in RequestCalls(s) :
          /\ Mined(c)
          /\ IF request[s].at = "adopting"
             THEN RequestGoes(s, Onward([request[s] EXCEPT !.txs = @ \ c.of]))
             ELSE RequestGoes(s, [request[s] EXCEPT !.at = "proposing"])
    /\ UNCHANGED <<held, chain, mempool, journal, settle>>

\* A state the poller did not expect means that another server, or an earlier
\* call of its own, has been here: the payouts are not proposed.
CallConfirm(s) ==
    /\ \E c \in RequestCalls(s) :
          /\ Mined(c)
          /\ IF request[s].at = "adopting"
             THEN RequestGoes(s, Onward([request[s] EXCEPT !.txs = @ \ c.of]))
             ELSE RequestGoes(s, IF Accepted(c) THEN [request[s] EXCEPT !.at = "proposing"] ELSE Resting)
    /\ UNCHANGED <<held, chain, mempool, journal, settle>>

\* Accepted or not, the journal forgets the withdrawals of the batch.
CallSettle(s) ==
    /\ \E c \in SettleCalls(s) :
          /\ Mined(c)
          /\ SettleGoes(s, IF c.kind = "finalise" THEN Settled([settle[s] EXCEPT !.final = {}]) ELSE Asleep)
          /\ journal' = [journal EXCEPT ![s] = Prune(@, c.of)]
    /\ UNCHANGED <<held, chain, mempool, request>>

\* A call is posted and the response is lost, or does not come in time: it may be
\* mined later.  The client posts it again, or the poll ends.
Unanswered(s) ==
    /\ \E c \in RequestCalls(s) \cup SettleCalls(s) :
          /\ mempool' = mempool \cup {c}
          /\ Cardinality(mempool') <= MaxLate
    /\ UNCHANGED <<held, chain, status, custody, journal, request, settle>>

MineLate(c) ==
    /\ c \in mempool
    /\ Mined(c)
    /\ mempool' = mempool \ {c}
    /\ UNCHANGED <<held, chain, journal, request, settle>>

-----------------------------------------------------------------------------
(* The request poller *)

\* The poll is about withdrawals the index says are initiated, which it may be
\* late about.  Old entries that were never proposed are dropped from the
\* journal.  A withdrawal whose payout is in a Safe gets no second one; if
\* there is just one, it is to be recorded on STRATO.
RequestPoll(s) ==
    /\ request[s].at = "idle"
    /\ \E batch \in SUBSET {w \in Withdrawal : status[w] # "none"} :
          LET sole == {w \in batch : Cardinality(PayoutsFor(w)) = 1}
          IN  /\ batch # {}
              /\ RequestGoes(s, Onward([at    |-> "adopting",
                                        batch |-> {w \in batch : PayoutsFor(w) = {}},
                                        txs   |-> UNION {PayoutsFor(w) : w \in sole}]))
    /\ \E old \in SUBSET {e \in journal[s] : Outage /\ e \notin held} :
          journal' = [journal EXCEPT ![s] = @ \ old]
    /\ UNCHANGED <<held, chain, status, custody, mempool, settle>>

\* Payouts take the next nonces of their Safes, one after the other in the
\* order of the batch.
Created(batch, wallet, next) ==
    {[w |-> w, tx |-> PayoutOf(w, wallet[w],
          next[wallet[w]] + Cardinality({v \in batch : v < w /\ wallet[v] = wallet[w]}))] : w \in batch}

\* They are signed, and saved before STRATO hears of them.
CreatePayouts(s) ==
    /\ request[s].at = "adopting" /\ request[s].txs = {} /\ request[s].batch # {}
    /\ \E wallet \in [request[s].batch -> Safe], next \in [Safe -> 0 .. MaxNonce] :
          /\ \A w \in request[s].batch : wallet[w] \in Wallets[w]
          /\ \A f \in Safe : IsNextNonce(f, next[f]) \/ f \notin {wallet[w] : w \in request[s].batch}
          /\ LET ps == Created(request[s].batch, wallet, next)
             IN  /\ ps \subseteq Proposal
                 /\ journal' = [journal EXCEPT ![s] = Recorded(@, ps)]
                 /\ RequestGoes(s, [at |-> "confirming", batch |-> {}, txs |-> ps])
    /\ UNCHANGED <<held, chain, status, custody, mempool, settle>>

\* Each payout is handed to the Safe service, which may refuse it.
ProposePayout(s) ==
    /\ request[s].at = "proposing"
    /\ \E p \in request[s].txs :
          /\ Take(p) \/ UNCHANGED held
          /\ RequestGoes(s, Onward([request[s] EXCEPT !.txs = @ \ {p}]))
    /\ UNCHANGED <<chain, status, custody, mempool, journal, settle>>

-----------------------------------------------------------------------------
(* The transaction poller *)

\* Variant: a payout that ran and failed counts as paid.
CheckStatusExecuted(s) ==
    /\ settle[s].at = "checking"
    /\ \E seen \in SUBSET {[w |-> v, tx |-> custody[v]] : v \in {u \in Withdrawal : custody[u] # None}} :
          LET absent == {p \in seen : \A h \in held : h.tx # p.tx}
              found  == [Asleep EXCEPT !.absent = absent,
                                       !.final = {p \in seen \ absent : Ran(p.tx)},
                                       !.reject = {p \in seen \ absent : Replaced(p.tx)}]
          IN  /\ seen # {}
              /\ SettleGoes(s, IF absent = {} THEN Settled(found) ELSE [found EXCEPT !.at = "looking"])
    /\ UNCHANGED <<held, chain, status, custody, mempool, journal, request>>

\* The custody transactions of withdrawals the index says are pending review are
\* executed, rejected or not found, or else pending, which is also what an error
\* is taken for.
CheckStatus(s) ==
    /\ settle[s].at = "checking"
    /\ \E seen \in SUBSET {[w |-> v, tx |-> custody[v]] : v \in {u \in Withdrawal : custody[u] # None}} :
          LET absent == {p \in seen : \A h \in held : h.tx # p.tx}
              found  == [Asleep EXCEPT !.absent = absent,
                                       !.final = {p \in seen \ absent : Paid(p.tx)},
                                       !.reject = {p \in seen \ absent : Replaced(p.tx)}]
          IN  /\ seen # {}
              /\ SettleGoes(s, IF absent = {} THEN Settled(found) ELSE [found EXCEPT !.at = "looking"])
    /\ UNCHANGED <<held, chain, status, custody, mempool, journal, request>>

\* Variant: what the Safe has not been sent is left alone.
LookNoFurther(s) ==
    /\ settle[s].at = "looking"
    /\ SettleGoes(s, [settle[s] EXCEPT !.at = "deciding", !.absent = {}])
    /\ UNCHANGED <<held, chain, status, custody, mempool, journal, request>>

\* Custody transactions the Safe has not been sent are proposed from the
\* journal, unless the Safe holds another payout for the withdrawal.
LookAgain(s) ==
    /\ settle[s].at = "looking"
    /\ LET unpaid == {p \in settle[s].absent : /\ PayoutsFor(p.w) = {}
                                               /\ \E e \in journal[s] : e.tx = p.tx}
       IN  SettleGoes(s, [settle[s] EXCEPT !.at = "deciding", !.absent = unpaid])
    /\ UNCHANGED <<held, chain, status, custody, mempool, journal, request>>

\* Variant: what the Safe has not been sent is given up.
DecideAbsentDead(s) ==
    /\ settle[s].at = "deciding"
    /\ SettleGoes(s, Settled([settle[s] EXCEPT !.absent = {}, !.reject = @ \cup settle[s].absent]))
    /\ UNCHANGED <<held, chain, status, custody, mempool, journal, request>>

\* A used nonce is taken to mean that the payout can never happen.
DecideAbsent(s) ==
    /\ settle[s].at = "deciding"
    /\ LET t     == settle[s]
           dead  == {p \in t.absent : Used(p.tx)}
           saved == {e \in journal[s] : \E p \in t.absent \ dead : p.tx = e.tx}
           next  == [t EXCEPT !.at = "proposing", !.absent = {}, !.reject = @ \cup dead, !.txs = saved]
       IN  SettleGoes(s, IF saved = {} THEN Settled(next) ELSE next)
    /\ UNCHANGED <<held, chain, status, custody, mempool, journal, request>>

ProposeSaved(s) ==
    /\ settle[s].at = "proposing"
    /\ \E p \in settle[s].txs :
          /\ Take(p) \/ UNCHANGED held
          /\ LET t == [settle[s] EXCEPT !.txs = @ \ {p}]
             IN  SettleGoes(s, IF t.txs = {} THEN Settled(t) ELSE t)
    /\ UNCHANGED <<chain, status, custody, mempool, journal, request>>

-----------------------------------------------------------------------------
(* The servers and the Safes *)

\* An error ends a poll; a process that stops loses both.
EndRequest(s) ==
    /\ request[s] # Resting
    /\ RequestGoes(s, Resting)
    /\ UNCHANGED <<held, chain, status, custody, mempool, journal, settle>>

EndSettle(s) ==
    /\ settle[s] # Asleep
    /\ SettleGoes(s, Asleep)
    /\ UNCHANGED <<held, chain, status, custody, mempool, journal, request>>

Deciding(p) ==
    \E s \in Server : \E q \in settle[s].absent : q.tx = p.tx

\* Owners sign and execute, or the server itself does for the hot wallet.
RunPayout ==
    /\ \E p \in held, ok \in {TRUE, ~ MayFail} :
          /\ Hurried \/ ~ Deciding(p)
          /\ Execute(p, ok)
    /\ UNCHANGED <<status, custody, mempool, journal, request, settle>>

RunOther ==
    /\ \E f \in Safe : ExecuteOther(f)
    /\ UNCHANGED <<status, custody, mempool, journal, request, settle>>

Init ==
    /\ SafeInit
    /\ status = [w \in Withdrawal |-> "none"] /\ custody = [w \in Withdrawal |-> None]
    /\ mempool = {} /\ journal = [s \in Server |-> {}]
    /\ request = [s \in Server |-> Resting] /\ settle = [s \in Server |-> Asleep]

RequestStep(s) ==
    \/ RequestPoll(s) \/ CreatePayouts(s) \/ CallConfirm(s)
    \/ ProposePayout(s) \/ EndRequest(s)

SettleStep(s) ==
    \/ CheckStatus(s) \/ LookAgain(s) \/ DecideAbsent(s)
    \/ ProposeSaved(s) \/ CallSettle(s) \/ EndSettle(s)

Next ==
    \/ \E w \in Withdrawal : RequestWithdrawal(w) \/ AbortUnconfirmed(w) \/ CancelAndSweep(w)
    \/ \E s \in Server : RequestStep(s) \/ SettleStep(s) \/ Unanswered(s)
    \/ \E c \in mempool : MineLate(c)
    \/ RunPayout \/ RunOther

Spec == Init /\ [][Next]_vars
=============================================================================
