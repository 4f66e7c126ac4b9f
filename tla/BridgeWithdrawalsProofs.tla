----------------------- MODULE BridgeWithdrawalsProofs ------------------------
(***************************************************************************)
(* Proofs about withdrawals.                                               *)
(***************************************************************************)
EXTENDS BridgeWithdrawalsSafety, TLAPS

LEMMA MinedTypes ==
    ASSUME NEW c \in Call, status \in [Withdrawal -> Status],
           custody \in [Withdrawal -> Payout \cup {None}], Mined(c)
    PROVE  /\ status' \in [Withdrawal -> Status]
           /\ custody' \in [Withdrawal -> Payout \cup {None}]
<1>1. CASE ~ Accepted(c)
  BY <1>1 DEF Mined, contractVars
<1>2. CASE Accepted(c)
  <2>1. Apply(c)
    BY <1>2 DEF Mined
  <2>2. Outcome(c.kind) \in Status
    BY DEF Call, Outcome, Status
  <2>3. \A w \in Withdrawal : (\E p \in c.of : p.w = w) => (CHOOSE p \in c.of : p.w = w).tx \in Payout
    <3> SUFFICES ASSUME NEW w \in Withdrawal, \E p \in c.of : p.w = w
                 PROVE  (CHOOSE p \in c.of : p.w = w).tx \in Payout
      OBVIOUS
    <3> DEFINE q == CHOOSE p \in c.of : p.w = w
    <3>1. q \in c.of
      OBVIOUS
    <3>2. q \in Proposal
      BY <3>1 DEF Call
    <3> QED BY <3>2 DEF Proposal
  <2> QED BY <2>1, <2>2, <2>3 DEF Apply
<1> QED BY <1>1, <1>2

LEMMA CallsAreCalls ==
    ASSUME NEW s \in Server, WithdrawalsTypeOK
    PROVE  RequestCalls(s) \cup SettleCalls(s) \subseteq Call
<1>1. request[s] \in Requesting /\ settle[s] \in Settling
  BY DEF WithdrawalsTypeOK
<1>2. RequestCalls(s) \subseteq Call
  BY <1>1 DEF RequestCalls, Call, Requesting
<1>3. SettleCalls(s) \subseteq Call
  BY <1>1 DEF SettleCalls, Call, Settling
<1> QED BY <1>2, <1>3

LEMMA RestingTypes == Resting \in Requesting /\ Asleep \in Settling
  BY DEF Resting, Asleep, Requesting, Settling

LEMMA OnwardTypes == ASSUME NEW r \in Requesting PROVE Onward(r) \in Requesting
  BY RestingTypes DEF Onward

LEMMA SettledTypes == ASSUME NEW t \in Settling PROVE Settled(t) \in Settling
<1>1. [t EXCEPT !.at = "finalising"] \in Settling /\ [t EXCEPT !.at = "aborting"] \in Settling
  BY DEF Settling
<1> QED BY <1>1, RestingTypes DEF Settled

LEMMA ExecuteTypes ==
    ASSUME WithdrawalsTypeOK, NEW p \in held, NEW ok \in BOOLEAN, Execute(p, ok)
    PROVE  chain' \in [Safe -> Seq([tx : Payout \cup {Other}, ok : BOOLEAN])]
<1>1. p.tx \in Payout /\ p.tx.safe \in Safe
  BY DEF WithdrawalsTypeOK, Proposal, Payout
<1>2. chain[p.tx.safe] \in Seq([tx : Payout \cup {Other}, ok : BOOLEAN])
  BY <1>1 DEF WithdrawalsTypeOK
<1>3. Append(chain[p.tx.safe], [tx |-> p.tx, ok |-> ok]) \in Seq([tx : Payout \cup {Other}, ok : BOOLEAN])
  BY <1>1, <1>2
<1> QED BY <1>1, <1>3 DEF Execute, WithdrawalsTypeOK

LEMMA ExecuteOtherTypes ==
    ASSUME WithdrawalsTypeOK, NEW f \in Safe, ExecuteOther(f)
    PROVE  chain' \in [Safe -> Seq([tx : Payout \cup {Other}, ok : BOOLEAN])]
<1>1. chain[f] \in Seq([tx : Payout \cup {Other}, ok : BOOLEAN])
  BY DEF WithdrawalsTypeOK
<1>2. Append(chain[f], [tx |-> Other, ok |-> TRUE]) \in Seq([tx : Payout \cup {Other}, ok : BOOLEAN])
  BY <1>1
<1> QED BY <1>2 DEF ExecuteOther, WithdrawalsTypeOK

LEMMA TypeStep == WithdrawalsTypeOK /\ [Next]_vars => WithdrawalsTypeOK'
<1> SUFFICES ASSUME WithdrawalsTypeOK, [Next]_vars PROVE WithdrawalsTypeOK'
  OBVIOUS
<1> USE DEF WithdrawalsTypeOK
<1>1. ASSUME NEW w \in Withdrawal, RequestWithdrawal(w) PROVE WithdrawalsTypeOK'
  BY <1>1 DEF RequestWithdrawal, Status
<1>2. ASSUME NEW w \in Withdrawal, AbortUnconfirmed(w) PROVE WithdrawalsTypeOK'
  BY <1>2 DEF AbortUnconfirmed, Status
<1>3. ASSUME NEW w \in Withdrawal, CancelAndSweep(w) PROVE WithdrawalsTypeOK'
  BY <1>3 DEF CancelAndSweep, Status
<1>4. ASSUME NEW s \in Server, RequestPoll(s) PROVE WithdrawalsTypeOK'
  <2>1. PICK batch \in SUBSET Withdrawal, txs \in SUBSET Proposal :
           RequestGoes(s, Onward([at |-> "adopting", batch |-> batch, txs |-> txs]))
    <3>1. PICK asked \in SUBSET {w \in Withdrawal : status[w] # "none"} :
             RequestGoes(s, Onward([at |-> "adopting",
                 batch |-> {w \in asked : PayoutsFor(w) = {}},
                 txs |-> UNION {PayoutsFor(w) : w \in {v \in asked : Cardinality(PayoutsFor(v)) = 1}}]))
      BY <1>4 DEF RequestPoll
    <3>2. \A w : PayoutsFor(w) \subseteq Proposal
      BY DEF PayoutsFor
    <3> QED BY <3>1, <3>2
  <2>2. Onward([at |-> "adopting", batch |-> batch, txs |-> txs]) \in Requesting
    BY OnwardTypes DEF Requesting
  <2>3. request' \in [Server -> Requesting]
    BY <2>1, <2>2 DEF RequestGoes
  <2>4. journal' \in [Server -> SUBSET Proposal]
    BY <1>4 DEF RequestPoll
  <2> QED BY <1>4, <2>3, <2>4 DEF RequestPoll
<1>5. ASSUME NEW s \in Server, CreatePayouts(s) PROVE WithdrawalsTypeOK'
  <2>1. PICK ps \in SUBSET Proposal :
           /\ journal' = [journal EXCEPT ![s] = Recorded(@, ps)]
           /\ RequestGoes(s, [at |-> "confirming", batch |-> {}, txs |-> ps])
    BY <1>5 DEF CreatePayouts
  <2>2. request' \in [Server -> Requesting]
    BY <2>1 DEF Requesting, RequestGoes
  <2>3. journal' \in [Server -> SUBSET Proposal]
    BY <2>1 DEF Recorded
  <2> QED BY <1>5, <2>2, <2>3 DEF CreatePayouts
<1>6. ASSUME NEW s \in Server, CallConfirm(s) PROVE WithdrawalsTypeOK'
  <2>1. PICK c \in RequestCalls(s) :
           /\ Mined(c)
           /\ IF request[s].at = "adopting"
              THEN RequestGoes(s, Onward([request[s] EXCEPT !.txs = @ \ c.of]))
              ELSE RequestGoes(s, IF Accepted(c) THEN [request[s] EXCEPT !.at = "proposing"] ELSE Resting)
    BY <1>6 DEF CallConfirm
  <2>2. c \in Call
    BY CallsAreCalls
  <2>3. [request[s] EXCEPT !.txs = @ \ c.of] \in Requesting /\ [request[s] EXCEPT !.at = "proposing"] \in Requesting
    BY DEF Requesting
  <2>4. Onward([request[s] EXCEPT !.txs = @ \ c.of]) \in Requesting
    BY <2>3, OnwardTypes
  <2>5. request' \in [Server -> Requesting]
    BY <2>1, <2>3, <2>4, RestingTypes DEF RequestGoes
  <2> QED BY <1>6, <2>1, <2>2, <2>5, MinedTypes DEF CallConfirm
<1>7. ASSUME NEW s \in Server, ProposePayout(s) PROVE WithdrawalsTypeOK'
  <2>1. PICK p \in request[s].txs :
           /\ Take(p) \/ UNCHANGED held
           /\ RequestGoes(s, Onward([request[s] EXCEPT !.txs = @ \ {p}]))
    BY <1>7 DEF ProposePayout
  <2>2. p \in Proposal /\ [request[s] EXCEPT !.txs = @ \ {p}] \in Requesting
    BY DEF Requesting
  <2>3. Onward([request[s] EXCEPT !.txs = @ \ {p}]) \in Requesting
    BY <2>2, OnwardTypes
  <2>4. request' \in [Server -> Requesting]
    BY <2>1, <2>3 DEF RequestGoes
  <2>5. held' \subseteq Proposal
    BY <2>1, <2>2 DEF Take
  <2> QED BY <1>7, <2>4, <2>5 DEF ProposePayout
<1>8. ASSUME NEW s \in Server, EndRequest(s) PROVE WithdrawalsTypeOK'
  BY <1>8, RestingTypes DEF EndRequest, RequestGoes
<1>9. ASSUME NEW s \in Server, CheckStatus(s) PROVE WithdrawalsTypeOK'
  <2>1. PICK seen \in SUBSET {[w |-> v, tx |-> custody[v]] : v \in {u \in Withdrawal : custody[u] # None}} :
           LET absent == {p \in seen : \A h \in held : h.tx # p.tx}
               found  == [Asleep EXCEPT !.absent = absent,
                                        !.final = {p \in seen \ absent : Paid(p.tx)},
                                        !.reject = {p \in seen \ absent : Replaced(p.tx)}]
           IN  SettleGoes(s, IF absent = {} THEN Settled(found) ELSE [found EXCEPT !.at = "looking"])
    BY <1>9 DEF CheckStatus
  <2> DEFINE absent == {p \in seen : \A h \in held : h.tx # p.tx}
             found  == [Asleep EXCEPT !.absent = absent,
                                      !.final = {p \in seen \ absent : Paid(p.tx)},
                                      !.reject = {p \in seen \ absent : Replaced(p.tx)}]
  <2>2. seen \subseteq Proposal
    BY DEF Proposal
  <2>3. found \in Settling /\ [found EXCEPT !.at = "looking"] \in Settling
    BY <2>2 DEF Asleep, Settling
  <2>4. settle' \in [Server -> Settling]
    BY <2>1, <2>3, SettledTypes DEF SettleGoes
  <2> QED BY <1>9, <2>4 DEF CheckStatus
<1>10. ASSUME NEW s \in Server, LookAgain(s) PROVE WithdrawalsTypeOK'
  <2>1. settle' \in [Server -> Settling]
    BY <1>10 DEF LookAgain, Settling, SettleGoes
  <2> QED BY <1>10, <2>1 DEF LookAgain
<1>11. ASSUME NEW s \in Server, DecideAbsent(s) PROVE WithdrawalsTypeOK'
  <2> DEFINE t     == settle[s]
             dead  == {p \in t.absent : Used(p.tx)}
             saved == {e \in journal[s] : \E p \in t.absent \ dead : p.tx = e.tx}
             next  == [t EXCEPT !.at = "proposing", !.absent = {}, !.reject = @ \cup dead, !.txs = saved]
  <2>1. next \in Settling
    BY DEF Settling
  <2>2. SettleGoes(s, IF saved = {} THEN Settled(next) ELSE next)
    BY <1>11 DEF DecideAbsent
  <2>3. settle' \in [Server -> Settling]
    <3> HIDE DEF next, saved
    <3> QED BY <2>1, <2>2, SettledTypes DEF SettleGoes
  <2> QED BY <1>11, <2>3 DEF DecideAbsent
<1>12. ASSUME NEW s \in Server, ProposeSaved(s) PROVE WithdrawalsTypeOK'
  <2>1. PICK p \in settle[s].txs :
           /\ Take(p) \/ UNCHANGED held
           /\ LET t == [settle[s] EXCEPT !.txs = @ \ {p}]
              IN  SettleGoes(s, IF t.txs = {} THEN Settled(t) ELSE t)
    BY <1>12 DEF ProposeSaved
  <2>2. p \in Proposal /\ [settle[s] EXCEPT !.txs = @ \ {p}] \in Settling
    BY DEF Settling
  <2>3. settle' \in [Server -> Settling]
    BY <2>1, <2>2, SettledTypes DEF SettleGoes
  <2>4. held' \subseteq Proposal
    BY <2>1, <2>2 DEF Take
  <2> QED BY <1>12, <2>3, <2>4 DEF ProposeSaved
<1>13. ASSUME NEW s \in Server, CallSettle(s) PROVE WithdrawalsTypeOK'
  <2>1. PICK c \in SettleCalls(s) :
           /\ Mined(c)
           /\ SettleGoes(s, IF c.kind = "finalise" THEN Settled([settle[s] EXCEPT !.final = {}]) ELSE Asleep)
           /\ journal' = [journal EXCEPT ![s] = Prune(@, c.of)]
    BY <1>13 DEF CallSettle
  <2>2. c \in Call
    BY CallsAreCalls
  <2>3. Settled([settle[s] EXCEPT !.final = {}]) \in Settling
    <3>1. [settle[s] EXCEPT !.final = {}] \in Settling
      BY DEF Settling
    <3> QED BY <3>1, SettledTypes
  <2>4. settle' \in [Server -> Settling]
    BY <2>1, <2>3, RestingTypes DEF SettleGoes
  <2>5. journal' \in [Server -> SUBSET Proposal]
    BY <2>1 DEF Prune
  <2> QED BY <1>13, <2>1, <2>2, <2>4, <2>5, MinedTypes DEF CallSettle
<1>14. ASSUME NEW s \in Server, EndSettle(s) PROVE WithdrawalsTypeOK'
  BY <1>14, RestingTypes DEF EndSettle, SettleGoes
<1>15. ASSUME NEW s \in Server, Unanswered(s) PROVE WithdrawalsTypeOK'
  BY <1>15, CallsAreCalls DEF Unanswered
<1>16. ASSUME NEW c \in mempool, MineLate(c) PROVE WithdrawalsTypeOK'
  BY <1>16, MinedTypes DEF MineLate
<1>17. CASE RunPayout
  <2>1. PICK p \in held, ok \in {TRUE, ~ MayFail} : Execute(p, ok)
    BY <1>17 DEF RunPayout
  <2>2. ok \in BOOLEAN
    BY BridgeAssumption
  <2> QED BY <1>17, <2>1, <2>2, ExecuteTypes DEF RunPayout, Execute
<1>18. CASE RunOther
  BY <1>18, ExecuteOtherTypes DEF RunOther, ExecuteOther
<1>19. CASE UNCHANGED vars
  BY <1>19 DEF vars
<1> QED
  BY <1>1, <1>2, <1>3, <1>4, <1>5, <1>6, <1>7, <1>8, <1>9, <1>10, <1>11, <1>12, <1>13, <1>14,
     <1>15, <1>16, <1>17, <1>18, <1>19 DEF Next, RequestStep, SettleStep

LEMMA TypeInit == Init => WithdrawalsTypeOK
<1> SUFFICES ASSUME Init PROVE WithdrawalsTypeOK
  OBVIOUS
<1>1. chain \in [Safe -> Seq([tx : Payout \cup {Other}, ok : BOOLEAN])]
  BY DEF Init, SafeInit
<1> QED BY <1>1, RestingTypes DEF Init, SafeInit, WithdrawalsTypeOK, Status

\* The state of the contract, the Safes and the pollers is what it is declared to
\* be in every reachable state, for any withdrawals, Safes and servers.
THEOREM WithdrawalsTypeCorrect == Spec => []WithdrawalsTypeOK
  BY TypeInit, TypeStep, PTL DEF Spec

-----------------------------------------------------------------------------
(* What has happened on a Safe stays so *)

Grows ==
    \A f \in Safe : \A n \in DOMAIN chain[f] :
        n \in DOMAIN chain'[f] /\ chain'[f][n] = chain[f][n]

LEMMA NotPayouts == Other \notin Payout /\ None \notin Payout
  BY CustodyAssumption DEF Payout

LEMMA GrownKeeps ==
    ASSUME WithdrawalsTypeOK, WithdrawalsTypeOK', Grows
    PROVE  \A tx \in Payout :
              /\ Used(tx) => Used(tx)' /\ (Ran(tx)' = Ran(tx)) /\ (Paid(tx)' = Paid(tx))
<1> SUFFICES ASSUME NEW tx \in Payout, Used(tx)
             PROVE  Used(tx)' /\ (Ran(tx)' = Ran(tx)) /\ (Paid(tx)' = Paid(tx))
  OBVIOUS
<1> DEFINE f == tx.safe
<1>1. f \in Safe /\ tx.nonce \in Nat
  BY CustodyAssumption DEF Payout
<1>2. /\ chain[f] \in Seq([tx : Payout \cup {Other}, ok : BOOLEAN])
      /\ chain'[f] \in Seq([tx : Payout \cup {Other}, ok : BOOLEAN])
  BY <1>1 DEF WithdrawalsTypeOK
<1>3. tx.nonce + 1 \in 1 .. Len(chain[f])
  BY <1>1, <1>2 DEF Used, OnChainNonce
<1>4. tx.nonce + 1 \in DOMAIN chain[f]
  BY <1>2, <1>3
<1>5. tx.nonce + 1 \in DOMAIN chain'[f] /\ chain'[f][tx.nonce + 1] = chain[f][tx.nonce + 1]
  BY <1>1, <1>4 DEF Grows
<1>6. Used(tx)'
  BY <1>1, <1>2, <1>5 DEF Used, OnChainNonce
<1> QED BY <1>5, <1>6 DEF Ran, Paid

CustodyStays == \A p \in Proposal : OnRecord(p) => OnRecord(p)'

LEMMA StillKnown ==
    ASSUME WithdrawalsTypeOK, WithdrawalsTypeOK', Grows, CustodyStays
    PROVE  /\ \A r \in Requesting : KnowsRequest(r) => KnowsRequest(r)'
           /\ \A c \in Call : Justified(c) => Justified(c)'
           /\ \A t \in Settling :
                 KnowsSettle(t) /\ (\A p \in t.absent : Hurried \/ ~ Ran(p.tx)') => KnowsSettle(t)'
<1>1. \A p \in Proposal : p.tx \in Payout
  BY DEF Proposal
<1>2. \A p \in Proposal : /\ Paid(p.tx) => Paid(p.tx)'
                          /\ TakenForDead(p.tx) => TakenForDead(p.tx)'
  BY <1>1, GrownKeeps DEF TakenForDead, Dead, Paid, Ran
<1>3. \A r \in Requesting : KnowsRequest(r) => KnowsRequest(r)'
  BY DEF KnowsRequest, Requesting, CustodyStays, PaysItsOwn, OnePerWithdrawal
<1>4. \A c \in Call : Justified(c) => Justified(c)'
  BY <1>2 DEF Justified, Call, CustodyStays, PaysItsOwn
<1>5. \A t \in Settling : KnowsSettle(t) /\ (\A p \in t.absent : Hurried \/ ~ Ran(p.tx)') => KnowsSettle(t)'
  BY <1>2 DEF KnowsSettle, Settling, CustodyStays
<1> QED BY <1>3, <1>4, <1>5

\* When neither the record nor the Safes' chains change, what is known stays known.
LEMMA QuietStep ==
    ASSUME WithdrawalsInv, WithdrawalsTypeOK', UNCHANGED <<chain, custody>>
    PROVE  /\ Grows /\ CustodyStays
           /\ \A t \in Settling : KnowsSettle(t) => KnowsSettle(t)'
<1>1. Grows /\ CustodyStays
  BY DEF Grows, CustodyStays, OnRecord
<1>2. \A t \in Settling : KnowsSettle(t) => KnowsSettle(t)'
  BY DEF KnowsSettle, OnRecord, Ran, Paid, TakenForDead, Dead, Used, OnChainNonce
<1> QED BY <1>1, <1>2

LEMMA PollersStay ==
    ASSUME WithdrawalsInv, WithdrawalsTypeOK', UNCHANGED <<chain, custody>>
    PROVE  /\ UNCHANGED request => RequestsInv'
           /\ UNCHANGED settle  => SettlesInv'
           /\ UNCHANGED mempool => CallsInv'
           /\ \A s \in Server : \A r : KnowsRequest(r)' /\ request' = [request EXCEPT ![s] = r] => RequestsInv'
           /\ \A s \in Server : \A t : KnowsSettle(t)' /\ settle' = [settle EXCEPT ![s] = t] => SettlesInv'
<1>1. /\ \A s \in Server : request[s] \in Requesting /\ settle[s] \in Settling
      /\ \A c \in mempool : c \in Call
      /\ request \in [Server -> Requesting] /\ settle \in [Server -> Settling]
  BY DEF WithdrawalsInv, WithdrawalsTypeOK
<1>2. /\ \A r \in Requesting : KnowsRequest(r) => KnowsRequest(r)'
      /\ \A c \in Call : Justified(c) => Justified(c)'
      /\ \A t \in Settling : KnowsSettle(t) => KnowsSettle(t)'
  BY QuietStep, StillKnown DEF WithdrawalsInv
<1> QED BY <1>1, <1>2 DEF WithdrawalsInv, RequestsInv, SettlesInv, CallsInv

\* A justified call leaves the contract with a record it can account for.
LEMMA MinedKeeps ==
    ASSUME WithdrawalsInv, NEW c \in Call, Justified(c), Mined(c), UNCHANGED <<held, chain>>
    PROVE  /\ CustodyStays /\ ContractInv'
           /\ \A w \in Withdrawal : custody'[w] # None => custody'[w].pays = Payment[w]
<1>1. CASE ~ Accepted(c)
  BY <1>1 DEF Mined, contractVars, CustodyStays, OnRecord, ContractInv, WithdrawalsInv, PayoutsInv,
     Paid, TakenForDead, Dead, Ran, Used, OnChainNonce
<1>2. CASE Accepted(c)
  <2>1. Apply(c)
    BY <1>2 DEF Mined
  <2> DEFINE Of(w) == \E p \in c.of : p.w = w
             pick(w) == CHOOSE p \in c.of : p.w = w
  <2>2. \A w \in Withdrawal : Of(w) => pick(w) \in c.of /\ pick(w).w = w
    OBVIOUS
  <2>3. c.of \subseteq Proposal /\ c.kind \in {"confirm", "finalise", "abort"}
    BY DEF Call
  <2>4. \A w \in Withdrawal :
           /\ status'[w] = IF Of(w) THEN Outcome(c.kind) ELSE status[w]
           /\ custody'[w] = IF c.kind = "confirm" /\ Of(w) THEN pick(w).tx ELSE custody[w]
    BY <2>1 DEF Apply
  <2> HIDE DEF pick
  <2>5. \A w \in Withdrawal : c.kind = "confirm" /\ Of(w) => custody[w] = None
    BY <1>2 DEF Accepted, WithdrawalsInv, ContractInv
  <2>6. CustodyStays
    BY <2>4, <2>5, NotPayouts DEF CustodyStays, OnRecord, Proposal
  <2>7. \A w \in Withdrawal : custody'[w] # None => custody'[w].pays = Payment[w]
    BY <2>2, <2>4 DEF Justified, PaysItsOwn, WithdrawalsInv, PayoutsInv
  <2>8. ContractInv'
    <3> SUFFICES ASSUME NEW w \in Withdrawal
                 PROVE  /\ status'[w] \in {"none", "initiated"} => custody'[w] = None
                        /\ status'[w] = "completed" => custody'[w] # None /\ Paid(custody'[w])
                        /\ status'[w] \in {"aborted", "swept"} => custody'[w] = None \/ TakenForDead(custody'[w])
      BY DEF ContractInv, Paid, TakenForDead, Dead, Ran, Used, OnChainNonce
    <3>1. /\ status[w] \in {"none", "initiated"} => custody[w] = None
          /\ status[w] = "completed" => custody[w] # None /\ Paid(custody[w])
          /\ status[w] \in {"aborted", "swept"} => custody[w] = None \/ TakenForDead(custody[w])
      BY DEF WithdrawalsInv, ContractInv
    <3>2. CASE ~ Of(w)
      BY <2>4, <3>1, <3>2
    <3>3. CASE Of(w) /\ c.kind = "confirm"
      BY <2>4, <3>3 DEF Outcome
    <3>4. CASE Of(w) /\ c.kind = "finalise"
      <4>1. PICK p \in c.of : p.w = w
        BY <3>4
      <4>2. custody[w] = p.tx /\ Paid(p.tx) /\ p.tx \in Payout
        BY <4>1, <3>4, <2>3 DEF Justified, OnRecord, Proposal
      <4> QED BY <4>2, <2>4, <3>4, NotPayouts DEF Outcome
    <3>5. CASE Of(w) /\ c.kind = "abort"
      <4>1. PICK p \in c.of : p.w = w
        BY <3>5
      <4>2. custody[w] = p.tx /\ TakenForDead(p.tx)
        BY <4>1, <3>5 DEF Justified, OnRecord
      <4> QED BY <4>2, <2>4, <3>5 DEF Outcome
    <3> QED BY <3>2, <3>3, <3>4, <3>5, <2>3
  <2> QED BY <2>6, <2>7, <2>8
<1> QED BY <1>1, <1>2

\* The rest of the invariant after a call has been mined.
LEMMA MinedRest ==
    ASSUME WithdrawalsInv, WithdrawalsTypeOK', NEW c \in Call, Justified(c), Mined(c), UNCHANGED <<held, chain>>
    PROVE  /\ UNCHANGED journal => PayoutsInv'
           /\ SafesInv' /\ ContractInv'
           /\ UNCHANGED request => RequestsInv'
           /\ UNCHANGED settle  => SettlesInv'
           /\ mempool' \subseteq mempool => CallsInv'
           /\ \A r \in Requesting : KnowsRequest(r) => KnowsRequest(r)'
           /\ \A t \in Settling : KnowsSettle(t) => KnowsSettle(t)'
<1>1. CustodyStays /\ ContractInv' /\ Grows
  BY MinedKeeps DEF Grows
<1>2. \A w \in Withdrawal : custody'[w] # None => custody'[w].pays = Payment[w]
  BY MinedKeeps
<1>3. WithdrawalsTypeOK /\ PayoutsInv /\ SafesInv /\ RequestsInv /\ SettlesInv /\ CallsInv
  BY DEF WithdrawalsInv
<1>4. /\ \A s \in Server : request[s] \in Requesting /\ settle[s] \in Settling
      /\ \A d \in mempool : d \in Call
      /\ held \subseteq Proposal
  BY <1>3 DEF WithdrawalsTypeOK
<1>5. /\ \A r \in Requesting : KnowsRequest(r) => KnowsRequest(r)'
      /\ \A d \in Call : Justified(d) => Justified(d)'
      /\ \A t \in Settling : KnowsSettle(t) => KnowsSettle(t)'
  <2>1. \A t \in Settling : KnowsSettle(t) => \A p \in t.absent : Hurried \/ ~ Ran(p.tx)'
    BY DEF KnowsSettle, Ran, Used, OnChainNonce
  <2> QED BY <1>1, <1>3, <2>1, StillKnown
<1>6. UNCHANGED journal => PayoutsInv'
  BY <1>2, <1>3 DEF PayoutsInv, PaysItsOwn
<1>7. SafesInv'
  BY <1>1, <1>3, <1>4 DEF SafesInv, OnlyRecordedPayouts, CustodyStays, OnRecord
<1> QED BY <1>1, <1>3, <1>4, <1>5, <1>6, <1>7 DEF RequestsInv, SettlesInv, CallsInv

LEMMA OnwardKnows ==
    ASSUME NEW r \in Requesting, KnowsRequest(r) PROVE KnowsRequest(Onward(r))
  BY DEF Onward, Resting, KnowsRequest, PaysItsOwn, OnePerWithdrawal

LEMMA SettledKnows ==
    ASSUME NEW t \in Settling, KnowsSettle(t) PROVE KnowsSettle(Settled(t))
<1>1. KnowsSettle(Asleep)
  BY DEF KnowsSettle, Asleep
<1>2. KnowsSettle([t EXCEPT !.at = "finalising"]) /\ KnowsSettle([t EXCEPT !.at = "aborting"])
  BY DEF KnowsSettle, Settling
<1> QED BY <1>1, <1>2 DEF Settled

\* What a poller waits for is justified by what it knows.
LEMMA CallsAreJustified ==
    ASSUME NEW s \in Server, WithdrawalsInv
    PROVE  \A c \in RequestCalls(s) \cup SettleCalls(s) : Justified(c)
<1>1. KnowsRequest(request[s]) /\ KnowsSettle(settle[s])
  BY DEF WithdrawalsInv, RequestsInv, SettlesInv
<1>2. \A c \in RequestCalls(s) : Justified(c)
  BY <1>1 DEF RequestCalls, Justified, KnowsRequest, PaysItsOwn
<1>3. \A c \in SettleCalls(s) : Justified(c)
  <2>1. \A p \in settle[s].final \cup settle[s].reject : p.tx.pays = Payment[p.w]
    <3>1. \A p \in settle[s].final \cup settle[s].reject : p \in Proposal /\ OnRecord(p)
      BY <1>1 DEF KnowsSettle, WithdrawalsInv, WithdrawalsTypeOK, Settling
    <3>2. \A p \in Proposal : p.w \in Withdrawal /\ p.tx # None
      BY NotPayouts DEF Proposal
    <3> QED BY <3>1, <3>2 DEF OnRecord, WithdrawalsInv, PayoutsInv
  <2> QED BY <1>1, <2>1 DEF SettleCalls, Justified, KnowsSettle, PaysItsOwn
<1> QED BY <1>2, <1>3

\* A payout that is on record reaches a Safe.
LEMMA TakeKeeps ==
    ASSUME WithdrawalsInv, NEW p \in Proposal, OnRecord(p), Take(p) \/ UNCHANGED held,
           UNCHANGED <<chain, status, custody, journal>>
    PROVE  PayoutsInv' /\ SafesInv' /\ ContractInv'
<1>1. held' \subseteq held \cup {p} /\ held \subseteq held'
  BY DEF Take
<1>2. p.w \in Withdrawal /\ p.tx # None
  BY NotPayouts DEF Proposal
<1>3. p.tx.pays = Payment[p.w]
  BY <1>2 DEF OnRecord, WithdrawalsInv, PayoutsInv
<1>4. PayoutsInv'
  BY <1>1, <1>3 DEF WithdrawalsInv, PayoutsInv, PaysItsOwn
<1>5. SafesInv'
  BY <1>1 DEF WithdrawalsInv, SafesInv, OnlyRecordedPayouts, OnRecord
<1>6. ContractInv'
  BY DEF WithdrawalsInv, ContractInv, Paid, TakenForDead, Dead, Ran, Used, OnChainNonce
<1> QED BY <1>4, <1>5, <1>6

LEMMA ContractStays ==
    ASSUME WithdrawalsInv, UNCHANGED <<held, chain, status, custody>>
    PROVE  /\ SafesInv' /\ ContractInv'
           /\ (\A s \in Server : PaysItsOwn(journal'[s])) => PayoutsInv'
<1>1. SafesInv'
  BY DEF WithdrawalsInv, SafesInv, OnlyRecordedPayouts
<1>2. ContractInv'
  BY DEF WithdrawalsInv, ContractInv, Paid, TakenForDead, Dead, Ran, Used, OnChainNonce
<1> QED BY <1>1, <1>2 DEF WithdrawalsInv, PayoutsInv, PaysItsOwn

LEMMA RequestMoves ==
    ASSUME WithdrawalsInv, WithdrawalsTypeOK', UNCHANGED <<chain, custody, mempool, settle>>,
           NEW s \in Server, NEW r \in Requesting, KnowsRequest(r), RequestGoes(s, r)
    PROVE  RequestsInv' /\ SettlesInv' /\ CallsInv'
<1>1. KnowsRequest(r)'
  BY QuietStep, StillKnown DEF WithdrawalsInv
<1> QED BY <1>1, PollersStay DEF RequestGoes

LEMMA SettleMoves ==
    ASSUME WithdrawalsInv, WithdrawalsTypeOK', UNCHANGED <<chain, custody, mempool, request>>,
           NEW s \in Server, NEW t \in Settling, KnowsSettle(t), SettleGoes(s, t)
    PROVE  RequestsInv' /\ SettlesInv' /\ CallsInv'
<1>1. KnowsSettle(t)'
  BY QuietStep
<1> QED BY <1>1, PollersStay DEF SettleGoes

LEMMA RequestStepKeeps ==
    ASSUME WithdrawalsInv, WithdrawalsTypeOK', NEW s \in Server, RequestStep(s)
    PROVE  WithdrawalsInv'
<1> USE DEF WithdrawalsInv
<1>0. KnowsRequest(request[s]) /\ request[s] \in Requesting /\ held \subseteq Proposal
  BY DEF RequestsInv, WithdrawalsTypeOK
<1>1. CASE RequestPoll(s)
  <2>1. PICK r \in Requesting : KnowsRequest(r) /\ RequestGoes(s, r)
    <3>1. PICK asked \in SUBSET {w \in Withdrawal : status[w] # "none"} :
             RequestGoes(s, Onward([at |-> "adopting",
                 batch |-> {w \in asked : PayoutsFor(w) = {}},
                 txs |-> UNION {PayoutsFor(w) : w \in {v \in asked : Cardinality(PayoutsFor(v)) = 1}}]))
      BY <1>1 DEF RequestPoll
    <3> DEFINE unpaid == {w \in asked : PayoutsFor(w) = {}}
               txs    == UNION {PayoutsFor(w) : w \in {v \in asked : Cardinality(PayoutsFor(v)) = 1}}
               r      == [at |-> "adopting", batch |-> unpaid, txs |-> txs]
    <3>2. unpaid \subseteq Withdrawal /\ txs \subseteq held
      BY DEF PayoutsFor
    <3>3. r \in Requesting
      BY <1>0, <3>2 DEF Requesting
    <3>4. KnowsRequest(r)
      BY <3>2 DEF KnowsRequest, PayoutsInv, PaysItsOwn
    <3>5. Onward(r) \in Requesting /\ KnowsRequest(Onward(r))
      <4> HIDE DEF r
      <4> QED BY <3>3, <3>4, OnwardTypes, OnwardKnows
    <3> QED BY <3>1, <3>5
  <2>2. RequestsInv' /\ SettlesInv' /\ CallsInv'
    BY <1>1, <2>1, RequestMoves DEF RequestPoll
  <2>3. \A v \in Server : journal'[v] \subseteq journal[v]
    BY <1>1 DEF RequestPoll, WithdrawalsTypeOK
  <2>4. \A v \in Server : PaysItsOwn(journal'[v])
    BY <2>3 DEF PaysItsOwn, PayoutsInv
  <2> QED BY <1>1, <2>2, <2>4, ContractStays DEF RequestPoll
<1>2. CASE CreatePayouts(s)
  <2>1. PICK wallet \in [request[s].batch -> Safe], next \in [Safe -> 0 .. MaxNonce], ps \in SUBSET Proposal :
           /\ ps = Created(request[s].batch, wallet, next)
           /\ journal' = [journal EXCEPT ![s] = Recorded(@, ps)]
           /\ RequestGoes(s, [at |-> "confirming", batch |-> {}, txs |-> ps])
    BY <1>2 DEF CreatePayouts
  <2>2. PaysItsOwn(ps) /\ OnePerWithdrawal(ps)
    <3> DEFINE nonce(w) == next[wallet[w]] + Cardinality({v \in request[s].batch : v < w /\ wallet[v] = wallet[w]})
               of(w)    == [w |-> w, tx |-> PayoutOf(w, wallet[w], nonce(w))]
    <3>1. ps = {of(w) : w \in request[s].batch}
      BY <2>1 DEF Created
    <3>2. \A w : of(w).w = w /\ of(w).tx.pays = Payment[w]
      BY DEF PayoutOf
    <3> HIDE DEF of
    <3> QED BY <3>1, <3>2 DEF PaysItsOwn, OnePerWithdrawal
  <2>3. PICK r \in Requesting : r = [at |-> "confirming", batch |-> {}, txs |-> ps]
    BY DEF Requesting
  <2>4. KnowsRequest(r)
    BY <2>2, <2>3 DEF KnowsRequest
  <2>5. RequestsInv' /\ SettlesInv' /\ CallsInv'
    BY <1>2, <2>1, <2>3, <2>4, RequestMoves DEF CreatePayouts
  <2>6. \A v \in Server : journal'[v] \subseteq journal[v] \cup ps
    BY <2>1 DEF Recorded, WithdrawalsTypeOK
  <2>7. \A v \in Server : PaysItsOwn(journal'[v])
    BY <2>2, <2>6 DEF PaysItsOwn, PayoutsInv
  <2> QED BY <1>2, <2>5, <2>7, ContractStays DEF CreatePayouts
<1>3. CASE CallConfirm(s)
  <2>1. PICK c \in RequestCalls(s) :
           /\ Mined(c)
           /\ IF request[s].at = "adopting"
              THEN RequestGoes(s, Onward([request[s] EXCEPT !.txs = @ \ c.of]))
              ELSE RequestGoes(s, IF Accepted(c) THEN [request[s] EXCEPT !.at = "proposing"] ELSE Resting)
    BY <1>3 DEF CallConfirm
  <2>2. c \in Call /\ Justified(c)
    BY CallsAreCalls, CallsAreJustified
  <2>3. UNCHANGED <<held, chain, mempool, journal, settle>>
    BY <1>3 DEF CallConfirm
  <2>4. PayoutsInv' /\ SafesInv' /\ ContractInv' /\ SettlesInv' /\ CallsInv'
    BY <2>1, <2>2, <2>3, MinedRest
  <2>5. \A r \in Requesting : KnowsRequest(r) => KnowsRequest(r)'
    BY <2>1, <2>2, <2>3, MinedRest
  <2>6. PICK r \in Requesting : KnowsRequest(r)' /\ RequestGoes(s, r)
    <3>1. CASE request[s].at = "adopting"
      <4> DEFINE r == [request[s] EXCEPT !.txs = @ \ c.of]
      <4>1. r \in Requesting
        BY <1>0 DEF Requesting
      <4>2. KnowsRequest(r)
        BY <1>0, <3>1 DEF KnowsRequest, Requesting, PaysItsOwn
      <4>3. Onward(r) \in Requesting /\ KnowsRequest(Onward(r))
        <5> HIDE DEF r
        <5> QED BY <4>1, <4>2, OnwardTypes, OnwardKnows
      <4>4. PICK q \in Requesting : q = Onward(r) /\ KnowsRequest(q)
        BY <4>3
      <4> QED BY <4>4, <2>1, <2>5, <3>1
    <3>2. CASE request[s].at # "adopting" /\ ~ Accepted(c)
      <4>1. PICK q \in Requesting : q = Resting /\ KnowsRequest(q)
        BY RestingTypes DEF KnowsRequest, Resting, PaysItsOwn, OnePerWithdrawal
      <4> QED BY <4>1, <2>1, <2>5, <3>2
    <3>3. CASE request[s].at # "adopting" /\ Accepted(c)
      <4>1. request[s].at = "confirming" /\ c.kind = "confirm" /\ c.of = request[s].txs
        BY <2>1, <3>3 DEF RequestCalls
      <4>2. PICK q \in Requesting : q = [request[s] EXCEPT !.at = "proposing"]
        BY <1>0 DEF Requesting
      <4>3. q.txs = c.of /\ q.at = "proposing" /\ PaysItsOwn(c.of) /\ OnePerWithdrawal(c.of) /\ c.of \subseteq Proposal
        BY <1>0, <3>3, <4>1, <4>2 DEF KnowsRequest, Requesting
      <4>4. \A p \in c.of : custody'[p.w] = p.tx
        <5> SUFFICES ASSUME NEW p \in c.of PROVE custody'[p.w] = p.tx
          OBVIOUS
        <5>1. p.w \in Withdrawal
          BY <4>3 DEF Proposal
        <5>2. (CHOOSE q1 \in c.of : q1.w = p.w) = p
          <6> DEFINE q1 == CHOOSE q2 \in c.of : q2.w = p.w
          <6>1. q1 \in c.of /\ q1.w = p.w
            OBVIOUS
          <6> HIDE DEF q1
          <6>2. q1 = p
            BY <6>1, <4>3 DEF OnePerWithdrawal
          <6> QED BY <6>2 DEF q1
        <5> QED BY <5>1, <5>2, <2>1, <3>3, <4>1 DEF Mined, Apply
      <4>5. KnowsRequest(q)'
        BY <4>3, <4>4 DEF KnowsRequest, OnRecord, PaysItsOwn, OnePerWithdrawal
      <4> QED BY <4>2, <4>5, <2>1, <3>3
    <3> QED BY <3>1, <3>2, <3>3
  <2>7. RequestsInv'
    <3>1. \A v \in Server : \E q \in Requesting : q = request'[v] /\ KnowsRequest(q)'
      <4> SUFFICES ASSUME NEW v \in Server PROVE \E q \in Requesting : q = request'[v] /\ KnowsRequest(q)'
        OBVIOUS
      <4>1. CASE v = s
        BY <4>1, <2>6 DEF RequestGoes, WithdrawalsTypeOK
      <4>2. CASE v # s
        <5>1. PICK q \in Requesting : q = request[v] /\ KnowsRequest(q)
          BY DEF RequestsInv, WithdrawalsTypeOK
        <5> QED BY <5>1, <4>2, <2>5, <2>6 DEF RequestGoes, WithdrawalsTypeOK
      <4> QED BY <4>1, <4>2
    <3> QED BY <3>1 DEF RequestsInv
  <2> QED BY <2>4, <2>7
<1>4. CASE ProposePayout(s)
  <2>1. PICK p \in request[s].txs :
           /\ Take(p) \/ UNCHANGED held
           /\ RequestGoes(s, Onward([request[s] EXCEPT !.txs = @ \ {p}]))
    BY <1>4 DEF ProposePayout
  <2>2. p \in Proposal /\ OnRecord(p)
    BY <1>0, <1>4 DEF Requesting, KnowsRequest, ProposePayout
  <2>3. PICK r \in Requesting : KnowsRequest(r) /\ RequestGoes(s, r)
    <3> DEFINE q == [request[s] EXCEPT !.txs = @ \ {p}]
    <3>1. q \in Requesting
      BY <1>0 DEF Requesting
    <3>2. KnowsRequest(q)
      BY <1>0 DEF KnowsRequest, Requesting, PaysItsOwn, OnePerWithdrawal
    <3>3. Onward(q) \in Requesting /\ KnowsRequest(Onward(q))
      <4> HIDE DEF q
      <4> QED BY <3>1, <3>2, OnwardTypes, OnwardKnows
    <3> QED BY <2>1, <3>3
  <2>4. RequestsInv' /\ SettlesInv' /\ CallsInv'
    BY <1>4, <2>3, RequestMoves DEF ProposePayout
  <2>5. PayoutsInv' /\ SafesInv' /\ ContractInv'
    BY <1>4, <2>1, <2>2, TakeKeeps DEF ProposePayout
  <2> QED BY <2>4, <2>5
<1>5. CASE EndRequest(s)
  <2>1. Resting \in Requesting /\ KnowsRequest(Resting)
    BY RestingTypes DEF KnowsRequest, Resting, PaysItsOwn, OnePerWithdrawal
  <2>2. RequestsInv' /\ SettlesInv' /\ CallsInv'
    BY <1>5, <2>1, RequestMoves DEF EndRequest
  <2>3. \A v \in Server : PaysItsOwn(journal'[v])
    BY <1>5 DEF EndRequest, PayoutsInv
  <2> QED BY <1>5, <2>2, <2>3, ContractStays DEF EndRequest
<1> QED BY <1>1, <1>2, <1>3, <1>4, <1>5 DEF RequestStep

LEMMA SettleStepKeeps ==
    ASSUME WithdrawalsInv, WithdrawalsTypeOK', DistinctPayments, NEW s \in Server, SettleStep(s)
    PROVE  WithdrawalsInv'
<1> USE DEF WithdrawalsInv
<1>0. KnowsSettle(settle[s]) /\ settle[s] \in Settling /\ held \subseteq Proposal
  BY DEF SettlesInv, WithdrawalsTypeOK
<1>1. CASE CheckStatus(s)
  <2>1. PICK seen \in SUBSET {[w |-> v, tx |-> custody[v]] : v \in {u \in Withdrawal : custody[u] # None}} :
           LET absent == {p \in seen : \A h \in held : h.tx # p.tx}
               found  == [Asleep EXCEPT !.absent = absent,
                                        !.final = {p \in seen \ absent : Paid(p.tx)},
                                        !.reject = {p \in seen \ absent : Replaced(p.tx)}]
           IN  SettleGoes(s, IF absent = {} THEN Settled(found) ELSE [found EXCEPT !.at = "looking"])
    BY <1>1 DEF CheckStatus
  <2> DEFINE absent == {p \in seen : \A h \in held : h.tx # p.tx}
             final  == {p \in seen \ absent : Paid(p.tx)}
             reject == {p \in seen \ absent : Replaced(p.tx)}
             found  == [Asleep EXCEPT !.absent = absent, !.final = final, !.reject = reject]
             look   == [found EXCEPT !.at = "looking"]
  <2>2. \A p \in seen : p \in Proposal /\ OnRecord(p)
    BY DEF Proposal, OnRecord, WithdrawalsTypeOK
  <2>3. \A p \in absent : ~ Ran(p.tx)
    <3> SUFFICES ASSUME NEW p \in absent, Ran(p.tx) PROVE FALSE
      OBVIOUS
    <3>1. p.tx \in Payout /\ p.tx.safe \in Safe /\ p.tx.nonce \in Nat
      BY <2>2, CustodyAssumption DEF Proposal, Payout
    <3>2. chain[p.tx.safe] \in Seq([tx : Payout \cup {Other}, ok : BOOLEAN])
      BY <3>1 DEF WithdrawalsTypeOK
    <3>3. p.tx.nonce + 1 \in DOMAIN chain[p.tx.safe] /\ chain[p.tx.safe][p.tx.nonce + 1].tx = p.tx
      BY <3>1, <3>2 DEF Ran, Used, OnChainNonce
    <3> QED BY <3>1, <3>3, NotPayouts DEF SafesInv
  <2>4. \A p \in reject : TakenForDead(p.tx)
    BY DEF Replaced, TakenForDead, Dead, Paid
  <2>5. found \in Settling /\ look \in Settling
    BY <2>2 DEF Asleep, Settling
  <2>6. KnowsSettle(found) /\ KnowsSettle(look)
    <3> HIDE DEF absent, final, reject
    <3>1. \A p \in absent \cup final \cup reject : OnRecord(p)
      BY <2>2 DEF absent, final, reject
    <3>2. \A p \in final : Paid(p.tx)
      BY DEF final
    <3> QED BY <3>1, <3>2, <2>3, <2>4 DEF KnowsSettle, Asleep
  <2>7. PICK t \in Settling : KnowsSettle(t) /\ SettleGoes(s, t)
    <3> HIDE DEF found
    <3>1. Settled(found) \in Settling /\ KnowsSettle(Settled(found))
      BY <2>5, <2>6, SettledTypes, SettledKnows
    <3> QED BY <2>1, <2>5, <2>6, <3>1 DEF found
  <2>8. RequestsInv' /\ SettlesInv' /\ CallsInv'
    BY <1>1, <2>7, SettleMoves DEF CheckStatus
  <2>9. \A v \in Server : PaysItsOwn(journal'[v])
    BY <1>1 DEF CheckStatus, PayoutsInv
  <2> QED BY <1>1, <2>8, <2>9, ContractStays DEF CheckStatus
<1>2. CASE LookAgain(s)
  <2> DEFINE unpaid == {p \in settle[s].absent : /\ PayoutsFor(p.w) = {}
                                                /\ \E e \in journal[s] : e.tx = p.tx}
             t == [settle[s] EXCEPT !.at = "deciding", !.absent = unpaid]
  <2>1. unpaid \subseteq settle[s].absent
    OBVIOUS
  <2>2. t \in Settling /\ KnowsSettle(t)
    <3> HIDE DEF unpaid
    <3> QED BY <1>0, <2>1 DEF Settling, KnowsSettle
  <2>3. SettleGoes(s, t)
    BY <1>2 DEF LookAgain
  <2> HIDE DEF t
  <2>4. RequestsInv' /\ SettlesInv' /\ CallsInv'
    BY <1>2, <2>2, <2>3, SettleMoves DEF LookAgain
  <2>5. \A v \in Server : PaysItsOwn(journal'[v])
    BY <1>2 DEF LookAgain, PayoutsInv
  <2> QED BY <1>2, <2>4, <2>5, ContractStays DEF LookAgain
<1>3. CASE DecideAbsent(s)
  <2> DEFINE absent == settle[s].absent
             dead   == {p \in absent : Used(p.tx)}
             saved  == {e \in journal[s] : \E p \in absent \ dead : p.tx = e.tx}
             next   == [settle[s] EXCEPT !.at = "proposing", !.absent = {}, !.reject = @ \cup dead, !.txs = saved]
  <2>1. \A p \in absent : p \in Proposal /\ OnRecord(p) /\ (Hurried \/ ~ Ran(p.tx))
    BY <1>0 DEF KnowsSettle, Settling
  <2>2. \A p \in dead : OnRecord(p) /\ TakenForDead(p.tx)
    BY <2>1 DEF TakenForDead, Dead, Paid
  <2>3. \A e \in saved : OnRecord(e)
    <3> SUFFICES ASSUME NEW e \in journal[s], NEW p \in absent, p.tx = e.tx PROVE OnRecord(e)
      OBVIOUS
    <3>1. e \in Proposal /\ p \in Proposal
      BY <2>1 DEF WithdrawalsTypeOK
    <3>2. e.w \in Withdrawal /\ p.w \in Withdrawal /\ p.tx # None
      BY <3>1, NotPayouts DEF Proposal
    <3>3. e.tx.pays = Payment[e.w] /\ p.tx.pays = Payment[p.w]
      BY <2>1, <3>2 DEF PayoutsInv, PaysItsOwn, OnRecord
    <3>4. e.w = p.w
      BY <3>2, <3>3 DEF DistinctPayments
    <3> QED BY <2>1, <3>4 DEF OnRecord
  <2>4. next \in Settling /\ KnowsSettle(next)
    <3>1. dead \subseteq Proposal /\ saved \subseteq Proposal
      BY <2>1 DEF WithdrawalsTypeOK
    <3> HIDE DEF dead, saved, absent
    <3> QED BY <1>0, <2>2, <2>3, <3>1 DEF Settling, KnowsSettle
  <2>5. SettleGoes(s, IF saved = {} THEN Settled(next) ELSE next)
    BY <1>3 DEF DecideAbsent
  <2>6. PICK t \in Settling : KnowsSettle(t) /\ SettleGoes(s, t)
    <3> HIDE DEF next, saved
    <3>1. Settled(next) \in Settling /\ KnowsSettle(Settled(next))
      BY <2>4, SettledTypes, SettledKnows
    <3> QED BY <2>4, <2>5, <3>1
  <2>7. RequestsInv' /\ SettlesInv' /\ CallsInv'
    BY <1>3, <2>6, SettleMoves DEF DecideAbsent
  <2>8. \A v \in Server : PaysItsOwn(journal'[v])
    BY <1>3 DEF DecideAbsent, PayoutsInv
  <2> QED BY <1>3, <2>7, <2>8, ContractStays DEF DecideAbsent
<1>4. CASE ProposeSaved(s)
  <2>1. PICK p \in settle[s].txs :
           /\ Take(p) \/ UNCHANGED held
           /\ LET t == [settle[s] EXCEPT !.txs = @ \ {p}]
              IN  SettleGoes(s, IF t.txs = {} THEN Settled(t) ELSE t)
    BY <1>4 DEF ProposeSaved
  <2>2. p \in Proposal /\ OnRecord(p)
    BY <1>0 DEF Settling, KnowsSettle
  <2>3. PICK t \in Settling : KnowsSettle(t) /\ SettleGoes(s, t)
    <3> DEFINE q == [settle[s] EXCEPT !.txs = @ \ {p}]
    <3>1. q \in Settling /\ KnowsSettle(q)
      BY <1>0 DEF Settling, KnowsSettle
    <3>2. SettleGoes(s, IF q.txs = {} THEN Settled(q) ELSE q)
      BY <2>1
    <3> HIDE DEF q
    <3>3. Settled(q) \in Settling /\ KnowsSettle(Settled(q))
      BY <3>1, SettledTypes, SettledKnows
    <3> QED BY <3>1, <3>2, <3>3
  <2>4. RequestsInv' /\ SettlesInv' /\ CallsInv'
    BY <1>4, <2>3, SettleMoves DEF ProposeSaved
  <2>5. PayoutsInv' /\ SafesInv' /\ ContractInv'
    BY <1>4, <2>1, <2>2, TakeKeeps DEF ProposeSaved
  <2> QED BY <2>4, <2>5
<1>5. CASE CallSettle(s)
  <2>1. PICK c \in SettleCalls(s) :
           /\ Mined(c)
           /\ SettleGoes(s, IF c.kind = "finalise" THEN Settled([settle[s] EXCEPT !.final = {}]) ELSE Asleep)
           /\ journal' = [journal EXCEPT ![s] = Prune(@, c.of)]
    BY <1>5 DEF CallSettle
  <2>2. c \in Call /\ Justified(c)
    BY CallsAreCalls, CallsAreJustified
  <2>3. UNCHANGED <<held, chain, mempool, request>>
    BY <1>5 DEF CallSettle
  <2>4. SafesInv' /\ ContractInv' /\ RequestsInv' /\ CallsInv'
    BY <2>1, <2>2, <2>3, MinedRest
  <2>5. \A t \in Settling : KnowsSettle(t) => KnowsSettle(t)'
    BY <2>1, <2>2, <2>3, MinedRest
  <2>6. PICK t \in Settling : KnowsSettle(t) /\ SettleGoes(s, t)
    <3> DEFINE q == [settle[s] EXCEPT !.final = {}]
    <3>1. q \in Settling /\ KnowsSettle(q)
      BY <1>0 DEF Settling, KnowsSettle
    <3>2. KnowsSettle(Asleep) /\ Asleep \in Settling
      BY RestingTypes DEF KnowsSettle, Asleep
    <3>3. SettleGoes(s, IF c.kind = "finalise" THEN Settled(q) ELSE Asleep)
      BY <2>1
    <3> HIDE DEF q
    <3>4. Settled(q) \in Settling /\ KnowsSettle(Settled(q))
      BY <3>1, SettledTypes, SettledKnows
    <3> QED BY <3>2, <3>3, <3>4
  <2>7. SettlesInv'
    <3>1. \A v \in Server : \E q \in Settling : q = settle'[v] /\ KnowsSettle(q)'
      <4> SUFFICES ASSUME NEW v \in Server PROVE \E q \in Settling : q = settle'[v] /\ KnowsSettle(q)'
        OBVIOUS
      <4>1. CASE v = s
        BY <4>1, <2>5, <2>6 DEF SettleGoes, WithdrawalsTypeOK
      <4>2. CASE v # s
        <5>1. PICK q \in Settling : q = settle[v] /\ KnowsSettle(q)
          BY DEF SettlesInv, WithdrawalsTypeOK
        <5> QED BY <5>1, <4>2, <2>5, <2>6 DEF SettleGoes, WithdrawalsTypeOK
      <4> QED BY <4>1, <4>2
    <3> QED BY <3>1 DEF SettlesInv
  <2>8. PayoutsInv'
    <3>1. \A v \in Server : journal'[v] \subseteq journal[v]
      BY <2>1 DEF Prune, WithdrawalsTypeOK
    <3>2. \A w \in Withdrawal : custody'[w] # None => custody'[w].pays = Payment[w]
      BY <2>1, <2>2, <2>3, MinedKeeps
    <3> QED BY <2>3, <3>1, <3>2 DEF PayoutsInv, PaysItsOwn
  <2> QED BY <2>4, <2>7, <2>8
<1>6. CASE EndSettle(s)
  <2>1. Asleep \in Settling /\ KnowsSettle(Asleep)
    BY RestingTypes DEF KnowsSettle, Asleep
  <2>2. RequestsInv' /\ SettlesInv' /\ CallsInv'
    BY <1>6, <2>1, SettleMoves DEF EndSettle
  <2>3. \A v \in Server : PaysItsOwn(journal'[v])
    BY <1>6 DEF EndSettle, PayoutsInv
  <2> QED BY <1>6, <2>2, <2>3, ContractStays DEF EndSettle
<1> QED BY <1>1, <1>2, <1>3, <1>4, <1>5, <1>6 DEF SettleStep

\* A transaction that runs comes after all that have run; it had not run before.
LEMMA RunGrows ==
    ASSUME WithdrawalsTypeOK, NEW f \in Safe, NEW e \in [tx : Payout \cup {Other}, ok : BOOLEAN],
           chain' = [chain EXCEPT ![f] = Append(@, e)]
    PROVE  /\ Grows
           /\ \A g \in Safe : \A n \in DOMAIN chain'[g] :
                 \/ n \in DOMAIN chain[g] /\ chain'[g][n] = chain[g][n]
                 \/ g = f /\ n = Len(chain[f]) + 1 /\ chain'[g][n] = e
<1>1. \A g \in Safe : chain[g] \in Seq([tx : Payout \cup {Other}, ok : BOOLEAN])
  BY DEF WithdrawalsTypeOK
<1>2. chain'[f] = Append(chain[f], e) /\ \A g \in Safe \ {f} : chain'[g] = chain[g]
  BY DEF WithdrawalsTypeOK
<1>3. /\ Len(chain'[f]) = Len(chain[f]) + 1
      /\ \A n \in 1 .. Len(chain[f]) : chain'[f][n] = chain[f][n]
      /\ chain'[f][Len(chain[f]) + 1] = e
      /\ DOMAIN chain[f] = 1 .. Len(chain[f]) /\ DOMAIN chain'[f] = 1 .. Len(chain[f]) + 1
      /\ Len(chain[f]) \in Nat
  BY <1>1, <1>2
<1> QED BY <1>2, <1>3 DEF Grows

LEMMA RanPosition ==
    ASSUME WithdrawalsTypeOK, NEW tx \in Payout
    PROVE  /\ tx.safe \in Safe /\ tx.nonce \in Nat
           /\ Ran(tx) => tx.nonce + 1 \in DOMAIN chain[tx.safe] /\ chain[tx.safe][tx.nonce + 1].tx = tx
           /\ tx.nonce + 1 \in DOMAIN chain[tx.safe] => Used(tx)
<1>1. tx.safe \in Safe /\ tx.nonce \in Nat
  BY CustodyAssumption DEF Payout
<1>2. chain[tx.safe] \in Seq([tx : Payout \cup {Other}, ok : BOOLEAN])
  BY <1>1 DEF WithdrawalsTypeOK
<1> QED BY <1>1, <1>2 DEF Ran, Used, OnChainNonce

LEMMA RunKeeps ==
    ASSUME WithdrawalsInv, WithdrawalsTypeOK', NEW f \in Safe,
           NEW e \in [tx : Payout \cup {Other}, ok : BOOLEAN],
           chain' = [chain EXCEPT ![f] = Append(@, e)],
           e.tx = Other \/ \E h \in held : h.tx = e.tx,
           Hurried \/ \A s \in Server : \A q \in settle[s].absent : q.tx # e.tx,
           UNCHANGED <<held, status, custody, mempool, journal, request, settle>>
    PROVE  WithdrawalsInv'
<1> USE DEF WithdrawalsInv
<1>1. /\ Grows
      /\ \A g \in Safe : \A n \in DOMAIN chain'[g] :
            \/ n \in DOMAIN chain[g] /\ chain'[g][n] = chain[g][n]
            \/ g = f /\ n = Len(chain[f]) + 1 /\ chain'[g][n] = e
  BY RunGrows
<1>2. CustodyStays
  BY DEF CustodyStays, OnRecord
<1>3. /\ \A s \in Server : request[s] \in Requesting /\ settle[s] \in Settling
      /\ \A c \in mempool : c \in Call
  BY DEF WithdrawalsTypeOK
<1>4. PayoutsInv'
  BY DEF PayoutsInv, PaysItsOwn
<1>5. SafesInv'
  BY <1>1 DEF SafesInv, OnlyRecordedPayouts
<1>6. \A tx \in Payout : (Paid(tx) => Paid(tx)') /\ (TakenForDead(tx) => TakenForDead(tx)')
  BY <1>1, GrownKeeps DEF TakenForDead, Dead, Paid, Ran
<1>7. ContractInv'
  <2>1. \A w \in Withdrawal : custody[w] # None => custody[w] \in Payout
    BY DEF WithdrawalsTypeOK
  <2>2. \A w \in Withdrawal : custody[w] # None =>
           (Paid(custody[w]) => Paid(custody[w])') /\ (TakenForDead(custody[w]) => TakenForDead(custody[w])')
    <3> SUFFICES ASSUME NEW w \in Withdrawal, custody[w] # None
                 PROVE  (Paid(custody[w]) => Paid(custody[w])') /\ (TakenForDead(custody[w]) => TakenForDead(custody[w])')
      OBVIOUS
    <3>1. PICK tx \in Payout : tx = custody[w]
      BY <2>1
    <3>2. (Paid(tx) => Paid(tx)') /\ (TakenForDead(tx) => TakenForDead(tx)')
      BY <1>6
    <3> QED BY <3>1, <3>2 DEF Paid, TakenForDead, Dead, Ran, Used, OnChainNonce
  <2> QED BY <2>2 DEF ContractInv
<1>8. RequestsInv' /\ CallsInv'
  BY <1>1, <1>2, <1>3, StillKnown DEF RequestsInv, CallsInv
<1>9. SettlesInv'
  <2> SUFFICES ASSUME NEW s \in Server PROVE KnowsSettle(settle[s])'
    BY DEF SettlesInv
  <2>1. PICK t \in Settling : t = settle[s] /\ KnowsSettle(t)
    BY <1>3 DEF SettlesInv
  <2>2. ASSUME NEW p \in t.absent, ~ Hurried PROVE ~ Ran(p.tx)'
    <3>1. p.tx \in Payout /\ ~ Ran(p.tx) /\ p.tx # e.tx
      BY <2>1, <2>2 DEF KnowsSettle, Settling, Proposal
    <3>2. PICK tx \in Payout : tx = p.tx
      BY <3>1
    <3>3. SUFFICES ASSUME Ran(tx)' PROVE FALSE
      BY <3>2 DEF Ran, Used, OnChainNonce
    <3>4. tx.nonce + 1 \in DOMAIN chain'[tx.safe] /\ chain'[tx.safe][tx.nonce + 1].tx = tx /\ tx.safe \in Safe
      <4>1. /\ tx.safe \in Safe /\ tx.nonce \in Nat
        BY RanPosition
      <4>2. chain'[tx.safe] \in Seq([tx : Payout \cup {Other}, ok : BOOLEAN])
        BY <4>1 DEF WithdrawalsTypeOK
      <4> QED BY <3>3, <4>1, <4>2 DEF Ran, Used, OnChainNonce
    <3>5. chain'[tx.safe][tx.nonce + 1] # e
      BY <3>1, <3>2, <3>4
    <3>6. tx.nonce + 1 \in DOMAIN chain[tx.safe] /\ chain[tx.safe][tx.nonce + 1].tx = tx
      BY <1>1, <3>4, <3>5
    <3>7. Used(tx) /\ Ran(tx)
      BY <3>6, RanPosition DEF Ran
    <3> QED BY <3>1, <3>2, <3>7
  <2>3. KnowsSettle(t)'
    BY <1>1, <1>2, <2>1, <2>2, StillKnown
  <2> QED BY <2>1, <2>3
<1> QED BY <1>4, <1>5, <1>7, <1>8, <1>9

LEMMA WithdrawalsInit == Init => WithdrawalsInv
<1> SUFFICES ASSUME Init PROVE WithdrawalsInv
  OBVIOUS
<1>1. WithdrawalsTypeOK
  BY TypeInit
<1>2. PayoutsInv /\ SafesInv /\ ContractInv /\ CallsInv
  BY DEF Init, SafeInit, PayoutsInv, PaysItsOwn, SafesInv, OnlyRecordedPayouts, ContractInv, CallsInv
<1>3. RequestsInv
  BY DEF Init, RequestsInv, KnowsRequest, Resting, PaysItsOwn, OnePerWithdrawal
<1>4. SettlesInv
  BY DEF Init, SettlesInv, KnowsSettle, Asleep
<1> QED BY <1>1, <1>2, <1>3, <1>4 DEF WithdrawalsInv

LEMMA StatusOnly ==
    ASSUME WithdrawalsInv, WithdrawalsTypeOK', ContractInv',
           UNCHANGED <<held, chain, custody, mempool, journal, request, settle>>
    PROVE  WithdrawalsInv'
<1>1. PayoutsInv' /\ SafesInv'
  BY DEF WithdrawalsInv, PayoutsInv, PaysItsOwn, SafesInv, OnlyRecordedPayouts
<1> QED BY <1>1, PollersStay DEF WithdrawalsInv

LEMMA WithdrawalsStep ==
    ASSUME DistinctPayments
    PROVE  WithdrawalsInv /\ [Next]_vars => WithdrawalsInv'
<1> SUFFICES ASSUME WithdrawalsInv, [Next]_vars PROVE WithdrawalsInv'
  OBVIOUS
<1>0. WithdrawalsTypeOK'
  BY TypeStep DEF WithdrawalsInv
<1> USE DEF WithdrawalsInv
<1>1. ASSUME NEW w \in Withdrawal, RequestWithdrawal(w) \/ AbortUnconfirmed(w) \/ CancelAndSweep(w)
      PROVE  WithdrawalsInv'
  <2>1. UNCHANGED <<held, chain, custody, mempool, journal, request, settle>>
    BY <1>1 DEF RequestWithdrawal, AbortUnconfirmed, CancelAndSweep
  <2>2. ContractInv'
    <3>1. CASE RequestWithdrawal(w)
      BY <3>1 DEF RequestWithdrawal, ContractInv, WithdrawalsTypeOK, Paid, TakenForDead, Dead, Ran, Used, OnChainNonce
    <3>2. CASE AbortUnconfirmed(w)
      BY <3>2 DEF AbortUnconfirmed, ContractInv, WithdrawalsTypeOK, Paid, TakenForDead, Dead, Ran, Used, OnChainNonce
    <3>3. CASE CancelAndSweep(w)
      BY <3>3 DEF CancelAndSweep, Replaced, ContractInv, WithdrawalsTypeOK, Paid, TakenForDead, Dead, Ran, Used, OnChainNonce
    <3> QED BY <1>1, <3>1, <3>2, <3>3
  <2> QED BY <1>0, <2>1, <2>2, StatusOnly
<1>2. ASSUME NEW s \in Server, Unanswered(s) PROVE WithdrawalsInv'
  <2>1. PICK c \in RequestCalls(s) \cup SettleCalls(s) : mempool' = mempool \cup {c}
    BY <1>2 DEF Unanswered
  <2>2. c \in Call /\ Justified(c)
    BY CallsAreCalls, CallsAreJustified
  <2>3. UNCHANGED <<held, chain, status, custody, journal, request, settle>>
    BY <1>2 DEF Unanswered
  <2>4. Grows /\ CustodyStays
    BY <2>3, <1>0, QuietStep
  <2>5. CallsInv'
    <3>1. \A d \in Call : Justified(d) => Justified(d)'
      BY <1>0, <2>4, StillKnown
    <3>2. \A d \in mempool' : \E q \in Call : q = d /\ Justified(q)
      BY <2>1, <2>2 DEF CallsInv, WithdrawalsTypeOK
    <3> QED BY <3>1, <3>2 DEF CallsInv
  <2>6. \A v \in Server : PaysItsOwn(journal'[v])
    BY <2>3 DEF PayoutsInv
  <2> QED BY <1>0, <2>3, <2>5, <2>6, PollersStay, ContractStays
<1>3. ASSUME NEW c \in mempool, MineLate(c) PROVE WithdrawalsInv'
  <2>1. c \in Call /\ Justified(c) /\ Mined(c) /\ mempool' = mempool \ {c}
    BY <1>3 DEF MineLate, CallsInv, WithdrawalsTypeOK
  <2>2. UNCHANGED <<held, chain, journal, request, settle>>
    BY <1>3 DEF MineLate
  <2> QED BY <1>0, <2>1, <2>2, MinedRest
<1>4. CASE RunPayout
  <2>1. PICK p \in held, ok \in {TRUE, ~ MayFail} : (Hurried \/ ~ Deciding(p)) /\ Execute(p, ok)
    BY <1>4 DEF RunPayout
  <2> DEFINE e == [tx |-> p.tx, ok |-> ok]
  <2>2. p.tx \in Payout /\ p.tx.safe \in Safe /\ ok \in BOOLEAN
    BY BridgeAssumption DEF WithdrawalsTypeOK, Proposal, Payout
  <2>3. e \in [tx : Payout \cup {Other}, ok : BOOLEAN]
    BY <2>2
  <2>4. chain' = [chain EXCEPT ![p.tx.safe] = Append(@, e)]
    BY <2>1 DEF Execute
  <2>5. Hurried \/ \A s \in Server : \A q \in settle[s].absent : q.tx # e.tx
    BY <2>1 DEF Deciding
  <2>6. UNCHANGED <<held, status, custody, mempool, journal, request, settle>>
    BY <1>4, <2>1 DEF RunPayout, Execute
  <2>7. \E h \in held : h.tx = e.tx
    OBVIOUS
  <2> HIDE DEF e
  <2> QED BY <1>0, <2>2, <2>3, <2>4, <2>5, <2>6, <2>7, RunKeeps
<1>5. CASE RunOther
  <2>1. PICK f \in Safe : ExecuteOther(f)
    BY <1>5 DEF RunOther
  <2> DEFINE e == [tx |-> Other, ok |-> TRUE]
  <2>2. chain' = [chain EXCEPT ![f] = Append(@, e)]
    BY <2>1 DEF ExecuteOther
  <2>3. \A s \in Server : \A q \in settle[s].absent : q.tx # e.tx
    BY NotPayouts DEF WithdrawalsTypeOK, Settling, Proposal
  <2>4. UNCHANGED <<held, status, custody, mempool, journal, request, settle>>
    BY <1>5, <2>1 DEF RunOther, ExecuteOther
  <2> QED BY <1>0, <2>2, <2>3, <2>4, RunKeeps
<1>6. CASE UNCHANGED vars
  <2>1. UNCHANGED <<held, chain, custody, mempool, journal, request, settle, status>>
    BY <1>6 DEF vars
  <2>2. ContractInv'
    BY <2>1 DEF ContractInv, Paid, TakenForDead, Dead, Ran, Used, OnChainNonce
  <2> QED BY <1>0, <2>1, <2>2, StatusOnly
<1>7. ASSUME NEW s \in Server, RequestStep(s) \/ SettleStep(s) PROVE WithdrawalsInv'
  BY <1>0, <1>7, RequestStepKeeps, SettleStepKeeps
<1> QED BY <1>1, <1>2, <1>3, <1>4, <1>5, <1>6, <1>7 DEF Next

\* What the pollers know, what the Safes hold and what STRATO records agree.
THEOREM WithdrawalsInductive ==
    ASSUME DistinctPayments PROVE Spec => []WithdrawalsInv
  BY WithdrawalsInit, WithdrawalsStep, PTL DEF Spec

\* The Safes hold only what STRATO records.
THEOREM NoOtherPayouts ==
    ASSUME DistinctPayments PROVE Spec => []OnlyRecordedPayouts
<1>1. WithdrawalsInv => OnlyRecordedPayouts
  BY DEF WithdrawalsInv, SafesInv
<1> QED BY <1>1, WithdrawalsInductive, PTL

\* What pays the same thing is for the same withdrawal, which records one payout.
THEOREM NobodyIsPaidTwice ==
    ASSUME DistinctPayments PROVE Spec => []PaidOnce
<1>1. WithdrawalsInv => PaidOnce
  <2> SUFFICES ASSUME WithdrawalsInv, NEW g \in held, NEW h \in held, g.tx.pays = h.tx.pays
               PROVE  g.tx = h.tx
    BY DEF PaidOnce
  <2>1. g.w \in Withdrawal /\ h.w \in Withdrawal
    BY DEF WithdrawalsInv, WithdrawalsTypeOK, Proposal
  <2>2. g.w = h.w
    BY <2>1 DEF WithdrawalsInv, PayoutsInv, PaysItsOwn, DistinctPayments
  <2> QED BY <2>2 DEF WithdrawalsInv, SafesInv, OnlyRecordedPayouts
<1> QED BY <1>1, WithdrawalsInductive, PTL

-----------------------------------------------------------------------------
(* The promise *)

\* A withdrawal has been paid when the transaction STRATO records for it has.
RecordPaid(w) == custody[w] # None /\ Paid(custody[w])

LEMMA PaidOnRecord ==
    ASSUME WithdrawalsInv, DistinctPayments
    PROVE  \A w \in Withdrawal : WasPaid(w) <=> RecordPaid(w)
<1> SUFFICES ASSUME NEW w \in Withdrawal PROVE WasPaid(w) <=> RecordPaid(w)
  OBVIOUS
<1> USE DEF WithdrawalsInv
<1>1. ASSUME NEW h \in held, h.tx.pays = Payment[w], Paid(h.tx) PROVE RecordPaid(w)
  <2>1. h.w \in Withdrawal /\ h.tx # None
    BY NotPayouts DEF WithdrawalsTypeOK, Proposal
  <2>2. h.w = w
    BY <1>1, <2>1 DEF PayoutsInv, PaysItsOwn, DistinctPayments
  <2>3. custody[w] = h.tx
    BY <2>2 DEF SafesInv, OnlyRecordedPayouts
  <2> QED BY <1>1, <2>1, <2>3 DEF RecordPaid
<1>2. ASSUME RecordPaid(w) PROVE WasPaid(w)
  <2>1. PICK tx \in Payout : tx = custody[w] /\ Paid(tx)
    BY <1>2 DEF RecordPaid, WithdrawalsTypeOK
  <2>2. tx.safe \in Safe /\ tx.nonce + 1 \in DOMAIN chain[tx.safe] /\ chain[tx.safe][tx.nonce + 1].tx = tx
    BY <2>1, RanPosition DEF Paid
  <2>3. \E h \in held : h.tx = tx
    BY <2>2, NotPayouts DEF SafesInv
  <2>4. tx.pays = Payment[w]
    BY <1>2, <2>1 DEF RecordPaid, PayoutsInv
  <2> QED BY <2>1, <2>3, <2>4 DEF WasPaid
<1> QED BY <1>1, <1>2 DEF WasPaid

LEMMA PaidOnRecordNext ==
    ASSUME DistinctPayments
    PROVE  WithdrawalsInv' => (\A w \in Withdrawal : WasPaid(w) <=> RecordPaid(w))'
<1>1. WithdrawalsInv => \A w \in Withdrawal : WasPaid(w) <=> RecordPaid(w)
  BY PaidOnRecord
<1> QED BY <1>1, PTL

LEMMA EscrowValues ==
    /\ EscrowOf("none") = "none"
    /\ EscrowOf("initiated") = "locked" /\ EscrowOf("pending") = "locked"
    /\ EscrowOf("completed") = "burned"
    /\ EscrowOf("aborted") = "given back" /\ EscrowOf("swept") = "given back"
  BY DEF EscrowOf

LEMMA KeepsStutter ==
    ASSUME \A w \in Withdrawal : EscrowOf(status'[w]) = EscrowOf(status[w]),
           \A w \in Withdrawal : WasPaid(w)' <=> WasPaid(w)
    PROVE  UNCHANGED Promise!settlementVars
  BY DEF Promise!settlementVars

\* A step of the contract alone pays nothing.
LEMMA ContractPaysNothing ==
    ASSUME UNCHANGED <<held, chain>>
    PROVE  \A w \in Withdrawal : WasPaid(w)' <=> WasPaid(w)
  BY DEF WasPaid, Paid, Ran, Used, OnChainNonce

LEMMA RequestKeepsThePromise ==
    ASSUME WithdrawalsInv, DistinctPayments, NEW w \in Withdrawal,
           RequestWithdrawal(w) \/ AbortUnconfirmed(w) \/ CancelAndSweep(w)
    PROVE  Promise!SettlementNext
<1>1. \A v \in Withdrawal : WasPaid(v)' <=> WasPaid(v)
  BY ContractPaysNothing DEF RequestWithdrawal, AbortUnconfirmed, CancelAndSweep
<1>2. {v \in Withdrawal : WasPaid(v)}' = {v \in Withdrawal : WasPaid(v)}
  BY <1>1
<1>3. status \in [Withdrawal -> Status]
  BY DEF WithdrawalsInv, WithdrawalsTypeOK
<1>4. CASE RequestWithdrawal(w)
  <2>1. status[w] = "none" /\ status' = [status EXCEPT ![w] = "initiated"]
    BY <1>4 DEF RequestWithdrawal
  <2>2. \A v \in Withdrawal : EscrowOf(status'[v]) = IF v = w THEN "locked" ELSE EscrowOf(status[v])
    BY <1>3, <2>1, EscrowValues
  <2>3. EscrowOf(status[w]) = "none"
    BY <2>1, EscrowValues
  <2>4. Promise!Lock(w)
    BY <1>2, <2>2, <2>3 DEF Promise!Lock
  <2> QED BY <2>4 DEF Promise!SettlementNext
<1>5. ASSUME NEW st \in {"aborted", "swept"}, status[w] \in {"initiated", "pending"},
             status' = [status EXCEPT ![w] = st], ~ WasPaid(w)
      PROVE  Promise!SettlementNext
  <2>1. \A v \in Withdrawal : EscrowOf(status'[v]) = IF v \in {w} THEN "given back" ELSE EscrowOf(status[v])
    BY <1>3, <1>5, EscrowValues
  <2>2. EscrowOf(status[w]) = "locked"
    BY <1>5, EscrowValues
  <2>3. Promise!GiveBack({w})
    BY <1>2, <1>5, <2>1, <2>2 DEF Promise!GiveBack, Promise!Become
  <2> QED BY <2>3 DEF Promise!SettlementNext
<1>6. status[w] = "initiated" => ~ WasPaid(w)
  BY PaidOnRecord DEF RecordPaid, WithdrawalsInv, ContractInv
<1>7. CASE AbortUnconfirmed(w)
  BY <1>5, <1>6, <1>7 DEF AbortUnconfirmed
<1>8. CASE CancelAndSweep(w)
  <2>1. Replaced(custody[w]) => ~ WasPaid(w)
    BY PaidOnRecord DEF RecordPaid, Replaced, Paid
  <2> QED BY <1>5, <1>6, <1>8, <2>1 DEF CancelAndSweep
<1> QED BY <1>4, <1>7, <1>8

\* Calls burn what has been paid and give back what never will be.
LEMMA MinedKeepsThePromise ==
    ASSUME WithdrawalsInv, DistinctPayments, ~ Hurried, NEW c \in Call, Justified(c), Mined(c),
           UNCHANGED <<held, chain>>
    PROVE  [Promise!SettlementNext]_Promise!settlementVars
<1>1. \A v \in Withdrawal : WasPaid(v)' <=> WasPaid(v)
  BY ContractPaysNothing
<1>2. {v \in Withdrawal : WasPaid(v)}' = {v \in Withdrawal : WasPaid(v)}
  BY <1>1
<1>3. status \in [Withdrawal -> Status]
  BY DEF WithdrawalsInv, WithdrawalsTypeOK
<1>4. CASE ~ Accepted(c)
  BY <1>1, <1>4, KeepsStutter DEF Mined, contractVars
<1>5. CASE Accepted(c)
  <2> DEFINE W == {p.w : p \in c.of}
  <2>1. status' = [w \in Withdrawal |-> IF w \in W THEN Outcome(c.kind) ELSE status[w]]
    BY <1>5 DEF Mined, Apply
  <2>2. c.kind \in {"confirm", "finalise", "abort"} /\ c.of \subseteq Proposal /\ W \subseteq Withdrawal
    BY DEF Call, Proposal
  <2>3. \A p \in c.of : p.tx # None
    BY <2>2, NotPayouts DEF Proposal
  <2>4. CASE c.kind = "confirm"
    <3>1. \A w \in W : status[w] = "initiated"
      BY <1>5, <2>4 DEF Accepted
    <3>2. \A w \in Withdrawal : EscrowOf(status'[w]) = EscrowOf(status[w])
      BY <2>1, <2>2, <2>4, <3>1, EscrowValues DEF Outcome
    <3> QED BY <1>1, <3>2, KeepsStutter
  <2>5. CASE c.kind = "finalise"
    <3>1. \A w \in W : status[w] = "pending"
      BY <1>5, <2>5 DEF Accepted
    <3>2. \A w \in W : WasPaid(w)
      BY <2>2, <2>3, <2>5, PaidOnRecord DEF Justified, OnRecord, RecordPaid
    <3>3. \A w \in Withdrawal : EscrowOf(status'[w]) = IF w \in W THEN "burned" ELSE EscrowOf(status[w])
      BY <2>1, <2>2, <2>5, EscrowValues DEF Outcome
    <3>4. \A w \in W : EscrowOf(status[w]) = "locked"
      BY <3>1, EscrowValues
    <3>5. Promise!Burn(W)
      <4> HIDE DEF W
      <4> QED BY <1>2, <2>2, <3>2, <3>3, <3>4 DEF Promise!Burn, Promise!Become
    <3> QED BY <2>2, <3>5 DEF Promise!SettlementNext
  <2>6. CASE c.kind = "abort"
    <3>1. \A w \in W : status[w] \in {"initiated", "pending"}
      BY <1>5, <2>6 DEF Accepted
    <3>2. \A w \in W : ~ WasPaid(w)
      BY <2>2, <2>3, <2>6, PaidOnRecord DEF Justified, OnRecord, RecordPaid, TakenForDead, Dead
    <3>3. \A w \in Withdrawal : EscrowOf(status'[w]) = IF w \in W THEN "given back" ELSE EscrowOf(status[w])
      BY <2>1, <2>2, <2>6, EscrowValues DEF Outcome
    <3>4. \A w \in W : EscrowOf(status[w]) = "locked"
      BY <3>1, EscrowValues
    <3>5. Promise!GiveBack(W)
      <4> HIDE DEF W
      <4> QED BY <1>2, <2>2, <3>2, <3>3, <3>4 DEF Promise!GiveBack, Promise!Become
    <3> QED BY <2>2, <3>5 DEF Promise!SettlementNext
  <2> QED BY <2>2, <2>4, <2>5, <2>6
<1> QED BY <1>4, <1>5

\* A payout reaching a Safe, and all else the servers do by themselves, neither
\* pays nor settles.
LEMMA ServersPayNothing ==
    ASSUME WithdrawalsInv, WithdrawalsInv', DistinctPayments, UNCHANGED <<chain, status, custody>>
    PROVE  UNCHANGED Promise!settlementVars
<1>1. \A w \in Withdrawal : WasPaid(w) <=> RecordPaid(w)
  BY PaidOnRecord
<1>2. \A w \in Withdrawal : WasPaid(w)' <=> RecordPaid(w)'
  BY PaidOnRecordNext
<1>3. \A w \in Withdrawal : RecordPaid(w)' <=> RecordPaid(w)
  BY DEF RecordPaid, Paid, Ran, Used, OnChainNonce
<1> QED BY <1>1, <1>2, <1>3, KeepsStutter

\* What has run stays run, and only the transaction that runs is new.
LEMMA RunPays ==
    ASSUME WithdrawalsTypeOK, WithdrawalsTypeOK', NEW f \in Safe,
           NEW e \in [tx : Payout \cup {Other}, ok : BOOLEAN],
           chain' = [chain EXCEPT ![f] = Append(@, e)],
           NEW tx \in Payout, tx # e.tx
    PROVE  Paid(tx)' <=> Paid(tx)
<1>1. /\ Grows
      /\ \A g \in Safe : \A n \in DOMAIN chain'[g] :
            \/ n \in DOMAIN chain[g] /\ chain'[g][n] = chain[g][n]
            \/ g = f /\ n = Len(chain[f]) + 1 /\ chain'[g][n] = e
  BY RunGrows
<1>2. Paid(tx) => Paid(tx)'
  BY <1>1, GrownKeeps DEF Paid, Ran
<1>3. ASSUME Paid(tx)' PROVE Paid(tx)
  <2>1. tx.safe \in Safe /\ tx.nonce \in Nat
    BY RanPosition
  <2>2. chain'[tx.safe] \in Seq([tx : Payout \cup {Other}, ok : BOOLEAN])
    BY <2>1 DEF WithdrawalsTypeOK
  <2>3. /\ tx.nonce + 1 \in DOMAIN chain'[tx.safe]
        /\ chain'[tx.safe][tx.nonce + 1].tx = tx /\ chain'[tx.safe][tx.nonce + 1].ok
    BY <1>3, <2>1, <2>2 DEF Paid, Ran, Used, OnChainNonce
  <2>4. tx.nonce + 1 \in DOMAIN chain[tx.safe] /\ chain'[tx.safe][tx.nonce + 1] = chain[tx.safe][tx.nonce + 1]
    BY <1>1, <2>1, <2>3
  <2> QED BY <2>3, <2>4, RanPosition DEF Paid, Ran
<1> QED BY <1>2, <1>3

LEMMA RunPaysFirst ==
    ASSUME WithdrawalsTypeOK, WithdrawalsTypeOK', NEW tx \in Payout, NEW ok \in BOOLEAN,
           tx.nonce = OnChainNonce(tx.safe),
           chain' = [chain EXCEPT ![tx.safe] = Append(@, [tx |-> tx, ok |-> ok])]
    PROVE  ~ Used(tx) /\ (Paid(tx)' <=> ok)
<1>1. tx.safe \in Safe /\ tx.nonce \in Nat
  BY RanPosition
<1>2. /\ chain[tx.safe] \in Seq([tx : Payout \cup {Other}, ok : BOOLEAN])
      /\ chain'[tx.safe] \in Seq([tx : Payout \cup {Other}, ok : BOOLEAN])
      /\ chain'[tx.safe] = Append(chain[tx.safe], [tx |-> tx, ok |-> ok])
  BY <1>1 DEF WithdrawalsTypeOK
<1>3. ~ Used(tx)
  BY <1>1, <1>2 DEF Used, OnChainNonce
<1>4. /\ Len(chain[tx.safe]) \in Nat /\ Len(chain'[tx.safe]) = Len(chain[tx.safe]) + 1
      /\ chain'[tx.safe][Len(chain[tx.safe]) + 1] = [tx |-> tx, ok |-> ok]
  BY <1>2
<1> QED BY <1>1, <1>3, <1>4 DEF Paid, Ran, Used, OnChainNonce

\* A payout that runs pays a withdrawal whose tokens are locked and that has not
\* been paid before.
LEMMA RunKeepsThePromise ==
    ASSUME WithdrawalsInv, WithdrawalsInv', DistinctPayments, ~ Hurried, RunPayout
    PROVE  [Promise!SettlementNext]_Promise!settlementVars
<1> USE DEF WithdrawalsInv
<1>1. PICK p \in held, ok \in {TRUE, ~ MayFail} : Execute(p, ok)
  BY DEF RunPayout
<1>2. /\ p.tx \in Payout /\ p.w \in Withdrawal /\ p.tx # None /\ ok \in BOOLEAN
      /\ p.tx.safe \in Safe
  BY BridgeAssumption, NotPayouts DEF WithdrawalsTypeOK, Proposal, Payout
<1>3. UNCHANGED <<held, status, custody>>
  BY <1>1 DEF RunPayout, Execute
<1>4. custody[p.w] = p.tx
  BY DEF SafesInv, OnlyRecordedPayouts
<1>5. ~ Used(p.tx) /\ (Paid(p.tx)' <=> ok)
  BY <1>1, <1>2, RunPaysFirst DEF Execute
<1>6. status[p.w] = "pending"
  BY <1>2, <1>4, <1>5 DEF ContractInv, TakenForDead, Dead, Paid, Ran, WithdrawalsTypeOK, Status
<1>7. EscrowOf(status[p.w]) = "locked" /\ ~ WasPaid(p.w)
  BY <1>2, <1>4, <1>5, <1>6, PaidOnRecord, EscrowValues DEF RecordPaid, Paid, Ran
<1>8. \A w \in Withdrawal : WasPaid(w) <=> RecordPaid(w)
  BY PaidOnRecord
<1>9. \A w \in Withdrawal : WasPaid(w)' <=> RecordPaid(w)'
  BY PaidOnRecordNext
<1>10. RecordPaid(p.w)' <=> ok
  BY <1>2, <1>3, <1>4, <1>5 DEF RecordPaid, Paid, Ran, Used, OnChainNonce
<1>11. ASSUME NEW w \in Withdrawal, w # p.w PROVE RecordPaid(w)' <=> RecordPaid(w)
  <2>1. CASE custody[w] = None
    BY <1>3, <2>1 DEF RecordPaid
  <2>2. CASE custody[w] # None
    <3>1. PICK tx \in Payout : tx = custody[w]
      BY <2>2 DEF WithdrawalsTypeOK
    <3>2. tx # p.tx
      BY <1>2, <1>4, <1>11, <3>1, <2>2 DEF PayoutsInv, DistinctPayments
    <3> DEFINE e == [tx |-> p.tx, ok |-> ok]
    <3>3. e \in [tx : Payout \cup {Other}, ok : BOOLEAN] /\ e.tx = p.tx
      BY <1>2
    <3>4. chain' = [chain EXCEPT ![p.tx.safe] = Append(@, e)]
      BY <1>1 DEF Execute
    <3> HIDE DEF e
    <3>5. Paid(tx)' <=> Paid(tx)
      BY <1>2, <3>2, <3>3, <3>4, RunPays
    <3> QED BY <1>3, <2>2, <3>1, <3>5 DEF RecordPaid, Paid, Ran, Used, OnChainNonce
  <2> QED BY <2>1, <2>2
<1>12. CASE ok
  <2>1. {w \in Withdrawal : WasPaid(w)}' = {w \in Withdrawal : WasPaid(w)} \cup {p.w}
    BY <1>2, <1>8, <1>9, <1>10, <1>11, <1>12
  <2>2. Promise!Pay(p.w)
    BY <1>2, <1>3, <1>7, <2>1 DEF Promise!Pay
  <2> QED BY <1>2, <2>2 DEF Promise!SettlementNext
<1>13. CASE ~ ok
  <2>1. \A w \in Withdrawal : WasPaid(w)' <=> WasPaid(w)
    BY <1>7, <1>8, <1>9, <1>10, <1>11, <1>13
  <2> QED BY <1>3, <2>1, KeepsStutter
<1> QED BY <1>2, <1>12, <1>13

LEMMA OtherPaysNothing ==
    ASSUME WithdrawalsInv, WithdrawalsInv', RunOther
    PROVE  UNCHANGED Promise!settlementVars
<1> USE DEF WithdrawalsInv
<1>1. PICK f \in Safe : ExecuteOther(f)
  BY DEF RunOther
<1> DEFINE e == [tx |-> Other, ok |-> TRUE]
<1>2. e \in [tx : Payout \cup {Other}, ok : BOOLEAN] /\ e.tx \notin Payout
  BY NotPayouts
<1>3. chain' = [chain EXCEPT ![f] = Append(@, e)] /\ UNCHANGED <<held, status>>
  BY <1>1 DEF RunOther, ExecuteOther
<1> HIDE DEF e
<1>4. \A tx \in Payout : Paid(tx)' <=> Paid(tx)
  BY <1>2, <1>3, RunPays
<1>5. \A w \in Withdrawal : WasPaid(w)' <=> WasPaid(w)
  <2>1. \A h \in held : \E tx \in Payout : tx = h.tx /\ (Paid(tx)' <=> Paid(tx))
    BY <1>4 DEF WithdrawalsTypeOK, Proposal
  <2>2. \A h \in held : Paid(h.tx)' <=> Paid(h.tx)
    BY <1>3, <2>1 DEF Paid, Ran, Used, OnChainNonce
  <2> QED BY <1>3, <2>2 DEF WasPaid, Paid, Ran, Used, OnChainNonce
<1> QED BY <1>3, <1>5, KeepsStutter

LEMMA SettlementInits == Init => Promise!SettlementInit
<1> SUFFICES ASSUME Init PROVE Promise!SettlementInit
  OBVIOUS
<1>1. \A w \in Withdrawal : ~ WasPaid(w)
  BY DEF Init, SafeInit, WasPaid
<1> QED BY <1>1, EscrowValues DEF Init, Promise!SettlementInit

LEMMA SettlementSteps ==
    ASSUME DistinctPayments, ~ Hurried
    PROVE  WithdrawalsInv /\ WithdrawalsInv' /\ [Next]_vars
               => [Promise!SettlementNext]_Promise!settlementVars
<1> SUFFICES ASSUME WithdrawalsInv, WithdrawalsInv', [Next]_vars
             PROVE  [Promise!SettlementNext]_Promise!settlementVars
  OBVIOUS
<1>1. ASSUME NEW w \in Withdrawal, RequestWithdrawal(w) \/ AbortUnconfirmed(w) \/ CancelAndSweep(w)
      PROVE  [Promise!SettlementNext]_Promise!settlementVars
  BY <1>1, RequestKeepsThePromise
<1>2. ASSUME NEW s \in Server, CallConfirm(s) \/ CallSettle(s)
      PROVE  [Promise!SettlementNext]_Promise!settlementVars
  <2>1. PICK c \in RequestCalls(s) \cup SettleCalls(s) : Mined(c)
    BY <1>2 DEF CallConfirm, CallSettle
  <2>2. c \in Call /\ Justified(c)
    BY CallsAreCalls, CallsAreJustified DEF WithdrawalsInv
  <2>3. UNCHANGED <<held, chain>>
    BY <1>2 DEF CallConfirm, CallSettle
  <2> QED BY <2>1, <2>2, <2>3, MinedKeepsThePromise
<1>3. ASSUME NEW c \in mempool, MineLate(c) PROVE [Promise!SettlementNext]_Promise!settlementVars
  <2>1. c \in Call /\ Justified(c) /\ Mined(c) /\ UNCHANGED <<held, chain>>
    BY <1>3 DEF MineLate, CallsInv, WithdrawalsInv, WithdrawalsTypeOK
  <2> QED BY <2>1, MinedKeepsThePromise
<1>4. ASSUME NEW s \in Server, RequestStep(s) \/ SettleStep(s) \/ Unanswered(s),
             ~ (CallConfirm(s) \/ CallSettle(s))
      PROVE  [Promise!SettlementNext]_Promise!settlementVars
  <2>1. UNCHANGED <<chain, status, custody>>
    BY <1>4 DEF RequestStep, SettleStep, Unanswered, RequestPoll, CreatePayouts, ProposePayout,
                EndRequest, CheckStatus, LookAgain, DecideAbsent, ProposeSaved, EndSettle
  <2> QED BY <2>1, ServersPayNothing
<1>5. CASE RunPayout
  BY <1>5, RunKeepsThePromise
<1>6. CASE RunOther
  BY <1>6, OtherPaysNothing
<1>7. CASE UNCHANGED vars
  BY <1>7, ServersPayNothing DEF vars
<1> QED BY <1>1, <1>2, <1>3, <1>4, <1>5, <1>6, <1>7 DEF Next

\* The bridge settles withdrawals as it promises, with any number of servers and
\* Safes: payments must differ, and a payout must not run while a poll that did
\* not find it decides what became of it.
THEOREM ThePromiseIsKept ==
    ASSUME DistinctPayments, ~ Hurried PROVE Spec => KeepsThePromise
<1>1. Spec => []WithdrawalsInv
  BY WithdrawalsInductive
<1>2. Init => Promise!SettlementInit
  BY SettlementInits
<1>3. WithdrawalsInv /\ WithdrawalsInv' /\ [Next]_vars
          => [Promise!SettlementNext]_Promise!settlementVars
  BY SettlementSteps
<1> QED BY <1>1, <1>2, <1>3, PTL DEF Spec, KeepsThePromise, Promise!Settlement

\* What was given back is never paid.
THEOREM GivenBackIsUnpaid ==
    ASSUME DistinctPayments, ~ Hurried PROVE Spec => []NeverPaidAndGivenBack
<1>1. WithdrawalsInv => NeverPaidAndGivenBack
  <2> SUFFICES ASSUME WithdrawalsInv PROVE NeverPaidAndGivenBack
    OBVIOUS
  <2>1. \A w \in Withdrawal : status[w] \in {"aborted", "swept"} => ~ RecordPaid(w)
    BY DEF WithdrawalsInv, ContractInv, RecordPaid, TakenForDead, Dead
  <2> QED BY <2>1, PaidOnRecord DEF NeverPaidAndGivenBack
<1> QED BY <1>1, WithdrawalsInductive, PTL

-----------------------------------------------------------------------------
(* No payout is lost *)

\* Journals may change as long as they keep their transactions.
LEMMA KeptStays ==
    ASSUME held \subseteq held',
           \A s \in Server : \A e \in journal[s] : \E g \in journal'[s] : g.tx = e.tx
    PROVE  \A tx : Kept(tx) => Kept(tx)'
  BY DEF Kept

\* A step that neither the contract nor a prune is part of.
LEMMA ServersKeepPayouts ==
    ASSUME WithdrawalsInv, WithdrawalsTypeOK', PayoutsAreKept, Grows, UNCHANGED contractVars,
           \A tx : Kept(tx) => Kept(tx)',
           \A s \in Server : \A p \in request'[s].txs : p \in request[s].txs \/ Kept(p.tx)',
           \A c \in mempool' : \/ c \in mempool \/ c.kind # "confirm"
                               \/ \E s \in Server : c.of \subseteq request[s].txs
    PROVE  PayoutsAreKept'
<1> SUFFICES ASSUME NEW w \in Withdrawal
             PROVE  /\ status[w] \in {"none", "initiated"} =>
                          /\ \A s \in Server : \A p \in request'[s].txs : p.w = w => Kept(p.tx)'
                          /\ \A c \in mempool' : \A p \in c.of : c.kind = "confirm" /\ p.w = w => Kept(p.tx)'
                    /\ status[w] = "pending" =>
                          \/ Kept(custody[w])'
                          \/ Several /\ custody[w] # None /\ Used(custody[w])'
  BY DEF PayoutsAreKept, contractVars, Several, Used, OnChainNonce, Kept
<1>1. ASSUME status[w] \in {"none", "initiated"}, NEW s \in Server, NEW p \in request'[s].txs, p.w = w
      PROVE  Kept(p.tx)'
  BY <1>1 DEF PayoutsAreKept
<1>2. ASSUME status[w] \in {"none", "initiated"}, NEW c \in mempool', NEW p \in c.of,
             c.kind = "confirm", p.w = w
      PROVE  Kept(p.tx)'
  BY <1>2 DEF PayoutsAreKept
<1>3. ASSUME status[w] = "pending"
      PROVE  Kept(custody[w])' \/ (Several /\ custody[w] # None /\ Used(custody[w])')
  <2>1. CASE Kept(custody[w])
    <3>1. PICK tx : tx = custody[w] /\ custody'[w] = tx
      BY DEF contractVars
    <3>2. Kept(tx)'
      BY <2>1, <3>1
    <3> QED BY <3>1, <3>2 DEF Kept
  <2>2. CASE Several /\ custody[w] # None /\ Used(custody[w])
    <3>1. PICK tx \in Payout : tx = custody[w]
      BY <2>2 DEF WithdrawalsInv, WithdrawalsTypeOK
    <3>2. Used(tx)'
      BY <2>2, <3>1, GrownKeeps DEF WithdrawalsInv
    <3> QED BY <2>2, <3>1, <3>2 DEF contractVars, Used, OnChainNonce
  <2> QED BY <1>3, <2>1, <2>2 DEF PayoutsAreKept
<1> QED BY <1>1, <1>2, <1>3

\* What the contract comes to record by a call had been kept.
LEMMA MinedKeepsPayouts ==
    ASSUME WithdrawalsInv, PayoutsAreKept, NEW c \in Call, Mined(c),
           c.kind = "confirm" => \A p \in c.of : status[p.w] = "initiated" => Kept(p.tx),
           UNCHANGED <<held, chain, journal>>, mempool' \subseteq mempool,
           \A s \in Server : request'[s].txs \subseteq request[s].txs
    PROVE  PayoutsAreKept'
<1>1. \A tx : /\ Kept(tx)' <=> Kept(tx)
              /\ Used(tx)' <=> Used(tx)
  BY DEF Kept, Used, OnChainNonce
<1> SUFFICES ASSUME NEW w \in Withdrawal
             PROVE  /\ status'[w] \in {"none", "initiated"} =>
                          /\ \A s \in Server : \A p \in request'[s].txs : p.w = w => Kept(p.tx)
                          /\ \A d \in mempool' : \A p \in d.of : d.kind = "confirm" /\ p.w = w => Kept(p.tx)
                    /\ status'[w] = "pending" =>
                          \/ Kept(custody'[w])
                          \/ Several /\ custody'[w] # None /\ Used(custody'[w])
  BY DEF PayoutsAreKept, Several, Used, OnChainNonce, Kept
<1>2. CASE UNCHANGED contractVars
  BY <1>2 DEF PayoutsAreKept, contractVars
<1>3. CASE Accepted(c)
  <2>1. Apply(c)
    BY <1>3 DEF Mined
  <2>2. c.kind \in {"confirm", "finalise", "abort"}
    BY DEF Call
  <2>3. CASE ~ \E p \in c.of : p.w = w
    <3>1. status'[w] = status[w] /\ custody'[w] = custody[w]
      BY <2>1, <2>3 DEF Apply
    <3> QED BY <3>1 DEF PayoutsAreKept
  <2>4. CASE \E p \in c.of : p.w = w
    <3>1. status'[w] = Outcome(c.kind)
      BY <2>1, <2>4 DEF Apply
    <3>2. CASE c.kind # "confirm"
      BY <2>2, <3>1, <3>2 DEF Outcome
    <3>3. CASE c.kind = "confirm"
      <4> DEFINE q == CHOOSE p \in c.of : p.w = w
      <4>1. q \in c.of /\ q.w = w
        BY <2>4
      <4>2. custody'[w] = q.tx
        BY <2>1, <2>4, <3>3 DEF Apply
      <4> HIDE DEF q
      <4>3. status[w] = "initiated"
        BY <1>3, <3>3, <4>1 DEF Accepted
      <4>4. Kept(q.tx)
        BY <3>3, <4>1, <4>3
      <4>5. status'[w] = "pending"
        BY <3>1, <3>3 DEF Outcome
      <4> QED BY <4>2, <4>4, <4>5
    <3> QED BY <3>2, <3>3
  <2> QED BY <2>3, <2>4
<1> QED BY <1>2, <1>3 DEF Mined

\* A payout of another withdrawal is under that withdrawal in the journal.
LEMMA PruneKeepsOthers ==
    ASSUME WithdrawalsInv, DistinctPayments, NEW s \in Server, NEW ps \in SUBSET Proposal, UNCHANGED held,
           journal' = [journal EXCEPT ![s] = Prune(@, ps)],
           NEW w \in Withdrawal, \A p \in ps : p.w # w,
           NEW tx, tx.pays = Payment[w], Kept(tx)
    PROVE  Kept(tx)'
<1>1. CASE \E h \in held : h.tx = tx
  BY <1>1 DEF Kept
<1>2. ASSUME NEW v \in Server, NEW e \in journal[v], e.tx = tx PROVE Kept(tx)'
  <2>1. e.w \in Withdrawal /\ e.tx.pays = Payment[e.w]
    BY DEF WithdrawalsInv, WithdrawalsTypeOK, Proposal, PayoutsInv, PaysItsOwn
  <2>2. e.w = w
    BY <1>2, <2>1 DEF DistinctPayments
  <2>3. e \in journal'[v]
    BY <2>2 DEF Prune, WithdrawalsInv, WithdrawalsTypeOK
  <2> QED BY <1>2, <2>3 DEF Kept
<1> QED BY <1>1, <1>2 DEF Kept


\* Only a withdrawal whose record has been used loses its entries unsettled.
LEMMA SettlingKeepsPayouts ==
    ASSUME WithdrawalsInv, WithdrawalsInv', PayoutsAreKept, DistinctPayments, ~ Hurried \/ ~ Several,
           NEW s \in Server, CallSettle(s)
    PROVE  PayoutsAreKept'
<1>1. PICK c \in SettleCalls(s) : Mined(c) /\ journal' = [journal EXCEPT ![s] = Prune(@, c.of)]
  BY DEF CallSettle
<1>2. /\ c \in Call /\ c.of \in SUBSET Proposal
      /\ c.kind \in {"finalise", "abort"} /\ Justified(c)
  <2>1. c \in Call /\ Justified(c)
    BY CallsAreCalls, CallsAreJustified DEF WithdrawalsInv
  <2>2. c.kind \in {"finalise", "abort"}
    BY DEF SettleCalls
  <2> QED BY <2>1, <2>2 DEF Call
<1>3. UNCHANGED <<held, chain, mempool, request>>
  BY DEF CallSettle
<1>4. \A w \in Withdrawal : custody'[w] = custody[w]
  BY <1>1, <1>2 DEF Mined, Apply, contractVars
<1>5. \A w \in Withdrawal : (\A p \in c.of : p.w # w) => status'[w] = status[w]
  BY <1>1 DEF Mined, Apply, contractVars
<1>6. ASSUME NEW w \in Withdrawal, \A p \in c.of : p.w # w, NEW tx, tx.pays = Payment[w], Kept(tx)
      PROVE  Kept(tx)'
  BY <1>1, <1>2, <1>3, <1>6, PruneKeepsOthers
<1>7. ASSUME NEW p \in c.of
      PROVE  /\ status'[p.w] \notin {"none", "initiated"}
             /\ status'[p.w] = "pending" => Several /\ custody[p.w] # None /\ Used(custody[p.w])
  <2>1. p.w \in Withdrawal /\ p.tx # None /\ custody[p.w] = p.tx
    BY <1>2, NotPayouts DEF Justified, OnRecord, Proposal
  <2>2. status[p.w] \notin {"none", "initiated"}
    BY <2>1 DEF WithdrawalsInv, ContractInv
  <2>3. CASE Accepted(c)
    <3>1. status'[p.w] = Outcome(c.kind)
      BY <1>1, <2>1, <2>3 DEF Mined, Apply
    <3> QED BY <1>2, <3>1 DEF Outcome
  <2>4. CASE ~ Accepted(c)
    <3>1. status'[p.w] = status[p.w]
      BY <1>1, <2>4 DEF Mined, contractVars
    <3>2. ASSUME status[p.w] = "pending" PROVE Several
      <4>1. PICK q \in c.of : status[q.w] # "pending"
        BY <1>2, <2>4 DEF Accepted
      <4>2. q.w \in Withdrawal /\ q.w # p.w
        BY <1>2, <3>2, <4>1 DEF Proposal
      <4> QED BY <2>1, <4>2 DEF Several
    <3>3. ASSUME Several PROVE Used(p.tx)
      BY <1>2, <3>3 DEF Justified, TakenForDead, Dead, Paid, Ran
    <3> QED BY <2>1, <2>2, <3>1, <3>2, <3>3
  <2> QED BY <2>3, <2>4
<1> SUFFICES ASSUME NEW w \in Withdrawal
             PROVE  /\ status'[w] \in {"none", "initiated"} =>
                          /\ \A v \in Server : \A p \in request[v].txs : p.w = w => Kept(p.tx)'
                          /\ \A d \in mempool : \A p \in d.of : d.kind = "confirm" /\ p.w = w => Kept(p.tx)'
                    /\ status'[w] = "pending" =>
                          \/ Kept(custody[w])'
                          \/ Several /\ custody[w] # None /\ Used(custody[w])
  BY <1>3, <1>4 DEF PayoutsAreKept, Several, Used, OnChainNonce, Kept
<1>8. CASE \E p \in c.of : p.w = w
  BY <1>4, <1>7, <1>8
<1>9. CASE \A p \in c.of : p.w # w
  <2>1. status'[w] = status[w] /\ custody'[w] = custody[w]
    BY <1>4, <1>5, <1>9
  <2>2. ASSUME status[w] \in {"none", "initiated"}, NEW v \in Server, NEW p \in request[v].txs, p.w = w
        PROVE  Kept(p.tx)'
    <3>1. Kept(p.tx)
      BY <2>2 DEF PayoutsAreKept
    <3>2. p.tx.pays = Payment[w]
      BY <2>2 DEF WithdrawalsInv, RequestsInv, KnowsRequest, PaysItsOwn
    <3> QED BY <1>6, <1>9, <3>1, <3>2
  <2>3. ASSUME status[w] \in {"none", "initiated"}, NEW d \in mempool, NEW p \in d.of,
               d.kind = "confirm", p.w = w
        PROVE  Kept(p.tx)'
    <3>1. Kept(p.tx)
      BY <2>3 DEF PayoutsAreKept
    <3>2. p.tx.pays = Payment[w]
      BY <2>3 DEF WithdrawalsInv, CallsInv, Justified, PaysItsOwn
    <3> QED BY <1>6, <1>9, <3>1, <3>2
  <2>4. ASSUME status[w] = "pending"
        PROVE  Kept(custody[w])' \/ (Several /\ custody[w] # None /\ Used(custody[w]))
    <3>1. CASE custody[w] # None /\ Kept(custody[w])
      <4>1. custody[w].pays = Payment[w]
        BY <3>1 DEF WithdrawalsInv, PayoutsInv
      <4>2. PICK tx : tx = custody[w] /\ custody'[w] = tx
        BY <2>1
      <4>3. Kept(tx)'
        BY <1>6, <1>9, <3>1, <4>1, <4>2
      <4> QED BY <4>2, <4>3 DEF Kept
    <3>2. custody[w] # None \/ ~ Kept(custody[w])
      BY NotPayouts DEF Kept, WithdrawalsInv, WithdrawalsTypeOK, Proposal
    <3> QED BY <2>4, <3>1, <3>2 DEF PayoutsAreKept
  <2> QED BY <2>1, <2>2, <2>3, <2>4
<1> QED BY <1>8, <1>9


\* Payouts are written to the journal before STRATO or a Safe hears of them; what is
\* adopted is in a Safe.
LEMMA RequestsKeepPayouts ==
    ASSUME WithdrawalsInv, WithdrawalsTypeOK', PayoutsAreKept, ~ Outage, NEW s \in Server, RequestStep(s)
    PROVE  PayoutsAreKept'
<1>0. /\ held \subseteq Proposal /\ request \in [Server -> Requesting]
      /\ journal \in [Server -> SUBSET Proposal]
  BY DEF WithdrawalsInv, WithdrawalsTypeOK
<1>1. ASSUME NEW r, RequestGoes(s, r), \A p \in r.txs : p \in request[s].txs \/ Kept(p.tx)'
      PROVE  \A v \in Server : \A p \in request'[v].txs : p \in request[v].txs \/ Kept(p.tx)'
  BY <1>0, <1>1 DEF RequestGoes
<1>2. CASE RequestPoll(s)
  <2>1. journal' = journal
    BY <1>0, <1>2 DEF RequestPoll
  <2>2. PICK asked \in SUBSET {w \in Withdrawal : status[w] # "none"} :
           RequestGoes(s, Onward([at |-> "adopting",
               batch |-> {w \in asked : PayoutsFor(w) = {}},
               txs |-> UNION {PayoutsFor(w) : w \in {v \in asked : Cardinality(PayoutsFor(v)) = 1}}]))
    BY <1>2 DEF RequestPoll
  <2> DEFINE txs == UNION {PayoutsFor(w) : w \in {v \in asked : Cardinality(PayoutsFor(v)) = 1}}
             r   == Onward([at |-> "adopting", batch |-> {w \in asked : PayoutsFor(w) = {}}, txs |-> txs])
  <2>3. txs \subseteq held
    BY DEF PayoutsFor
  <2>4. r.txs \subseteq held
    BY <2>3 DEF Onward, Resting
  <2>5. UNCHANGED <<held, chain, mempool, contractVars>>
    BY <1>2 DEF RequestPoll, contractVars
  <2>6. \A p \in r.txs : Kept(p.tx)'
    BY <2>4, <2>5 DEF Kept
  <2>7. RequestGoes(s, r)
    BY <2>2
  <2> HIDE DEF r
  <2>8. \A v \in Server : \A p \in request'[v].txs : p \in request[v].txs \/ Kept(p.tx)'
    BY <1>1, <2>6, <2>7
  <2>9. Grows
    BY <2>5 DEF Grows
  <2>10. \A tx : Kept(tx) => Kept(tx)'
    BY <2>1, <2>5, KeptStays
  <2> QED BY <2>5, <2>8, <2>9, <2>10, ServersKeepPayouts
<1>3. CASE CreatePayouts(s)
  <2>1. PICK ps \in SUBSET Proposal :
           /\ journal' = [journal EXCEPT ![s] = Recorded(@, ps)]
           /\ RequestGoes(s, [at |-> "confirming", batch |-> {}, txs |-> ps])
    BY <1>3 DEF CreatePayouts
  <2>2. UNCHANGED <<held, chain, mempool, contractVars>>
    BY <1>3 DEF CreatePayouts, contractVars
  <2>3. journal'[s] = Recorded(journal[s], ps) /\ \A v \in Server \ {s} : journal'[v] = journal[v]
    BY <1>0, <2>1
  <2>4. ASSUME NEW v \in Server, NEW e \in journal[v] PROVE \E g \in journal'[v] : g.tx = e.tx
    BY <2>3 DEF Recorded
  <2>5. \A tx : Kept(tx) => Kept(tx)'
    BY <2>2, <2>4, KeptStays
  <2>6. \A p \in ps : Kept(p.tx)'
    BY <2>3 DEF Recorded, Kept
  <2>7. \A v \in Server : \A p \in request'[v].txs : p \in request[v].txs \/ Kept(p.tx)'
    BY <1>0, <2>1, <2>6 DEF RequestGoes
  <2>8. Grows
    BY <2>2 DEF Grows
  <2> QED BY <2>2, <2>5, <2>7, <2>8, ServersKeepPayouts
<1>4. CASE CallConfirm(s)
  <2>1. PICK c \in RequestCalls(s) :
           /\ Mined(c)
           /\ IF request[s].at = "adopting"
              THEN RequestGoes(s, Onward([request[s] EXCEPT !.txs = @ \ c.of]))
              ELSE RequestGoes(s, IF Accepted(c) THEN [request[s] EXCEPT !.at = "proposing"] ELSE Resting)
    BY <1>4 DEF CallConfirm
  <2>2. c \in Call /\ c.of \subseteq request[s].txs
    <3>1. c \in Call
      BY CallsAreCalls DEF WithdrawalsInv
    <3> QED BY <3>1 DEF RequestCalls
  <2>3. \A p \in c.of : status[p.w] = "initiated" => Kept(p.tx)
    BY <1>0, <2>2 DEF PayoutsAreKept, Requesting, Proposal
  <2>4. UNCHANGED <<held, chain, journal, mempool>>
    BY <1>4 DEF CallConfirm
  <2>5. \A v \in Server : request'[v].txs \subseteq request[v].txs
    BY <1>0, <2>1 DEF RequestGoes, Onward, Resting, Requesting
  <2> QED BY <2>1, <2>2, <2>3, <2>4, <2>5, MinedKeepsPayouts
<1>5. CASE ProposePayout(s)
  <2>1. PICK p \in request[s].txs :
           /\ Take(p) \/ UNCHANGED held
           /\ RequestGoes(s, Onward([request[s] EXCEPT !.txs = @ \ {p}]))
    BY <1>5 DEF ProposePayout
  <2>2. UNCHANGED <<chain, journal, mempool, contractVars>> /\ held \subseteq held'
    BY <1>5, <2>1 DEF ProposePayout, contractVars, Take
  <2>3. \A v \in Server : request'[v].txs \subseteq request[v].txs
    BY <1>0, <2>1 DEF RequestGoes, Onward, Resting, Requesting
  <2>4. Grows
    BY <2>2 DEF Grows
  <2>5. \A tx : Kept(tx) => Kept(tx)'
    BY <2>2, KeptStays
  <2> QED BY <2>2, <2>3, <2>4, <2>5, ServersKeepPayouts
<1>6. CASE EndRequest(s)
  <2>1. UNCHANGED <<held, chain, journal, mempool, contractVars>>
    BY <1>6 DEF EndRequest, contractVars
  <2>2. \A v \in Server : request'[v].txs \subseteq request[v].txs
    BY <1>0, <1>6 DEF EndRequest, RequestGoes, Resting
  <2>3. Grows
    BY <2>1 DEF Grows
  <2>4. \A tx : Kept(tx) => Kept(tx)'
    BY <2>1, KeptStays
  <2> QED BY <2>1, <2>2, <2>3, <2>4, ServersKeepPayouts
<1> QED BY <1>2, <1>3, <1>4, <1>5, <1>6 DEF RequestStep


LEMMA KeepingPayouts ==
    ASSUME DistinctPayments, ~ Outage, ~ Hurried \/ ~ Several
    PROVE  WithdrawalsInv /\ WithdrawalsInv' /\ PayoutsAreKept /\ [Next]_vars => PayoutsAreKept'
<1> SUFFICES ASSUME WithdrawalsInv, WithdrawalsInv', PayoutsAreKept, [Next]_vars
             PROVE  PayoutsAreKept'
  OBVIOUS
<1>0. WithdrawalsTypeOK /\ WithdrawalsTypeOK'
  BY DEF WithdrawalsInv
<1>1. ASSUME NEW w \in Withdrawal, RequestWithdrawal(w) \/ AbortUnconfirmed(w) \/ CancelAndSweep(w)
      PROVE  PayoutsAreKept'
  <2>1. UNCHANGED <<held, chain, custody, mempool, journal, request>>
    BY <1>1 DEF RequestWithdrawal, AbortUnconfirmed, CancelAndSweep
  <2>2. ASSUME NEW v \in Withdrawal
        PROVE  \/ status'[v] = status[v] \/ status'[v] \in {"aborted", "swept"}
               \/ status[v] = "none" /\ status'[v] = "initiated"
    BY <1>0, <1>1 DEF RequestWithdrawal, AbortUnconfirmed, CancelAndSweep, WithdrawalsTypeOK
  <2> QED BY <2>1, <2>2 DEF PayoutsAreKept, Kept, Used, OnChainNonce
<1>2. ASSUME NEW s \in Server, RequestStep(s) PROVE PayoutsAreKept'
  BY <1>0, <1>2, RequestsKeepPayouts
<1>3. ASSUME NEW s \in Server, CallSettle(s) PROVE PayoutsAreKept'
  BY <1>3, SettlingKeepsPayouts
<1>4. ASSUME NEW s \in Server, SettleStep(s), ~ CallSettle(s) PROVE PayoutsAreKept'
  <2>1. UNCHANGED <<chain, mempool, journal, request, contractVars>> /\ held \subseteq held'
    BY <1>4 DEF SettleStep, CheckStatus, LookAgain, DecideAbsent, ProposeSaved, EndSettle, Take, contractVars
  <2>2. Grows /\ \A tx : Kept(tx) => Kept(tx)'
    BY <2>1, KeptStays DEF Grows
  <2> QED BY <1>0, <2>1, <2>2, ServersKeepPayouts
<1>5. ASSUME NEW s \in Server, Unanswered(s) PROVE PayoutsAreKept'
  <2>1. PICK c \in RequestCalls(s) \cup SettleCalls(s) : mempool' = mempool \cup {c}
    BY <1>5 DEF Unanswered
  <2>2. UNCHANGED <<held, chain, journal, request, contractVars>>
    BY <1>5 DEF Unanswered, contractVars
  <2>3. Grows /\ \A tx : Kept(tx) => Kept(tx)'
    BY <2>2, KeptStays DEF Grows
  <2>4. c.kind # "confirm" \/ c.of \subseteq request[s].txs
    BY DEF RequestCalls, SettleCalls
  <2> QED BY <1>0, <2>1, <2>2, <2>3, <2>4, ServersKeepPayouts
<1>6. ASSUME NEW c \in mempool, MineLate(c) PROVE PayoutsAreKept'
  <2>1. /\ c \in Call /\ Mined(c) /\ mempool' = mempool \ {c}
        /\ UNCHANGED <<held, chain, journal, request>>
    BY <1>0, <1>6 DEF MineLate, WithdrawalsTypeOK
  <2>2. c.kind = "confirm" => \A p \in c.of : status[p.w] = "initiated" => Kept(p.tx)
    BY <2>1 DEF PayoutsAreKept, Call, Proposal
  <2> QED BY <2>1, <2>2, MinedKeepsPayouts
<1>7. ASSUME RunPayout \/ RunOther PROVE PayoutsAreKept'
  <2>1. UNCHANGED <<held, mempool, journal, request, contractVars>>
    BY <1>7 DEF RunPayout, RunOther, Execute, ExecuteOther, contractVars
  <2>2. Grows
    <3>1. PICK f \in Safe, e \in [tx : Payout \cup {Other}, ok : BOOLEAN] :
             chain' = [chain EXCEPT ![f] = Append(@, e)]
      <4>1. CASE RunPayout
        <5>1. PICK p \in held, ok \in {TRUE, ~ MayFail} : Execute(p, ok)
          BY <4>1 DEF RunPayout
        <5>2. p.tx \in Payout /\ p.tx.safe \in Safe /\ ok \in BOOLEAN
          BY <1>0, BridgeAssumption DEF WithdrawalsTypeOK, Proposal, Payout
        <5>3. [tx |-> p.tx, ok |-> ok] \in [tx : Payout \cup {Other}, ok : BOOLEAN]
          BY <5>2
        <5> QED BY <5>1, <5>2, <5>3 DEF Execute
      <4>2. CASE RunOther
        <5>1. [tx |-> Other, ok |-> TRUE] \in [tx : Payout \cup {Other}, ok : BOOLEAN]
          OBVIOUS
        <5> QED BY <4>2, <5>1 DEF RunOther, ExecuteOther
      <4> QED BY <1>7, <4>1, <4>2
    <3> QED BY <1>0, <3>1, RunGrows
  <2>3. \A tx : Kept(tx) => Kept(tx)'
    BY <2>1, KeptStays
  <2> QED BY <1>0, <2>1, <2>2, <2>3, ServersKeepPayouts
<1>8. CASE UNCHANGED vars
  <2>1. UNCHANGED <<held, chain, mempool, journal, request, contractVars>>
    BY <1>8 DEF vars, contractVars
  <2>2. Grows /\ \A tx : Kept(tx) => Kept(tx)'
    BY <2>1, KeptStays DEF Grows
  <2> QED BY <1>0, <2>1, <2>2, ServersKeepPayouts
<1> QED BY <1>1, <1>2, <1>3, <1>4, <1>5, <1>6, <1>7, <1>8 DEF Next

LEMMA NothingToKeepYet == Init => PayoutsAreKept
  BY DEF Init, PayoutsAreKept, Resting

\* Servers keep every payout they may yet have recorded: no saved payout waits for a
\* day, and payouts of withdrawals settled together do not run while a poll decides.
THEOREM PayoutsInductive ==
    ASSUME DistinctPayments, ~ Outage, ~ Hurried \/ ~ Several PROVE Spec => []PayoutsAreKept
<1>1. Spec => []WithdrawalsInv
  BY WithdrawalsInductive
<1>2. Init => PayoutsAreKept
  BY NothingToKeepYet
<1>3. WithdrawalsInv /\ WithdrawalsInv' /\ PayoutsAreKept /\ [Next]_vars => PayoutsAreKept'
  BY KeepingPayouts
<1> QED BY <1>1, <1>2, <1>3, PTL DEF Spec

\* However many withdrawals share a batch that is refused, a payout that can still run
\* can still be proposed to its Safe.
THEOREM PayoutsAreNotLost ==
    ASSUME DistinctPayments, ~ Outage, ~ Hurried \/ ~ Several PROVE Spec => []NoPayoutLost
<1>1. PayoutsAreKept => NoPayoutLost
  BY DEF PayoutsAreKept, NoPayoutLost
<1> QED BY <1>1, PayoutsInductive, PTL

\* A withdrawal that shares no batch keeps its payout until it is settled, also when
\* the payout cannot run any more.
THEOREM AloneNothingIsStranded ==
    ASSUME ~ Outage, ~ Several PROVE Spec => []NothingStranded
<1>1. DistinctPayments
  BY DEF DistinctPayments, Several
<1>2. PayoutsAreKept => NothingStranded
  BY DEF PayoutsAreKept, NothingStranded
<1> QED BY <1>1, <1>2, PayoutsInductive, PTL
=============================================================================
