------------------------ MODULE BridgeDepositsProofs -------------------------
(***************************************************************************)
(* Proofs about deposits.                                                  *)
(***************************************************************************)
EXTENDS BridgeDepositsSafety, TLAPS

(***************************************************************************)
(* Arithmetic of blocks and windows.                                       *)
(***************************************************************************)

LEMMA WindowEnds ==
    ASSUME NEW t \in Scanning PROVE WindowEnd(t) \in Block /\ WindowEnd(t) <= t.upto
  BY DepositsAssumption DEF Scanning, WindowEnd, Least, Block

LEMMA ReachIsNatural == Span * MaxWindows \in Nat /\ Span * MaxWindows >= 1
<1>1. \A m, n \in Nat \ {0} : m * n \in Nat /\ m * n >= 1
  BY Z3
<1> QED BY <1>1, DepositsAssumption

(***************************************************************************)
(* The poller's helpers stay within their types.                           *)
(***************************************************************************)

LEMMA OnwardTypes ==
    ASSUME NEW t \in Scanning, NEW ds, chain \in Chain
    PROVE  /\ Onward(t, ds) \in Scanning
           /\ Onward(t, ds).from = t.from /\ Onward(t, ds).upto = t.upto
           /\ Onward(t, ds).rest = t.rest \ ds
           /\ Onward(t, ds).rest = {} => Onward(t, ds).at = "verifying"
           /\ Onward(t, ds).rest # {} => Onward(t, ds).at \in {t.at, "recording"}
  BY DEF Onward, Scanning

LEMMA BatchOfRest ==
    ASSUME NEW t \in Scanning, chain \in Chain PROVE Batch(t) \subseteq t.rest
  BY DEF Batch, Scanning

LEMMA ScanCallsAreCalls ==
    ASSUME DepositsTypeOK, NEW s \in Server PROVE ScanCalls(s) \subseteq Call
<1> DEFINE t == scan[s]
<1>1. t \in Scanning /\ chain \in Chain
  BY DEF DepositsTypeOK
<1>2. WindowEnd(t) \in Block /\ 0 \in Block
  BY <1>1, WindowEnds, DepositsAssumption DEF Block
<1>3. Batch(t) \in SUBSET Deposit /\ t.rest \in SUBSET Deposit /\ t.rebased \in BOOLEAN
  BY <1>1, BatchOfRest DEF Scanning
<1> HIDE DEF t
<1>4. /\ [kind |-> "window", of |-> t.rest, to |-> WindowEnd(t), rebased |-> t.rebased] \in Call
      /\ [kind |-> "deposits", of |-> Batch(t), to |-> 0, rebased |-> t.rebased] \in Call
      /\ [kind |-> IF t.windowed THEN "window" ELSE "advance", of |-> {}, to |-> WindowEnd(t),
          rebased |-> FALSE] \in Call
  BY <1>2, <1>3 DEF Call
<1>5. \A d \in t.rest : [kind |-> IF t.windowed THEN "window" ELSE "deposits", of |-> {d}, to |-> 0,
                         rebased |-> t.rebased] \in Call
  BY <1>2, <1>3 DEF Call
<1> QED BY <1>4, <1>5 DEF ScanCalls, t

LEMMA JudgeCallsAreCalls ==
    ASSUME DepositsTypeOK, NEW s \in Server PROVE JudgeCalls(s) \subseteq Call
<1>1. judge[s].good \in SUBSET Deposit /\ judge[s].bad \in SUBSET Deposit /\ 0 \in Block
  BY DepositsAssumption DEF DepositsTypeOK, Judging, Block
<1>2. /\ [kind |-> "confirm", of |-> judge[s].good, to |-> 0, rebased |-> FALSE] \in Call
      /\ [kind |-> "review", of |-> judge[s].bad, to |-> 0, rebased |-> FALSE] \in Call
  BY <1>1 DEF Call
<1> QED BY <1>2 DEF JudgeCalls

LEMMA RestingTypes == Resting \in Scanning /\ Asleep \in Judging
  BY DepositsAssumption DEF Resting, Asleep, Scanning, Judging, Block

(***************************************************************************)
(* What every step preserves: a deposit that is handled stays handled, and *)
(* an amount that is final stays as it is.                                 *)
(***************************************************************************)

Grows ==
    /\ chain'.at = chain.at
    /\ \A d \in Deposit : (Recorded(d) => Recorded(d)') /\ (Final(d) => Final(d)')
    /\ \A s \in Server : dead[s] \subseteq dead'[s]

LEMMA HandledStays ==
    ASSUME Grows PROVE /\ \A d \in Deposit : Handled(d) => Handled(d)'
                       /\ \A b : Covered(b) => Covered(b)'
<1>1. \A d \in Deposit : Handled(d) => Handled(d)'
  BY DEF Grows, Handled
<1>2. ASSUME NEW b, Covered(b) PROVE Covered(b)'
  BY <1>1, <1>2 DEF Grows, Covered
<1> QED BY <1>1, <1>2

LEMMA KnowledgeStays ==
    ASSUME Grows
    PROVE  /\ \A t \in Scanning : KnowsScan(t) => KnowsScan(t)'
           /\ \A t \in Judging : KnowsJudge(t) => KnowsJudge(t)'
           /\ \A c \in Call : Justified(c) => Justified(c)'
<1>1. /\ \A d \in Deposit : Handled(d) => Handled(d)'
      /\ \A b : Covered(b) => Covered(b)'
      /\ \A d \in Deposit : Final(d) => Final(d)'
      /\ chain'.at = chain.at
  BY HandledStays DEF Grows
<1>2. ASSUME NEW t \in Scanning, KnowsScan(t) PROVE KnowsScan(t)'
  BY <1>1, <1>2 DEF KnowsScan, WindowEnd, Least
<1>3. ASSUME NEW t \in Judging, KnowsJudge(t) PROVE KnowsJudge(t)'
  BY <1>1, <1>3 DEF KnowsJudge, Judging
<1>4. ASSUME NEW c \in Call, Justified(c) PROVE Justified(c)'
  BY <1>1, <1>4 DEF Justified, Call
<1> QED BY <1>2, <1>3, <1>4

LEMMA CoveredBelow ==
    ASSUME chain \in Chain, NEW a \in Nat, NEW b \in Nat, a <= b, Covered(b) PROVE Covered(a)
  BY DepositsAssumption DEF Covered, Chain

(***************************************************************************)
(* What a call to the contract does.                                       *)
(***************************************************************************)

LEMMA ApplyDoes ==
    ASSUME DepositsTypeOK, NEW c \in Call, Accepted(c), Apply(c)
    PROVE  /\ record' \in [Deposit -> Status] /\ rebased' \in SUBSET Rebasing
           /\ \A d \in Deposit : Recorded(d) => Recorded(d)'
           /\ \A d \in Deposit : Final(d) => Final(d)'
           /\ c.kind \in {"window", "deposits"} => \A d \in c.of : Recorded(d)'
           /\ \A d \in Deposit : record'[d] = "completed" =>
                 record[d] = "completed" \/ (c.kind = "confirm" /\ d \in c.of)
           /\ checkpoint' = checkpoint
              \/ (c.kind \in {"window", "advance"} /\ checkpoint' = c.to)
<1> USE DEF DepositsTypeOK
<1>1. ASSUME NEW held, NEW r \in BOOLEAN, Register(c.of, held, r), c.kind \in {"window", "deposits"}
      PROVE  /\ record' \in [Deposit -> Status] /\ rebased' \in SUBSET Rebasing
             /\ \A d \in Deposit : Recorded(d) => Recorded(d)'
             /\ \A d \in Deposit : Final(d) => Final(d)'
             /\ \A d \in c.of : Recorded(d)'
             /\ \A d \in Deposit : record'[d] = "completed" => record[d] = "completed"
  <2>1. /\ record' \in [Deposit -> Status]
        /\ \A d \in Deposit : record[d] # "none" => record'[d] = record[d]
        /\ \A d \in c.of : record'[d] # "none"
        /\ \A d \in Deposit : record'[d] = "completed" => record[d] = "completed"
    BY <1>1 DEF Register, Recorded, Status, Call
  <2>2. rebased \subseteq rebased' /\ rebased' \in SUBSET Rebasing
    BY <1>1 DEF Register
  <2> QED BY <2>1, <2>2 DEF Recorded, Final, Call
<1>2. ASSUME NEW st \in Status \ {"none", "quarantined"}, Become(c.of, st),
             \A d \in c.of : record[d] \in {"initiated", "review"}
      PROVE  /\ record' \in [Deposit -> Status] /\ rebased' \in SUBSET Rebasing
             /\ \A d \in Deposit : Recorded(d) => Recorded(d)'
             /\ \A d \in Deposit : Final(d) => Final(d)'
             /\ \A d \in Deposit : record'[d] = "completed" =>
                   record[d] = "completed" \/ (st = "completed" /\ d \in c.of)
             /\ checkpoint' = checkpoint
  BY <1>2 DEF Become, Recorded, Final, Call, Status
<1>3. CASE c.kind = "window"
  <2>1. PICK held \in SUBSET c.of : Register(c.of, held, c.rebased) /\ checkpoint' = Greatest(checkpoint, c.to)
    BY <1>3 DEF Apply
  <2>2. c.rebased \in BOOLEAN
    BY DEF Call
  <2> QED BY <1>1, <1>3, <2>1, <2>2 DEF Greatest
<1>4. CASE c.kind = "deposits"
  <2>1. Register(c.of, {}, c.rebased) /\ checkpoint' = checkpoint /\ c.rebased \in BOOLEAN
    BY <1>4 DEF Apply, Call
  <2> QED BY <1>1, <1>4, <2>1
<1>5. CASE c.kind = "advance"
  <2>1. checkpoint' = c.to /\ record' = record /\ rebased' = rebased
    BY <1>5 DEF Apply
  <2> QED BY <1>5, <2>1 DEF Recorded, Final
<1>6. CASE c.kind = "confirm"
  <2>1. Become(c.of, "completed") /\ \A d \in c.of : record[d] \in {"initiated", "review"}
    BY <1>6 DEF Apply, Accepted
  <2> QED BY <1>2, <1>6, <2>1 DEF Status
<1>7. CASE c.kind = "review"
  <2>1. Become(c.of, "review") /\ \A d \in c.of : record[d] \in {"initiated", "review"}
    BY <1>7 DEF Apply, Accepted
  <2> QED BY <1>2, <1>7, <2>1 DEF Status
<1> QED BY <1>3, <1>4, <1>5, <1>6, <1>7 DEF Call

LEMMA MinedDoes ==
    ASSUME DepositsTypeOK, NEW c \in Call, NEW ok \in BOOLEAN, Mined(c, ok)
    PROVE  /\ record' \in [Deposit -> Status] /\ rebased' \in SUBSET Rebasing /\ checkpoint' \in Block
           /\ \A d \in Deposit : Recorded(d) => Recorded(d)'
           /\ \A d \in Deposit : Final(d) => Final(d)'
           /\ ok /\ c.kind \in {"window", "deposits"} => \A d \in c.of : Recorded(d)'
           /\ \A d \in Deposit : record'[d] = "completed" =>
                 record[d] = "completed" \/ (c.kind = "confirm" /\ d \in c.of)
           /\ checkpoint' = checkpoint
              \/ (ok /\ c.kind \in {"window", "advance"} /\ checkpoint' = c.to)
<1>1. CASE ~ ok
  BY <1>1 DEF Mined, contractVars, DepositsTypeOK, Recorded, Final
<1>2. CASE ok
  <2>1. Accepted(c) /\ Apply(c)
    BY <1>2 DEF Mined
  <2>2. checkpoint \in Block /\ c.to \in Block
    BY DEF DepositsTypeOK, Call
  <2>3. checkpoint' \in Block
    BY <2>1, <2>2, ApplyDoes
  <2> QED BY <1>2, <2>1, <2>3, ApplyDoes
<1> QED BY <1>1, <1>2

(***************************************************************************)
(* The invariant in the next state follows from what grows, from what the  *)
(* step adds and from the types.                                           *)
(***************************************************************************)

\* What a step may add, beyond what it leaves as it was.
AddsScan == \A s \in Server : \E t \in Scanning : t = scan'[s] /\ (t = scan[s] \/ KnowsScan(t)')
AddsJudge == \A s \in Server : \E t \in Judging : t = judge'[s] /\ (t = judge[s] \/ KnowsJudge(t)')
AddsCalls == \A c \in mempool' : c \in mempool \/ Justified(c)'
AddsCheckpoint == \E b \in Block : b = checkpoint' /\ (b = checkpoint \/ Covered(b)')
AddsLocal == \A s \in Server : \E b \in Block : b = local'[s] /\ (b = local[s] \/ Covered(b)')
AddsMinted == \A d \in Deposit : record'[d] = "completed" => record[d] = "completed" \/ Final(d)'

Adds == AddsScan /\ AddsJudge /\ AddsCalls /\ AddsCheckpoint /\ AddsLocal /\ AddsMinted

LEMMA InvariantStays ==
    ASSUME DepositsInv, DepositsTypeOK', Grows, Adds
    PROVE  DepositsInv'
<1> USE DEF DepositsInv
<1>1. /\ \A t \in Scanning : KnowsScan(t) => KnowsScan(t)'
      /\ \A t \in Judging : KnowsJudge(t) => KnowsJudge(t)'
      /\ \A c \in Call : Justified(c) => Justified(c)'
      /\ \A b : Covered(b) => Covered(b)'
  BY KnowledgeStays, HandledStays
<1>2. NothingMissed'
  <2>1. \E b \in Block : b = checkpoint' /\ Covered(b)'
    BY <1>1 DEF NothingMissed, Adds, AddsCheckpoint, AddsLocal
  <2>2. \A s \in Server : \E b \in Block : b = local'[s] /\ Covered(b)'
    BY <1>1 DEF NothingMissed, Adds, AddsCheckpoint, AddsLocal
  <2> QED BY <2>1, <2>2 DEF NothingMissed
<1>3. ScansInv'
  <2>1. \A s \in Server : \E t \in Scanning : t = scan'[s] /\ KnowsScan(t)'
    BY <1>1 DEF ScansInv, Adds, AddsScan
  <2> QED BY <2>1 DEF ScansInv
<1>4. JudgesInv'
  <2>1. \A s \in Server : \E t \in Judging : t = judge'[s] /\ KnowsJudge(t)'
    BY <1>1 DEF JudgesInv, Adds, AddsJudge
  <2> QED BY <2>1 DEF JudgesInv
<1>5. CallsInv'
  <2> SUFFICES ASSUME NEW c \in mempool' PROVE Justified(c)'
    BY DEF CallsInv
  <2>1. CASE c \in mempool
    BY <1>1, <2>1 DEF DepositsTypeOK, CallsInv
  <2> QED BY <2>1 DEF Adds, AddsCalls
<1>6. MintedInv'
  BY DEF MintedInv, Adds, AddsMinted, Grows
<1> QED BY <1>2, <1>3, <1>4, <1>5, <1>6

LEMMA StillAdds ==
    ASSUME DepositsTypeOK
    PROVE  /\ UNCHANGED scan => AddsScan
           /\ UNCHANGED judge => AddsJudge
           /\ UNCHANGED mempool => AddsCalls
           /\ UNCHANGED checkpoint => AddsCheckpoint
           /\ UNCHANGED local => AddsLocal
           /\ UNCHANGED record => AddsMinted
  BY DEF DepositsTypeOK, AddsScan, AddsJudge, AddsCalls, AddsCheckpoint, AddsLocal, AddsMinted

LEMMA StillGrows ==
    ASSUME UNCHANGED <<chain, record, rebased, dead>> PROVE Grows
  BY DEF Grows, Recorded, Final

LEMMA ScanMoves ==
    ASSUME DepositsTypeOK, NEW s \in Server, NEW t \in Scanning, ScanGoes(s, t), KnowsScan(t)'
    PROVE  scan' \in [Server -> Scanning] /\ AddsScan
  BY DEF DepositsTypeOK, ScanGoes, AddsScan

LEMMA JudgeMoves ==
    ASSUME DepositsTypeOK, NEW s \in Server, NEW t \in Judging, JudgeGoes(s, t), KnowsJudge(t)'
    PROVE  judge' \in [Server -> Judging] /\ AddsJudge
  BY DEF DepositsTypeOK, JudgeGoes, AddsJudge

(***************************************************************************)
(* The calls of the pollers are justified, and what a justified call does. *)
(***************************************************************************)

LEMMA ScanCallsAreJustified ==
    ASSUME DepositsInv, NEW s \in Server, NEW c \in ScanCalls(s) PROVE Justified(c)
<1>1. scan[s] \in Scanning /\ KnowsScan(scan[s]) /\ chain \in Chain
  BY DEF DepositsInv, DepositsTypeOK, ScansInv
<1>2. CASE scan[s].at = "recording" /\ scan[s].windowed
  <2>1. c.kind = "window" /\ c.of = scan[s].rest /\ c.to = WindowEnd(scan[s])
    BY <1>2 DEF ScanCalls
  <2> QED BY <1>1, <1>2, <2>1 DEF KnowsScan, Justified
<1>3. CASE scan[s].at = "recording" /\ ~ scan[s].windowed
  <2>1. c.kind = "deposits"
    BY <1>3 DEF ScanCalls
  <2> QED BY <2>1 DEF Justified
<1>4. CASE scan[s].at = "each"
  <2>1. c.kind \in {"window", "deposits"} /\ c.to = 0
    BY <1>4 DEF ScanCalls
  <2> QED BY <1>1, <2>1 DEF Justified, Chain
<1>5. CASE scan[s].at = "advancing"
  <2>1. c.kind \in {"window", "advance"} /\ c.to = WindowEnd(scan[s])
    BY <1>5 DEF ScanCalls
  <2> QED BY <1>1, <1>5, <2>1 DEF KnowsScan, Justified, Covered
<1> QED BY <1>2, <1>3, <1>4, <1>5 DEF ScanCalls

LEMMA JudgeCallsAreJustified ==
    ASSUME DepositsInv, NEW s \in Server, NEW c \in JudgeCalls(s) PROVE Justified(c)
<1>1. KnowsJudge(judge[s])
  BY DEF DepositsInv, JudgesInv
<1>2. c.kind = "review" \/ (c.kind = "confirm" /\ c.of = judge[s].good)
  BY DEF JudgeCalls
<1> QED BY <1>1, <1>2 DEF KnowsJudge, Justified

LEMMA MinedAdds ==
    ASSUME DepositsInv, NEW c \in Call, NEW ok \in BOOLEAN, Mined(c, ok), Justified(c),
           UNCHANGED chain, \A s \in Server : dead[s] \subseteq dead'[s]
    PROVE  Grows /\ AddsCheckpoint /\ AddsMinted
<1> USE DEF DepositsInv
<1>1. Grows
  BY MinedDoes DEF Grows
<1>2. \A d \in Deposit : Handled(d) => Handled(d)'
  BY <1>1, HandledStays
<1>3. CASE checkpoint' = checkpoint
  <2>1. AddsCheckpoint
    BY <1>3, StillAdds
  <2>2. AddsMinted
    BY <1>1, MinedDoes DEF AddsMinted, Grows, Justified
  <2> QED BY <1>1, <2>1, <2>2
<1>4. CASE checkpoint' # checkpoint
  <2>1. ok /\ c.kind \in {"window", "advance"} /\ checkpoint' = c.to
    BY <1>4, MinedDoes
  <2>2. Covered(c.to)'
    <3>1. ASSUME NEW d \in Deposit, chain.at[d] <= c.to PROVE Handled(d)'
      <4>1. CASE c.kind = "window"
        <5>1. Handled(d) \/ d \in c.of
          BY <3>1, <4>1 DEF Justified
        <5>2. d \in c.of => Recorded(d)'
          BY <2>1, <4>1, MinedDoes
        <5> QED BY <1>2, <5>1, <5>2 DEF Handled
      <4>2. CASE c.kind = "advance"
        BY <1>2, <3>1, <4>2 DEF Justified, Covered
      <4> QED BY <2>1, <4>1, <4>2
    <3> QED BY <3>1 DEF Covered
  <2>3. AddsCheckpoint
    BY <2>1, <2>2 DEF AddsCheckpoint, Call
  <2>4. AddsMinted
    BY <1>1, MinedDoes DEF AddsMinted, Grows, Justified
  <2> QED BY <1>1, <2>3, <2>4
<1> QED BY <1>3, <1>4

(***************************************************************************)
(* The deposit poller.                                                     *)
(***************************************************************************)

\* What a step must establish for the invariant.
Keeps == DepositsTypeOK' /\ Grows /\ Adds

LEMMA QuietScan ==
    ASSUME DepositsInv, NEW s \in Server, NEW t \in Scanning, ScanGoes(s, t), KnowsScan(t)',
           UNCHANGED <<chain, contractVars, local, dead, mempool, judge>>
    PROVE  Keeps
<1>1. DepositsTypeOK
  BY DEF DepositsInv
<1>2. AddsScan /\ scan' \in [Server -> Scanning]
  BY <1>1, ScanMoves
<1>3. Adds /\ Grows
  BY <1>1, <1>2, StillAdds, StillGrows DEF Adds, contractVars
<1> QED BY <1>1, <1>2, <1>3 DEF Keeps, DepositsTypeOK, contractVars

LEMMA RestingKnows == KnowsScan(Resting) /\ KnowsScan(Resting)'
  BY DEF KnowsScan, Resting

LEMMA StartScanKeeps == ASSUME DepositsInv, NEW s \in Server, StartScan(s) PROVE Keeps
<1>1. /\ checkpoint \in Block /\ local[s] \in Block /\ chain \in Chain /\ chain.head \in Block
      /\ Covered(checkpoint) /\ Covered(local[s])
  BY DEF DepositsInv, DepositsTypeOK, NothingMissed, Chain
<1>2. PICK seen \in 0 .. checkpoint, reached \in 0 .. chain.head, windowed \in Configured :
          LET last == Greatest(local[s], seen)
          IN  /\ reached > last
              /\ ScanGoes(s, [Resting EXCEPT !.at = "reading", !.windowed = windowed, !.from = last + 1,
                                             !.upto = Least(reached, last + Span * MaxWindows)])
  BY DEF StartScan
<1>3. PICK last \in Block : last = Greatest(local[s], seen)
  BY <1>1, DepositsAssumption DEF Greatest, Block
<1>4. Covered(last)
  <2>1. Covered(seen)
    BY <1>1, CoveredBelow, DepositsAssumption DEF Block
  <2> QED BY <1>1, <1>3, <2>1 DEF Greatest
<1>5. reached > last
  BY <1>2, <1>3
<1>6. PICK upto \in Block : upto = Least(reached, last + Span * MaxWindows)
  <2>1. \A m \in Nat : m >= 1 => Least(reached, last + m) \in Block
    BY <1>1, <1>5, DepositsAssumption DEF Least, Block
  <2> QED BY <2>1, ReachIsNatural
<1> DEFINE t == [Resting EXCEPT !.at = "reading", !.windowed = windowed, !.from = last + 1, !.upto = upto]
<1>7. t \in Scanning /\ t.at = "reading" /\ t.from - 1 = last /\ ScanGoes(s, t)
  <2>1. windowed \in BOOLEAN /\ last + 1 \in 0 .. MaxBlock + 1 /\ last + 1 - 1 = last
    BY DepositsAssumption DEF Block
  <2>2. ScanGoes(s, t)
    BY <1>2, <1>3, <1>6
  <2>3. t.at = "reading" /\ t.from = last + 1
    BY DEF Resting
  <2>4. t \in Scanning
    BY <2>1, RestingTypes DEF Scanning, Resting
  <2>5. t.from - 1 = last
    <3> HIDE DEF t
    <3> QED BY <2>3, DepositsAssumption DEF Block
  <2> QED BY <2>2, <2>3, <2>4, <2>5
<1> HIDE DEF t
<1>8. Covered(last)'
  <2>1. Grows
    BY StillGrows DEF StartScan, contractVars
  <2> QED BY <1>4, <2>1, HandledStays
<1>9. \A v \in Scanning : v.at = "reading" /\ v.from - 1 = last => KnowsScan(v)'
  BY <1>8 DEF KnowsScan
<1>10. PICK v \in Scanning : v = t
  BY <1>7
<1>11. v \in Scanning /\ ScanGoes(s, v) /\ KnowsScan(v)'
  BY <1>7, <1>9, <1>10
<1> QED BY <1>11, QuietScan DEF StartScan

LEMMA ReadWindowKeeps == ASSUME ~ Balanced, DepositsInv, NEW s \in Server, ReadWindow(s) PROVE Keeps
<1>1. PICK u \in Scanning : u = scan[s] /\ KnowsScan(u) /\ u.at = "reading"
  BY DEF ReadWindow, DepositsInv, DepositsTypeOK, ScansInv
<1>2. PICK to \in Block : to = WindowEnd(u)
  BY WindowEnds
<1>3. PICK reached \in 0 .. chain.head, r \in BOOLEAN :
          LET ds == {d \in Deposit : chain.at[d] \in u.from .. Least(to, reached)}
          IN  /\ reached >= to
              /\ ScanGoes(s, [u EXCEPT !.at = IF ds = {} THEN "saving" ELSE "recording",
                                       !.rebased = r, !.rest = ds,
                                       !.then = IF u.windowed THEN "saving" ELSE "advancing"])
  BY <1>1, <1>2 DEF ReadWindow
<1>4. PICK ds \in SUBSET Deposit : ds = {d \in Deposit : chain.at[d] \in u.from .. Least(to, reached)}
  OBVIOUS
<1> DEFINE t == [u EXCEPT !.at = IF ds = {} THEN "saving" ELSE "recording",
                          !.rebased = r, !.rest = ds,
                          !.then = IF u.windowed THEN "saving" ELSE "advancing"]
<1>5. reached >= to /\ ScanGoes(s, t)
  BY <1>3, <1>4
<1>6. to \in Nat /\ u.from \in Nat /\ chain.head \in Nat /\ \A d \in Deposit : chain.at[d] \in Nat
  BY DepositsAssumption DEF Scanning, Block, Chain, DepositsInv, DepositsTypeOK
<1>7. \A d \in Deposit : chain.at[d] <= to => chain.at[d] <= u.from - 1 \/ d \in ds
  BY <1>4, <1>5, <1>6 DEF Least
<1>8. t \in Scanning /\ t.at = (IF ds = {} THEN "saving" ELSE "recording") /\ t.rest = ds
      /\ t.from = u.from /\ WindowEnd(t) = to
  BY <1>2 DEF Scanning, WindowEnd
<1> HIDE DEF t
<1>9. Covered(u.from - 1)' /\ \A d \in Deposit : chain'.at[d] <= to => Handled(d)' \/ d \in ds
  <2>1. Covered(u.from - 1)
    BY <1>1 DEF KnowsScan
  <2>2. Grows
    BY StillGrows DEF ReadWindow, contractVars
  <2>3. \A d \in Deposit : chain.at[d] <= u.from - 1 => Handled(d)'
    BY <2>1, <2>2, HandledStays DEF Covered
  <2>4. chain' = chain
    BY DEF ReadWindow
  <2> QED BY <1>7, <2>3, <2>4 DEF Covered
<1>10. KnowsScan(t)'
  BY <1>8, <1>9 DEF KnowsScan, Covered
<1> QED BY <1>5, <1>8, <1>10, QuietScan DEF ReadWindow

LEMMA VerifyRecordedKeeps == ASSUME DepositsInv, NEW s \in Server, VerifyRecorded(s) PROVE Keeps
<1>1. PICK u \in Scanning : u = scan[s] /\ KnowsScan(u) /\ u.at = "verifying"
  BY DEF VerifyRecorded, DepositsInv, DepositsTypeOK, ScansInv
<1> DEFINE t == [u EXCEPT !.at = u.then]
<1>2. t \in Scanning /\ t.at \in {"advancing", "saving"} /\ t.from = u.from
      /\ WindowEnd(t) = WindowEnd(u)
  BY DEF Scanning, WindowEnd
<1>3. KnowsScan(t)
  BY <1>1, <1>2 DEF KnowsScan
<1>4. Grows /\ ScanGoes(s, t)
  BY <1>1, StillGrows DEF VerifyRecorded, contractVars
<1> HIDE DEF t
<1>5. KnowsScan(t)'
  BY <1>2, <1>3, <1>4, KnowledgeStays
<1> QED BY <1>2, <1>4, <1>5, QuietScan DEF VerifyRecorded

LEMMA EndScanKeeps == ASSUME DepositsInv, NEW s \in Server, EndScan(s) PROVE Keeps
  BY RestingTypes, RestingKnows, QuietScan DEF EndScan

LEMMA SaveLocalKeeps == ASSUME DepositsInv, NEW s \in Server, SaveLocal(s) PROVE Keeps
<1>1. PICK u \in Scanning : u = scan[s] /\ KnowsScan(u) /\ u.at = "saving"
  BY DEF SaveLocal, DepositsInv, DepositsTypeOK, ScansInv
<1>2. PICK to \in Block : to = WindowEnd(u)
  BY WindowEnds
<1> DEFINE t == IF to < u.upto THEN [u EXCEPT !.at = "reading", !.from = to + 1] ELSE Resting
<1>3. local' = [local EXCEPT ![s] = to] /\ ScanGoes(s, t)
  BY <1>1, <1>2 DEF SaveLocal
<1>4. Grows
  BY StillGrows DEF SaveLocal, contractVars
<1>5. Covered(to)'
  BY <1>1, <1>2, <1>4, HandledStays DEF KnowsScan
<1>6. PICK q \in Scanning : q = t /\ KnowsScan(q)'
  <2>1. CASE to < u.upto
    <3>1. to + 1 \in 0 .. MaxBlock + 1 /\ to + 1 - 1 = to
      BY DepositsAssumption DEF Block
    <3>2. PICK q \in Scanning : q = [u EXCEPT !.at = "reading", !.from = to + 1]
      BY <3>1 DEF Scanning
    <3>3. q = t /\ q.at = "reading" /\ q.from = to + 1
      BY <2>1, <3>2 DEF Scanning
    <3> HIDE DEF t
    <3>4. q.from - 1 = to
      BY <3>3, DepositsAssumption DEF Block
    <3>5. KnowsScan(q)'
      BY <1>5, <3>3, <3>4 DEF KnowsScan
    <3> QED BY <3>3, <3>5
  <2>2. CASE ~ (to < u.upto)
    BY <2>2, RestingTypes, RestingKnows
  <2> QED BY <2>1, <2>2
<1> HIDE DEF t
<1>7. DepositsTypeOK
  BY DEF DepositsInv
<1>8. AddsScan /\ scan' \in [Server -> Scanning]
  BY <1>3, <1>6, <1>7, ScanMoves
<1>9. AddsLocal /\ local' \in [Server -> Block]
  BY <1>3, <1>5, <1>7 DEF AddsLocal, DepositsTypeOK
<1>10. Adds
  BY <1>7, <1>8, <1>9, StillAdds DEF Adds, SaveLocal, contractVars
<1> QED BY <1>4, <1>7, <1>8, <1>9, <1>10 DEF Keeps, DepositsTypeOK, SaveLocal, contractVars

LEMMA OnwardKnows ==
    ASSUME DepositsInv, Grows, NEW t \in Scanning, KnowsScan(t), t.at \in {"recording", "each"},
           NEW ds \in SUBSET Deposit, \A d \in ds : Handled(d)'
    PROVE  \E q \in Scanning : q = Onward(t, ds) /\ KnowsScan(q)'
<1>1. PICK q \in Scanning :
          /\ q = Onward(t, ds) /\ q.from = t.from /\ q.upto = t.upto /\ q.rest = t.rest \ ds
          /\ q.rest = {} => q.at = "verifying"
          /\ q.rest # {} => q.at \in {t.at, "recording"}
  BY OnwardTypes DEF DepositsInv, DepositsTypeOK
<1>2. WindowEnd(q) = WindowEnd(t)
  BY <1>1 DEF WindowEnd
<1>3. Covered(t.from - 1)'
  BY HandledStays DEF KnowsScan
<1>4. \A d \in Deposit : chain'.at[d] <= WindowEnd(t) => Handled(d)' \/ d \in q.rest
  <2>1. \A d \in Deposit : chain.at[d] <= WindowEnd(t) => Handled(d) \/ d \in t.rest
    BY DEF KnowsScan
  <2>2. chain'.at = chain.at
    BY DEF Grows
  <2> QED BY <1>1, <2>1, <2>2, HandledStays
<1>5. KnowsScan(q)'
  BY <1>1, <1>2, <1>3, <1>4 DEF KnowsScan, Covered
<1> QED BY <1>1, <1>5

LEMMA SetAsideKeeps == ASSUME DepositsInv, NEW s \in Server, SetAside(s) PROVE Keeps
<1>1. PICK u \in Scanning : u = scan[s] /\ KnowsScan(u) /\ u.at = "recording"
  BY DEF SetAside, DepositsInv, DepositsTypeOK, ScansInv
<1>2. PICK d \in u.rest :
          /\ dead' = [dead EXCEPT ![s] = @ \cup {d}]
          /\ ScanGoes(s, [u EXCEPT !.rest = u.rest \ {d},
                                   !.at = IF u.rest \ {d} = {} THEN "verifying" ELSE "recording"])
  BY <1>1 DEF SetAside
<1> DEFINE t == [u EXCEPT !.rest = u.rest \ {d},
                          !.at = IF u.rest \ {d} = {} THEN "verifying" ELSE "recording"]
<1>3. DepositsTypeOK /\ u.rest \subseteq Deposit
  BY DEF DepositsInv, Scanning
<1>4. dead' \in [Server -> SUBSET Deposit] /\ \A v \in Server : dead[v] \subseteq dead'[v]
  BY <1>2, <1>3 DEF DepositsTypeOK
<1>5. Grows
  BY <1>4 DEF Grows, Recorded, Final, SetAside, contractVars
<1>6. Handled(d)'
  BY <1>2, <1>3 DEF Handled, DepositsTypeOK
<1>7. t \in Scanning /\ t.from = u.from /\ t.rest = u.rest \ {d} /\ WindowEnd(t) = WindowEnd(u)
      /\ t.at = (IF t.rest = {} THEN "verifying" ELSE "recording")
  BY DEF Scanning, WindowEnd
<1> HIDE DEF t
<1>8. \A e \in Deposit : chain'.at[e] <= WindowEnd(u) => Handled(e)' \/ e \in t.rest
  <2>1. \A e \in Deposit : chain.at[e] <= WindowEnd(u) => Handled(e) \/ e \in u.rest
    BY <1>1 DEF KnowsScan
  <2>2. chain'.at = chain.at
    BY <1>5 DEF Grows
  <2> QED BY <1>5, <1>6, <1>7, <2>1, <2>2, HandledStays
<1>9. Covered(u.from - 1)'
  BY <1>1, <1>5, HandledStays DEF KnowsScan
<1>10. KnowsScan(t)'
  BY <1>7, <1>8, <1>9 DEF KnowsScan, Covered
<1>11. AddsScan /\ scan' \in [Server -> Scanning]
  BY <1>2, <1>3, <1>7, <1>10, ScanMoves DEF t
<1>12. Adds
  BY <1>3, <1>11, StillAdds DEF Adds, SetAside, contractVars
<1> QED BY <1>3, <1>4, <1>5, <1>11, <1>12 DEF Keeps, DepositsTypeOK, SetAside, contractVars

LEMMA CallingScan ==
    ASSUME DepositsInv, NEW s \in Server, NEW c \in ScanCalls(s), NEW ok \in BOOLEAN, Mined(c, ok),
           dead' \in [Server -> SUBSET Deposit], \A v \in Server : dead[v] \subseteq dead'[v],
           NEW t \in Scanning, ScanGoes(s, t), KnowsScan(t)',
           UNCHANGED <<chain, local, mempool, judge>>
    PROVE  Keeps
<1>1. DepositsTypeOK /\ c \in Call /\ Justified(c)
  BY ScanCallsAreCalls, ScanCallsAreJustified DEF DepositsInv
<1>2. Grows /\ AddsCheckpoint /\ AddsMinted
  BY <1>1, MinedAdds
<1>3. record' \in [Deposit -> Status] /\ rebased' \in SUBSET Rebasing /\ checkpoint' \in Block
  BY <1>1, MinedDoes
<1>4. AddsScan /\ scan' \in [Server -> Scanning]
  BY <1>1, ScanMoves
<1>5. Adds
  BY <1>1, <1>2, <1>4, StillAdds DEF Adds
<1> QED BY <1>1, <1>2, <1>3, <1>4, <1>5 DEF Keeps, DepositsTypeOK

LEMMA SettleHandles ==
    ASSUME DepositsTypeOK, NEW s \in Server, NEW t, NEW c \in Call, NEW ok \in BOOLEAN,
           c.kind \in {"window", "deposits"}, Mined(c, ok), Settle(s, t, c, ok)
    PROVE  /\ dead' \in [Server -> SUBSET Deposit] /\ \A v \in Server : dead[v] \subseteq dead'[v]
           /\ \A d \in c.of : Handled(d)'
           /\ ScanGoes(s, Onward(t, c.of))
<1> DEFINE known == c.kind = "deposits" /\ \A d \in c.of : Recorded(d)
<1>1. /\ dead' = (IF ok \/ known THEN dead ELSE [dead EXCEPT ![s] = @ \cup c.of])
      /\ ScanGoes(s, Onward(t, c.of))
  BY DEF Settle
<1>2. c.of \in SUBSET Deposit /\ dead \in [Server -> SUBSET Deposit]
  BY DEF Call, DepositsTypeOK
<1>3. CASE ok \/ known
  <2>1. \A d \in c.of : Recorded(d)'
    BY <1>2, <1>3, MinedDoes
  <2> QED BY <1>1, <1>2, <1>3, <2>1 DEF Handled
<1>4. CASE ~ (ok \/ known)
  <2>1. dead' = [dead EXCEPT ![s] = @ \cup c.of]
    BY <1>1, <1>4
  <2>2. c.of \subseteq dead'[s]
    BY <1>2, <2>1
  <2> QED BY <1>1, <1>2, <2>1, <2>2 DEF Handled
<1> QED BY <1>3, <1>4

LEMMA CallAdvanceKeeps == ASSUME DepositsInv, NEW s \in Server, CallAdvance(s) PROVE Keeps
<1>1. PICK u \in Scanning : u = scan[s] /\ KnowsScan(u) /\ u.at = "advancing"
  BY DEF CallAdvance, DepositsInv, DepositsTypeOK, ScansInv
<1>2. PICK c \in ScanCalls(s), ok \in BOOLEAN :
          /\ Mined(c, ok)
          /\ ScanGoes(s, IF ok THEN [u EXCEPT !.at = "saving"] ELSE Resting)
  BY <1>1 DEF CallAdvance
<1>3. DepositsTypeOK /\ c \in Call /\ Justified(c) /\ UNCHANGED <<chain, dead>>
  BY ScanCallsAreCalls, ScanCallsAreJustified DEF DepositsInv, CallAdvance
<1>4. Grows
  BY <1>2, <1>3, MinedAdds
<1>5. [u EXCEPT !.at = "saving"] \in Scanning
  BY DEF Scanning
<1>6. KnowsScan([u EXCEPT !.at = "saving"])'
  <2>1. Covered(u.from - 1)' /\ Covered(WindowEnd(u))'
    BY <1>1, <1>4, HandledStays DEF KnowsScan
  <2>2. WindowEnd([u EXCEPT !.at = "saving"]) = WindowEnd(u)
    BY DEF WindowEnd, Scanning
  <2> QED BY <2>1, <2>2 DEF KnowsScan, Scanning
<1>7. dead' \in [Server -> SUBSET Deposit] /\ \A v \in Server : dead[v] \subseteq dead'[v]
  BY <1>3 DEF DepositsTypeOK
<1>8. CASE ok
  BY <1>2, <1>5, <1>6, <1>7, <1>8, CallingScan DEF CallAdvance
<1>9. CASE ~ ok
  BY <1>2, <1>7, <1>9, RestingTypes, RestingKnows, CallingScan DEF CallAdvance
<1> QED BY <1>8, <1>9

LEMMA CallRecordKeeps == ASSUME DepositsInv, NEW s \in Server, CallRecord(s) PROVE Keeps
<1>1. PICK u \in Scanning : u = scan[s] /\ KnowsScan(u) /\ u.at = "recording"
  BY DEF CallRecord, DepositsInv, DepositsTypeOK, ScansInv
<1>2. PICK c \in ScanCalls(s), ok \in BOOLEAN :
          LET t == IF ok THEN u ELSE [u EXCEPT !.then = "advancing"]
          IN  /\ Mined(c, ok)
              /\ IF ok \/ Cardinality(c.of) = 1 THEN Settle(s, t, c, ok)
                 ELSE ScanGoes(s, [t EXCEPT !.at = "each"]) /\ UNCHANGED dead
  BY <1>1 DEF CallRecord
<1>3. PICK t \in Scanning :
          /\ t = (IF ok THEN u ELSE [u EXCEPT !.then = "advancing"])
          /\ t.at = "recording" /\ t.from = u.from /\ t.upto = u.upto /\ t.rest = u.rest
  <2>1. CASE ok
    BY <1>1, <2>1
  <2>2. CASE ~ ok
    <3>1. [u EXCEPT !.then = "advancing"] \in Scanning
      BY DEF Scanning
    <3>2. /\ [u EXCEPT !.then = "advancing"].at = u.at
          /\ [u EXCEPT !.then = "advancing"].from = u.from
          /\ [u EXCEPT !.then = "advancing"].upto = u.upto
          /\ [u EXCEPT !.then = "advancing"].rest = u.rest
      BY DEF Scanning
    <3> QED BY <1>1, <2>2, <3>1, <3>2
  <2> QED BY <2>1, <2>2
<1>4. Mined(c, ok) /\ IF ok \/ Cardinality(c.of) = 1 THEN Settle(s, t, c, ok)
                      ELSE ScanGoes(s, [t EXCEPT !.at = "each"]) /\ UNCHANGED dead
  BY <1>2, <1>3
<1>5. DepositsTypeOK /\ c \in Call /\ Justified(c) /\ c.kind \in {"window", "deposits"}
      /\ UNCHANGED <<chain, local, mempool, judge>>
  <2>1. c.kind \in {"window", "deposits"}
    BY <1>1 DEF ScanCalls
  <2> QED BY <2>1, ScanCallsAreCalls, ScanCallsAreJustified DEF DepositsInv, CallRecord
<1>6. KnowsScan(t)
  <2>1. WindowEnd(t) = WindowEnd(u)
    BY <1>3 DEF WindowEnd
  <2> QED BY <1>1, <1>3, <2>1 DEF KnowsScan
<1>7. CASE ok \/ Cardinality(c.of) = 1
  <2>1. Settle(s, t, c, ok)
    BY <1>4, <1>7
  <2>2. /\ dead' \in [Server -> SUBSET Deposit] /\ \A v \in Server : dead[v] \subseteq dead'[v]
        /\ \A d \in c.of : Handled(d)'
        /\ ScanGoes(s, Onward(t, c.of))
    BY <1>4, <1>5, <2>1, SettleHandles
  <2>3. Grows
    BY <1>4, <1>5, <2>2, MinedAdds
  <2>4. PICK q \in Scanning : q = Onward(t, c.of) /\ KnowsScan(q)'
    BY <1>3, <1>5, <1>6, <2>2, <2>3, OnwardKnows DEF Call
  <2> QED BY <1>4, <1>5, <2>2, <2>4, CallingScan
<1>8. CASE ~ (ok \/ Cardinality(c.of) = 1)
  <2>1. ScanGoes(s, [t EXCEPT !.at = "each"]) /\ UNCHANGED dead
    BY <1>4, <1>8
  <2>2. /\ dead' \in [Server -> SUBSET Deposit] /\ \A v \in Server : dead[v] \subseteq dead'[v]
    BY <1>5, <2>1 DEF DepositsTypeOK
  <2>3. Grows
    BY <1>4, <1>5, <2>2, MinedAdds
  <2>4. PICK q \in Scanning : q = [t EXCEPT !.at = "each"]
    BY DEF Scanning
  <2>5. q.at = "each" /\ q.from = t.from /\ q.rest = t.rest /\ WindowEnd(q) = WindowEnd(t)
    BY <2>4 DEF Scanning, WindowEnd
  <2>6. KnowsScan(q)
    BY <1>3, <1>6, <2>5 DEF KnowsScan
  <2>7. KnowsScan(q)'
    BY <2>3, <2>6, KnowledgeStays
  <2> QED BY <1>4, <1>5, <2>1, <2>2, <2>4, <2>7, CallingScan
<1> QED BY <1>7, <1>8

LEMMA CallEachKeeps == ASSUME DepositsInv, NEW s \in Server, CallEach(s) PROVE Keeps
<1>1. PICK u \in Scanning : u = scan[s] /\ KnowsScan(u) /\ u.at = "each"
  BY DEF CallEach, DepositsInv, DepositsTypeOK, ScansInv
<1>2. PICK c \in ScanCalls(s), ok \in BOOLEAN : Mined(c, ok) /\ Settle(s, u, c, ok)
  BY <1>1 DEF CallEach
<1>3. DepositsTypeOK /\ c \in Call /\ Justified(c) /\ c.kind \in {"window", "deposits"}
      /\ UNCHANGED <<chain, local, mempool, judge>>
  <2>1. c.kind \in {"window", "deposits"}
    BY <1>1 DEF ScanCalls
  <2> QED BY <2>1, ScanCallsAreCalls, ScanCallsAreJustified DEF DepositsInv, CallEach
<1>4. /\ dead' \in [Server -> SUBSET Deposit] /\ \A v \in Server : dead[v] \subseteq dead'[v]
      /\ \A d \in c.of : Handled(d)'
      /\ ScanGoes(s, Onward(u, c.of))
  BY <1>2, <1>3, SettleHandles
<1>5. Grows
  BY <1>2, <1>3, <1>4, MinedAdds
<1>6. PICK q \in Scanning : q = Onward(u, c.of) /\ KnowsScan(q)'
  BY <1>1, <1>3, <1>4, <1>5, OnwardKnows DEF Call
<1> QED BY <1>2, <1>3, <1>4, <1>6, CallingScan

(***************************************************************************)
(* The other poller, failures, and what happens around the servers.        *)
(***************************************************************************)

LEMMA AsleepKnows == KnowsJudge(Asleep) /\ KnowsJudge(Asleep)'
  BY DEF KnowsJudge, Asleep

LEMMA QuietJudge ==
    ASSUME DepositsInv, NEW s \in Server, NEW t \in Judging, JudgeGoes(s, t), KnowsJudge(t)',
           UNCHANGED <<chain, contractVars, local, dead, mempool, scan>>
    PROVE  Keeps
<1>1. DepositsTypeOK
  BY DEF DepositsInv
<1>2. AddsJudge /\ judge' \in [Server -> Judging]
  BY <1>1, JudgeMoves
<1>3. Adds /\ Grows
  BY <1>1, <1>2, StillAdds, StillGrows DEF Adds, contractVars
<1> QED BY <1>1, <1>2, <1>3 DEF Keeps, DepositsTypeOK, contractVars

LEMMA JudgeKeeps == ASSUME DepositsInv, NEW s \in Server, Judge(s) PROVE Keeps
<1>1. PICK seen \in SUBSET {d \in Deposit : record[d] \notin {"none", "quarantined"}}, r \in BOOLEAN :
          /\ r \/ Blind
          /\ \E good \in SUBSET {d \in seen : r /\ d \in Rebasing <=> d \in rebased} :
                JudgeGoes(s, [at   |-> IF good = {} THEN "reviewing" ELSE "confirming",
                              good |-> good, bad |-> seen \ good])
  BY DEF Judge
<1>2. PICK good \in SUBSET {d \in seen : r /\ d \in Rebasing <=> d \in rebased} :
          JudgeGoes(s, [at   |-> IF good = {} THEN "reviewing" ELSE "confirming",
                        good |-> good, bad |-> seen \ good])
  BY <1>1
<1> DEFINE t == [at |-> IF good = {} THEN "reviewing" ELSE "confirming", good |-> good, bad |-> seen \ good]
<1>3. \A d \in good : Final(d)
  BY <1>1, <1>2 DEF Final
<1>4. \A d \in good : Final(d)'
  BY <1>1, <1>3, StillGrows DEF Judge, Grows, contractVars
<1>5. t \in Judging /\ t.good = good /\ JudgeGoes(s, t)
  BY <1>1, <1>2 DEF Judging
<1> HIDE DEF t
<1>6. KnowsJudge(t)'
  BY <1>4, <1>5 DEF KnowsJudge
<1> QED BY <1>5, <1>6, QuietJudge DEF Judge

LEMMA EndJudgeKeeps == ASSUME DepositsInv, NEW s \in Server, EndJudge(s) PROVE Keeps
  BY RestingTypes, AsleepKnows, QuietJudge DEF EndJudge

LEMMA CallJudgeKeeps == ASSUME DepositsInv, NEW s \in Server, CallJudge(s) PROVE Keeps
<1>1. PICK u \in Judging : u = judge[s]
  BY DEF DepositsInv, DepositsTypeOK
<1>2. PICK c \in JudgeCalls(s), ok \in BOOLEAN :
          /\ Mined(c, ok)
          /\ JudgeGoes(s, IF c.kind = "confirm" /\ u.bad # {}
                          THEN [u EXCEPT !.at = "reviewing", !.good = {}] ELSE Asleep)
  BY <1>1 DEF CallJudge
<1>3. DepositsTypeOK /\ c \in Call /\ Justified(c) /\ UNCHANGED <<chain, local, dead, mempool, scan>>
  BY JudgeCallsAreCalls, JudgeCallsAreJustified DEF DepositsInv, CallJudge
<1>4. Grows /\ AddsCheckpoint /\ AddsMinted
  BY <1>2, <1>3, MinedAdds
<1>5. record' \in [Deposit -> Status] /\ rebased' \in SUBSET Rebasing /\ checkpoint' \in Block
  BY <1>2, <1>3, MinedDoes
<1>6. PICK t \in Judging : JudgeGoes(s, t) /\ t.good = {}
  <2>1. [u EXCEPT !.at = "reviewing", !.good = {}] \in Judging /\ Asleep.good = {}
    BY DEF Judging, Asleep
  <2> QED BY <1>2, <2>1, RestingTypes DEF Judging
<1>7. KnowsJudge(t)'
  BY <1>6 DEF KnowsJudge
<1>8. AddsJudge /\ judge' \in [Server -> Judging]
  BY <1>3, <1>6, <1>7, JudgeMoves
<1>9. Adds
  BY <1>3, <1>4, <1>8, StillAdds DEF Adds
<1> QED BY <1>3, <1>4, <1>5, <1>8, <1>9 DEF Keeps, DepositsTypeOK

LEMMA LoseLocalKeeps == ASSUME DepositsInv, NEW s \in Server, LoseLocal(s) PROVE Keeps
<1>1. DepositsTypeOK /\ chain \in Chain /\ 0 \in Block
  BY DepositsAssumption DEF DepositsInv, DepositsTypeOK, Block
<1>2. Grows
  BY StillGrows DEF LoseLocal, contractVars
<1>3. Covered(0)'
  BY <1>1, DepositsAssumption DEF Covered, Chain, LoseLocal
<1>4. local' \in [Server -> Block] /\ AddsLocal
  BY <1>1, <1>3 DEF LoseLocal, AddsLocal, DepositsTypeOK
<1>5. Adds
  BY <1>1, <1>4, StillAdds DEF Adds, LoseLocal, contractVars
<1> QED BY <1>1, <1>2, <1>4, <1>5 DEF Keeps, DepositsTypeOK, LoseLocal, contractVars

LEMMA UnansweredKeeps == ASSUME DepositsInv, NEW s \in Server, Unanswered(s) PROVE Keeps
<1>1. PICK c \in ScanCalls(s) \cup JudgeCalls(s) : mempool' = mempool \cup {c}
  BY DEF Unanswered
<1>2. DepositsTypeOK /\ c \in Call /\ Justified(c)
  BY ScanCallsAreCalls, ScanCallsAreJustified, JudgeCallsAreCalls, JudgeCallsAreJustified DEF DepositsInv
<1>3. Grows
  BY StillGrows DEF Unanswered, contractVars
<1>4. Justified(c)'
  BY <1>2, <1>3, KnowledgeStays
<1>5. AddsCalls
  BY <1>1, <1>4 DEF AddsCalls
<1>6. Adds
  BY <1>2, <1>5, StillAdds DEF Adds, Unanswered, contractVars
<1> QED BY <1>1, <1>2, <1>3, <1>6 DEF Keeps, DepositsTypeOK, Unanswered, contractVars

LEMMA MineLateKeeps == ASSUME DepositsInv, NEW c \in mempool, MineLate(c) PROVE Keeps
<1>1. PICK ok \in BOOLEAN : Mined(c, ok)
  BY DEF MineLate
<1>2. DepositsTypeOK /\ c \in Call /\ Justified(c) /\ mempool' = mempool \ {c}
      /\ UNCHANGED <<chain, local, dead, scan, judge>>
  BY DEF DepositsInv, DepositsTypeOK, CallsInv, MineLate
<1>3. Grows /\ AddsCheckpoint /\ AddsMinted
  BY <1>1, <1>2, MinedAdds
<1>4. record' \in [Deposit -> Status] /\ rebased' \in SUBSET Rebasing /\ checkpoint' \in Block
  BY <1>1, <1>2, MinedDoes
<1>5. AddsCalls
  BY <1>2 DEF AddsCalls
<1>6. Adds
  BY <1>2, <1>3, <1>5, StillAdds DEF Adds
<1> QED BY <1>2, <1>3, <1>4, <1>6 DEF Keeps, DepositsTypeOK

LEMMA ConfirmKeeps == ASSUME DepositsInv, Confirm PROVE Keeps
<1>1. DepositsTypeOK /\ chain' \in Chain /\ chain'.at = chain.at
  BY DepositsAssumption DEF DepositsInv, DepositsTypeOK, Confirm, Chain, Block
<1>2. Grows
  BY <1>1 DEF Grows, Recorded, Final, Confirm, contractVars
<1>3. Adds
  BY <1>1, StillAdds DEF Adds, Confirm, contractVars
<1> QED BY <1>1, <1>2, <1>3 DEF Keeps, DepositsTypeOK, Confirm, contractVars

\* The owner's actions are about one deposit.
LEMMA OwnerKeeps ==
    ASSUME DepositsInv, NEW d \in Deposit, Reroute(d) \/ AbortDeposit(d) \/ ConfirmReviewed(d)
    PROVE  Keeps
<1>1. DepositsTypeOK /\ UNCHANGED <<chain, checkpoint, local, dead, mempool, scan, judge>>
  BY DEF DepositsInv, Reroute, AbortDeposit, ConfirmReviewed, Become
<1>2. /\ record' \in [Deposit -> Status] /\ rebased' \in SUBSET Rebasing
      /\ \A e \in Deposit : (Recorded(e) => Recorded(e)') /\ (Final(e) => Final(e)')
      /\ \A e \in Deposit : record'[e] = "completed" => record[e] = "completed" \/ Final(e)'
  <2>1. CASE Reroute(d)
    BY <1>1, <2>1 DEF Reroute, DepositsTypeOK, Status, Recorded, Final
  <2>2. CASE AbortDeposit(d)
    BY <1>1, <2>2 DEF AbortDeposit, Become, DepositsTypeOK, Status, Recorded, Final
  <2>3. CASE ConfirmReviewed(d)
    BY <1>1, <2>3 DEF ConfirmReviewed, Become, DepositsTypeOK, Status, Recorded, Final
  <2> QED BY <2>1, <2>2, <2>3
<1>3. Grows
  BY <1>1, <1>2 DEF Grows
<1>4. Adds
  BY <1>1, <1>2, StillAdds DEF Adds, AddsMinted
<1> QED BY <1>1, <1>2, <1>3, <1>4 DEF Keeps, DepositsTypeOK

(***************************************************************************)
(* The theorems.                                                           *)
(***************************************************************************)

LEMMA InvariantInit == ASSUME Init PROVE DepositsInv
<1>1. DepositsTypeOK
  <2>1. chain \in Chain
    BY DepositsAssumption DEF Init, Chain, Block
  <2>2. 0 \in Block
    BY DepositsAssumption DEF Block
  <2> QED BY <2>1, <2>2, RestingTypes DEF Init, DepositsTypeOK, Status
<1>2. Covered(0)
  BY <1>1, DepositsAssumption DEF Covered, DepositsTypeOK, Chain
<1>3. NothingMissed
  BY <1>2 DEF NothingMissed, Init
<1>4. ScansInv
  BY DEF Init, ScansInv, KnowsScan, Resting
<1>5. JudgesInv
  BY DEF Init, JudgesInv, KnowsJudge, Asleep
<1>6. CallsInv /\ MintedInv
  BY DEF Init, CallsInv, MintedInv
<1> QED BY <1>1, <1>3, <1>4, <1>5, <1>6 DEF DepositsInv

LEMMA StepKeeps == ASSUME ~ Balanced, DepositsInv, [Next]_vars PROVE Keeps
<1>1. CASE UNCHANGED vars
  <2>1. DepositsTypeOK
    BY DEF DepositsInv
  <2>2. Grows /\ Adds
    BY <1>1, <2>1, StillAdds, StillGrows DEF Adds, vars
  <2> QED BY <1>1, <2>1, <2>2 DEF Keeps, DepositsTypeOK, vars
<1>2. ASSUME NEW s \in Server, ScanStep(s) PROVE Keeps
  BY <1>2, StartScanKeeps, ReadWindowKeeps, SetAsideKeeps, CallRecordKeeps, CallEachKeeps,
     VerifyRecordedKeeps, CallAdvanceKeeps, SaveLocalKeeps, EndScanKeeps DEF ScanStep
<1>3. ASSUME NEW s \in Server, LoseLocal(s) \/ Unanswered(s) PROVE Keeps
  BY <1>3, LoseLocalKeeps, UnansweredKeeps
<1>4. ASSUME NEW s \in Server, Judge(s) \/ CallJudge(s) \/ EndJudge(s) PROVE Keeps
  BY <1>4, JudgeKeeps, CallJudgeKeeps, EndJudgeKeeps
<1>5. ASSUME NEW c \in mempool, MineLate(c) PROVE Keeps
  BY <1>5, MineLateKeeps
<1>6. ASSUME NEW d \in Deposit, Reroute(d) \/ AbortDeposit(d) \/ ConfirmReviewed(d) PROVE Keeps
  BY <1>6, OwnerKeeps
<1>7. CASE Confirm
  BY <1>7, ConfirmKeeps
<1> QED BY <1>1, <1>2, <1>3, <1>4, <1>5, <1>6, <1>7 DEF Next

\* However many servers scan, stop and start again, and whatever is mined late: a scan
\* holds what it has read of its window, a call moves a checkpoint only past what is
\* handled, and what a poll takes for good is final.  A window is read from a node
\* that has it.
THEOREM DepositsInductive == ASSUME ~ Balanced PROVE Spec => []DepositsInv
<1>1. Init => DepositsInv
  BY InvariantInit
<1>2. DepositsInv /\ [Next]_vars => DepositsInv'
  BY StepKeeps, InvariantStays DEF Keeps
<1> QED BY <1>1, <1>2, PTL DEF Spec

\* The records, the files of the servers and the calls of both pollers keep their types.
THEOREM DepositsTypeCorrect == ASSUME ~ Balanced PROVE Spec => []DepositsTypeOK
<1>1. DepositsInv => DepositsTypeOK
  BY DEF DepositsInv
<1> QED BY <1>1, DepositsInductive, PTL

\* No checkpoint, on STRATO or in a server's file, passes a deposit that is neither
\* recorded nor set aside for an operator.
THEOREM NothingIsMissed == ASSUME ~ Balanced PROVE Spec => []NothingMissed
<1>1. DepositsInv => NothingMissed
  BY DEF DepositsInv
<1> QED BY <1>1, DepositsInductive, PTL

\* What is minted was rebased, as long as verification gets the factor.
THEOREM MintedAreRebased == ASSUME ~ Balanced, ~ Blind PROVE Spec => []MintedAmountsAreRebased
<1>1. DepositsInv => MintedAmountsAreRebased
  BY DepositsAssumption DEF DepositsInv, MintedInv, Final, MintedAmountsAreRebased, DepositsTypeOK
<1>2. Spec => []DepositsInv
  BY DepositsInductive
<1> QED BY <1>1, <1>2, PTL
=============================================================================
