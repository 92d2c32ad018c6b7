---------------------------- MODULE Service_proofs ----------------------------
(***************************************************************************)
(* Proofs about the parts that watch over an envelope (anchors, reminders, *)
(* signing checks, the verdict on a bundle), and that the service plays    *)
(* each of its parts as that part is specified.                            *)
(***************************************************************************)
EXTENDS Service, Access_proofs, WellFoundedInduction

-----------------------------------------------------------------------------
(* Anchors: the Bitcoin proof kept with a statement is a proof of that     *)
(* statement, whoever saves it last.                                       *)

Fits(statement, ots) ==
    ots.status # "none" => ots.of = statement /\ statement # 0

GrabType == [at : {"idle", "save"}, statement : 0..MaxStatements, ots : Proof]

\* What is about to be saved fits, and is about a statement that stays: the
\* row a link loaded has no proof of a statement, or the one of the row as it
\* is now; nothing runs before the artifact is there.
FitsInv ==
    /\ Fits(art.statement, art.stmtOts)
    /\ upgrading.attempt # 0 =>
         /\ art.there
         /\ Fits(upgrading.copy.statement, upgrading.copy.stmtOts)
         /\ upgrading.copy.statement # 0 => upgrading.copy.statement = art.statement
    /\ \A e \in Evaluator : grabs[e].at = "save" =>
         /\ art.there
         /\ grabs[e].statement # 0 /\ Fits(grabs[e].statement, grabs[e].ots)
    /\ links # {} => art.there

NInv == AnchorsTypeOK /\ FitsInv

-----------------------------------------------------------------------------
LEMMA ProofTypes ==
    /\ NoProof \in Proof
    /\ \A n \in 0..MaxStatements : Pending(n) \in Proof /\ Stamped(n) \subseteq Proof
    /\ \A p \in Proof : Upgraded(p) \subseteq Proof /\ Advanced(p) \subseteq Proof
    /\ 0 \in 0..MaxStatements /\ 1 \in 0..MaxStatements
<1>1. 0 \in 0..MaxStatements /\ 1 \in 0..MaxStatements
    BY AnchorsAssumption
<1> QED BY <1>1 DEF NoProof, Pending, Proof, Stamped, Upgraded, Advanced

LEMMA NoArtType == NoArt \in ArtRow
    BY ProofTypes DEF NoArt, ArtRow

\* A new run, or none, keeps the links in their range; before the first one
\* the artifact is there.
LEMMA ScheduleTypes ==
    ASSUME AnchorsTypeOK, NEW n \in 1..MaxAttempts, NEW rest \in SUBSET (1..MaxAttempts),
           ScheduleTimestampUpgrade(n, rest)
    PROVE  /\ links' \subseteq 1..MaxAttempts
           /\ keysUsed' \subseteq 1..MaxAttempts
           /\ anchorFaults' \in 0..MaxAnchorFaults
<1>1. /\ links' = rest \/ links' = rest \union {n}
      /\ keysUsed' = keysUsed \/ keysUsed' = keysUsed \union {n}
      /\ AnchorFault \/ NoAnchorFault
    BY Zenon DEF ScheduleTimestampUpgrade
<1>2. links' \subseteq 1..MaxAttempts /\ keysUsed' \subseteq 1..MaxAttempts
    BY <1>1, Zenon DEF AnchorsTypeOK
<1>3. anchorFaults' \in 0..MaxAnchorFaults
    BY <1>1, AnchorsAssumption DEF AnchorFault, NoAnchorFault, AnchorsTypeOK
<1> QED BY <1>2, <1>3

LEMMA NextLinkTypes ==
    ASSUME AnchorsTypeOK, NEW n \in 1..MaxAttempts, NextLink(n)
    PROVE  /\ links' \subseteq 1..MaxAttempts
           /\ keysUsed' \subseteq 1..MaxAttempts
           /\ anchorFaults' \in 0..MaxAnchorFaults
<1>1. links \ {n} \in SUBSET (1..MaxAttempts)
    BY DEF AnchorsTypeOK
<1>2. CASE n < MaxAttempts
    <2>1. n + 1 \in 1..MaxAttempts
        BY <1>2, AnchorsAssumption
    <2> QED BY <1>1, <1>2, <2>1, ScheduleTypes DEF NextLink
<1>3. CASE ~(n < MaxAttempts)
    BY <1>1, <1>3 DEF NextLink, NoAnchorFault, AnchorsTypeOK
<1> QED BY <1>2, <1>3

-----------------------------------------------------------------------------
LEMMA ReceiptStep ==
    ASSUME NInv, Receipt
    PROVE  NInv'
<1>1. PICK eml \in Stamped(0), saw \in BOOLEAN, keyObs \in Stamped(0), statement \in 0..1 :
        \E conf \in Confirmation(saw), ots \in Stamped(1) :
            AssembleSignatureArtifact(eml, saw, keyObs, conf, statement, ots)
    BY DEF Receipt
<1>2. PICK conf \in Confirmation(saw), ots \in Stamped(1) :
        AssembleSignatureArtifact(eml, saw, keyObs, conf, statement, ots)
    BY <1>1
<1>3. /\ eml \in Proof /\ keyObs \in Proof /\ ots \in Proof /\ statement \in 0..MaxStatements
    BY ProofTypes
<1>4. /\ conf[1] \in {"confirmed", "unconfirmed", "outage"}
      /\ conf[2] \in {"absent", "otherKey", "recovered", "live"}
    BY DEF Confirmation, ConfirmKeyAtSigning, NInv, AnchorsTypeOK
<1>5. /\ art' = [there |-> TRUE, eml |-> eml, tsStatus |-> "pending",
                 observed |-> saw, keyObs |-> keyObs, statement |-> statement,
                 stmtOts |-> ots, confirmation |-> conf[1]]
      /\ archive' = conf[2] /\ signed' = statement
      /\ UNCHANGED <<upgrading, grabs, age>>
      /\ ~art.there /\ (statement = 0 => ots = NoProof)
    BY <1>2 DEF AssembleSignatureArtifact
<1>6. art' \in ArtRow /\ art'.there /\ art'.statement = statement /\ art'.stmtOts = ots
    BY <1>3, <1>4, <1>5 DEF ArtRow
<1>7. /\ links' \subseteq 1..MaxAttempts /\ keysUsed' \subseteq 1..MaxAttempts
      /\ anchorFaults' \in 0..MaxAnchorFaults
    <2>1. 1 \in 1..MaxAttempts /\ links \in SUBSET (1..MaxAttempts)
        BY AnchorsAssumption DEF NInv, AnchorsTypeOK
    <2> QED BY <1>2, <2>1, ScheduleTypes DEF AssembleSignatureArtifact, NInv
<1>8. AnchorsTypeOK'
    BY <1>3, <1>4, <1>5, <1>6, <1>7 DEF NInv, AnchorsTypeOK
<1>9. Fits(statement, ots)
    <2>1. ots = NoProof \/ ots = Pending(1)
        BY DEF Stamped
    <2>2. statement = 0 \/ statement = 1
        OBVIOUS
    <2> QED BY <1>5, <2>1, <2>2 DEF Fits, NoProof, Pending
<1>10. FitsInv'
    BY <1>5, <1>6, <1>9 DEF NInv, FitsInv
<1> QED BY <1>8, <1>10 DEF NInv

LEMMA StartLinkStep ==
    ASSUME NInv, NEW n \in 1..MaxAttempts, StartLink(n)
    PROVE  NInv'
<1>1. CASE ArtifactHasPendingOts(art)
    <2>1. /\ upgrading' = [attempt |-> n, copy |-> art]
          /\ UNCHANGED <<links, art, keysUsed, grabs, signed, archive, age, anchorFaults>>
          /\ n \in links
        BY <1>1 DEF StartLink, NoAnchorFault
    <2>2. AnchorsTypeOK'
        BY <2>1, AnchorsAssumption DEF NInv, AnchorsTypeOK
    <2>3. FitsInv'
        BY <2>1 DEF NInv, FitsInv
    <2> QED BY <2>2, <2>3 DEF NInv
<1>2. CASE ~ArtifactHasPendingOts(art)
    BY <1>2 DEF StartLink, NoAnchorFault, NInv, AnchorsTypeOK, FitsInv
<1> QED BY <1>1, <1>2

\* A step of the chain that leaves the row alone.
LEMMA LinkEndsStep ==
    ASSUME NInv, UpgradeErrs \/ LinkDies
    PROVE  NInv'
<1>1. NotUpgrading \in [attempt : 0..MaxAttempts, copy : ArtRow] /\ NotUpgrading.attempt = 0
    BY NoArtType, AnchorsAssumption DEF NotUpgrading
<1>2. /\ upgrading' = NotUpgrading /\ upgrading.attempt # 0
      /\ UNCHANGED <<art, grabs, signed, archive, age>>
    BY DEF UpgradeErrs, LinkDies
<1>3. /\ links' \subseteq 1..MaxAttempts /\ keysUsed' \subseteq 1..MaxAttempts
      /\ anchorFaults' \in 0..MaxAnchorFaults
    <2>1. CASE UpgradeErrs
        <3>1. upgrading.attempt \in 1..MaxAttempts
            BY <1>2, AnchorsAssumption DEF NInv, AnchorsTypeOK
        <3> QED BY <2>1, <3>1, NextLinkTypes DEF UpgradeErrs, NInv
    <2>2. CASE LinkDies
        BY <2>2, AnchorsAssumption DEF LinkDies, AnchorFault, NInv, AnchorsTypeOK
    <2> QED BY <2>1, <2>2
<1>4. AnchorsTypeOK'
    BY <1>1, <1>2, <1>3 DEF NInv, AnchorsTypeOK
<1>5. FitsInv'
    BY <1>1, <1>2 DEF NInv, FitsInv
<1> QED BY <1>4, <1>5 DEF NInv

LEMMA UpgradeStep ==
    ASSUME NInv, Upgrade
    PROVE  NInv'
<1> DEFINE n == upgrading.attempt
           copy == upgrading.copy
<1>1. PICK p, q \in {"none", "pending", "complete"},
           eml \in {Pending(0), [status |-> "complete", of |-> 0]} :
        \E d \in 0..MaxStatements :
          UpgradeOneArtifact(eml, [status |-> p, of |-> 0], [status |-> q, of |-> d])
    BY DEF Upgrade
<1>2. PICK d \in 0..MaxStatements :
        UpgradeOneArtifact(eml, [status |-> p, of |-> 0], [status |-> q, of |-> d])
    BY <1>1
<1> DEFINE keyObs == [status |-> p, of |-> 0]
           ots == [status |-> q, of |-> d]
<1>t. /\ art \in ArtRow /\ copy \in ArtRow /\ n \in 0..MaxAttempts
    BY DEF NInv, AnchorsTypeOK
<1>3. /\ n # 0 /\ ots \in Advanced(copy.stmtOts) /\ art' = UpdateArtifactTimestamps(eml, keyObs, ots)
      /\ upgrading' = NotUpgrading /\ UNCHANGED <<grabs, signed, archive, age>>
      /\ EndOfChain(n) \/ NextLink(n)
    BY <1>2 DEF UpgradeOneArtifact
<1>4. eml \in Proof /\ keyObs \in Proof /\ ots \in Proof
    BY ProofTypes DEF Proof, Pending
<1>5. /\ art' \in ArtRow /\ art'.there = art.there /\ art'.statement = art.statement
      /\ art'.stmtOts = Coalesce(ots, art.stmtOts)
    <2>1. Coalesce(keyObs, art.keyObs) \in Proof /\ Coalesce(ots, art.stmtOts) \in Proof
        BY <1>4, <1>t DEF Coalesce, ArtRow
    <2> HIDE DEF keyObs, ots
    <2> DEFINE k == Coalesce(keyObs, art.keyObs)
               o == Coalesce(ots, art.stmtOts)
               c == IF eml.status = "complete" THEN "complete" ELSE art.tsStatus
    <2>2. art' = [art EXCEPT !.eml = eml, !.tsStatus = c, !.keyObs = k, !.stmtOts = o]
        BY <1>3 DEF UpdateArtifactTimestamps
    <2>3. k \in Proof /\ o \in Proof
        BY <2>1
    <2>4. c \in {"pending", "complete"}
        BY <1>t DEF ArtRow
    <2> HIDE DEF k, o, c
    <2>5. /\ art' \in ArtRow /\ art'.there = art.there /\ art'.statement = art.statement
          /\ art'.stmtOts = o
        BY <1>4, <1>t, <2>2, <2>3, <2>4 DEF ArtRow
    <2> QED BY <2>5 DEF o
\* What the link saves was pending in the row it loaded, of the statement the
\* row still has.
<1>6. Fits(art.statement, Coalesce(ots, art.stmtOts))
    <2>1. CASE copy.stmtOts.status = "pending"
        <3>1. ots.of = copy.stmtOts.of
            BY <1>3, <1>t, <2>1 DEF Advanced, Upgraded, ArtRow, Proof
        <3>2. copy.stmtOts.of = copy.statement /\ copy.statement # 0
            BY <1>3, <2>1 DEF NInv, FitsInv, Fits
        <3>3. copy.statement = art.statement
            BY <1>3, <3>2 DEF NInv, FitsInv
        <3> QED BY <3>1, <3>2, <3>3 DEF NInv, FitsInv, Fits, Coalesce
    <2>2. CASE copy.stmtOts.status # "pending"
        <3>1. ots = NoProof
            BY <1>3, <2>2 DEF Advanced
        <3> QED BY <3>1 DEF NInv, FitsInv, Coalesce
    <2> QED BY <2>1, <2>2
<1>7. /\ links' \subseteq 1..MaxAttempts /\ keysUsed' \subseteq 1..MaxAttempts
      /\ anchorFaults' \in 0..MaxAnchorFaults
    <2>1. n \in 1..MaxAttempts
        BY <1>3, <1>t, AnchorsAssumption
    <2>2. CASE NextLink(n)
        BY <2>1, <2>2, NextLinkTypes DEF NInv
    <2>3. CASE EndOfChain(n)
        BY <2>3 DEF EndOfChain, NoAnchorFault, NInv, AnchorsTypeOK
    <2> QED BY <1>3, <2>2, <2>3
<1>8. NotUpgrading \in [attempt : 0..MaxAttempts, copy : ArtRow] /\ NotUpgrading.attempt = 0
    BY NoArtType, AnchorsAssumption DEF NotUpgrading
<1>9. AnchorsTypeOK'
    BY <1>3, <1>5, <1>7, <1>8 DEF NInv, AnchorsTypeOK
<1>10. art.there
    BY <1>3 DEF NInv, FitsInv
<1>11. FitsInv'
    BY <1>3, <1>5, <1>6, <1>8, <1>10 DEF NInv, FitsInv
<1> QED BY <1>9, <1>11 DEF NInv

LEMMA CaptureStep ==
    ASSUME NInv, NEW e \in Evaluator, Capture(e)
    PROVE  NInv'
<1>1. PICK d \in 1..MaxStatements : \E o \in Stamped(d) : CaptureArchiveStatement(e, o)
    BY DEF Capture
<1>2. PICK ots \in Stamped(d) : CaptureArchiveStatement(e, ots)
    BY <1>1
<1> DEFINE g == [at |-> "save", statement |-> signed + 1, ots |-> ots]
<1>3. /\ signed' = signed + 1 /\ signed < MaxStatements /\ ots \in Stamped(signed + 1)
      /\ grabs' = [grabs EXCEPT ![e] = g] /\ art.there
      /\ UNCHANGED <<art, links, keysUsed, upgrading, archive, age, anchorFaults>>
    BY <1>2 DEF CaptureArchiveStatement, Serves, CapturableMissing, NoAnchorFault
<1>4. signed + 1 \in 0..MaxStatements /\ signed + 1 # 0
    BY <1>3, AnchorsAssumption DEF NInv, AnchorsTypeOK
<1>5. ots \in Proof /\ Fits(signed + 1, ots)
    <2>1. ots \in Proof
        BY <1>3, <1>4, ProofTypes
    <2>2. ots = NoProof \/ ots = Pending(signed + 1)
        BY <1>3 DEF Stamped
    <2> QED BY <1>4, <2>1, <2>2 DEF Fits, NoProof, Pending
<1>6. g \in GrabType
    BY <1>4, <1>5 DEF GrabType
<1>7. grabs' \in [Evaluator -> GrabType] /\ grabs'[e] = g /\ \A f \in Evaluator : f # e => grabs'[f] = grabs[f]
    <2>1. grabs \in [Evaluator -> GrabType]
        BY DEF NInv, AnchorsTypeOK, GrabType
    <2> HIDE DEF g
    <2> QED BY <1>3, <1>6, <2>1
<1>8. AnchorsTypeOK'
    BY <1>3, <1>4, <1>7 DEF NInv, AnchorsTypeOK, GrabType
<1>9. ASSUME NEW f \in Evaluator, grabs'[f].at = "save"
      PROVE  grabs'[f].statement # 0 /\ Fits(grabs'[f].statement, grabs'[f].ots)
    <2>1. CASE f = e
        BY <1>4, <1>5, <1>7, <2>1
    <2>2. CASE f # e
        BY <1>7, <1>9, <2>2 DEF NInv, FitsInv
    <2> QED BY <2>1, <2>2
<1>10. FitsInv'
    BY <1>3, <1>9 DEF NInv, FitsInv
<1> QED BY <1>8, <1>10 DEF NInv

LEMMA SaveStep ==
    ASSUME NInv, NEW e \in Evaluator, SaveStatement(e)
    PROVE  NInv'
<1>t. art \in ArtRow /\ grabs \in [Evaluator -> GrabType]
    BY DEF NInv, AnchorsTypeOK, GrabType
<1> DEFINE g == grabs[e]
<1>1. /\ g.at = "save" /\ art' = UpdateArtifactArchiveStatement(g)
      /\ grabs' = [grabs EXCEPT ![e] = NoGrab]
      /\ UNCHANGED <<links, keysUsed, upgrading, signed, archive, age, anchorFaults>>
    BY DEF SaveStatement, NoAnchorFault
<1>2. g.statement \in 0..MaxStatements /\ g.ots \in Proof
    BY <1>t DEF GrabType
<1>3. NoGrab \in GrabType /\ NoGrab.at = "idle"
    BY ProofTypes DEF NoGrab, GrabType
<1>4. /\ grabs' \in [Evaluator -> GrabType] /\ grabs'[e] = NoGrab
      /\ \A f \in Evaluator : f # e => grabs'[f] = grabs[f]
    BY <1>1, <1>3, <1>t
<1>5. /\ art' \in ArtRow /\ art'.there = art.there
      /\ Fits(art'.statement, art'.stmtOts)
      /\ art.statement # 0 => art'.statement = art.statement
    <2>1. CASE art.statement # 0
        BY <1>1, <1>t, <2>1 DEF UpdateArtifactArchiveStatement, NInv, FitsInv
    <2>2. CASE art.statement = 0
        <3> DEFINE s == g.statement
                   o == g.ots
        <3>1. art' = [art EXCEPT !.statement = s, !.stmtOts = o]
            BY <1>1, <2>2 DEF UpdateArtifactArchiveStatement
        <3>2. Fits(s, o) /\ s \in 0..MaxStatements /\ o \in Proof
            BY <1>1, <1>2 DEF NInv, FitsInv
        <3> HIDE DEF s, o
        <3>3. art' \in ArtRow /\ art'.there = art.there /\ art'.statement = s /\ art'.stmtOts = o
            BY <1>t, <3>1, <3>2 DEF ArtRow
        <3> QED BY <2>2, <3>2, <3>3
    <2> QED BY <2>1, <2>2
<1>6. AnchorsTypeOK'
    BY <1>1, <1>4, <1>5 DEF NInv, AnchorsTypeOK, GrabType
<1>7. ASSUME NEW f \in Evaluator, grabs'[f].at = "save"
      PROVE  art.there /\ grabs'[f].statement # 0 /\ Fits(grabs'[f].statement, grabs'[f].ots)
    BY <1>3, <1>4, <1>7 DEF NInv, FitsInv
<1>8. FitsInv'
    BY <1>1, <1>5, <1>7 DEF NInv, FitsInv
<1> QED BY <1>6, <1>8 DEF NInv

\* The archive, the clock and the sweep do not touch statements or proofs.
LEMMA RestStep ==
    ASSUME NInv, ArchiveObserves \/ RowAges \/ Sweep
    PROVE  NInv'
<1>1. CASE ArchiveObserves \/ RowAges
    BY <1>1 DEF ArchiveObserves, RowAges, NoAnchorFault, NInv, AnchorsTypeOK, FitsInv
<1>2. CASE Sweep
    <2>1. PICK conf \in Confirmation(art.observed) : RunArchiveReconciliation(conf)
        BY <1>2 DEF Sweep
    <2>2. /\ conf[1] \in {"confirmed", "unconfirmed", "outage"}
          /\ conf[2] \in {"absent", "otherKey", "recovered", "live"}
        BY DEF Confirmation, ConfirmKeyAtSigning, NInv, AnchorsTypeOK
    <2>3. /\ art' = [art EXCEPT !.confirmation = conf[1]] /\ archive' = conf[2]
          /\ UNCHANGED <<links, keysUsed, upgrading, grabs, signed, age, anchorFaults>>
        BY <2>1 DEF RunArchiveReconciliation, UpdateArtifactArchiveConfirmation,
           NoAnchorFault
    <2>4. /\ art' \in ArtRow /\ art'.there = art.there
          /\ art'.statement = art.statement /\ art'.stmtOts = art.stmtOts
        BY <2>2, <2>3 DEF NInv, AnchorsTypeOK, ArtRow
    <2> QED BY <2>2, <2>3, <2>4 DEF NInv, AnchorsTypeOK, FitsInv
<1> QED BY <1>1, <1>2

-----------------------------------------------------------------------------
LEMMA AnchorsStart == AnchorsInit => NInv
<1> SUFFICES ASSUME AnchorsInit PROVE NInv
    OBVIOUS
<1>1. NoArt \in ArtRow /\ NoProof \in Proof /\ 0 \in 0..MaxStatements
    BY NoArtType, ProofTypes
<1>2. AnchorsTypeOK
    BY <1>1, AnchorsAssumption DEF AnchorsInit, AnchorsTypeOK, NotUpgrading, NoGrab
<1>3. FitsInv
    BY DEF AnchorsInit, FitsInv, Fits, NoArt, NoProof, NotUpgrading, NoGrab
<1> QED BY <1>2, <1>3 DEF NInv

\* NInv is an invariant of the anchors.
THEOREM AnchorsInvariant == AnchorsSpec => []NInv
<1>1. NInv /\ [AnchorsNext]_anchorVars => NInv'
    <2> SUFFICES ASSUME NInv, [AnchorsNext]_anchorVars PROVE NInv'
        OBVIOUS
    <2>1. CASE UNCHANGED anchorVars
        BY <2>1 DEF anchorVars, NInv, AnchorsTypeOK, FitsInv
    <2>2. ASSUME NEW n \in 1..MaxAttempts, StartLink(n) PROVE NInv'
        BY <2>2, StartLinkStep
    <2>3. ASSUME NEW e \in Evaluator, Capture(e) \/ SaveStatement(e) PROVE NInv'
        BY <2>3, CaptureStep, SaveStep
    <2>4. CASE Receipt \/ Upgrade \/ UpgradeErrs \/ LinkDies
        BY <2>4, ReceiptStep, UpgradeStep, LinkEndsStep
    <2>5. CASE ArchiveObserves \/ RowAges \/ Sweep
        BY <2>5, RestStep
    <2> QED BY <2>1, <2>2, <2>3, <2>4, <2>5 DEF AnchorsNext
<1> QED BY <1>1, AnchorsStart, PTL DEF AnchorsSpec

\* Every variable of the anchors keeps its type.
THEOREM AnchorTypes == AnchorsSpec => []AnchorsTypeOK
<1>1. NInv => AnchorsTypeOK
    BY DEF NInv
<1> QED BY <1>1, AnchorsInvariant, PTL

\* However many evaluations capture a statement while a link of the chain
\* works on a row it read before, the proof kept is of the statement kept.
THEOREM ProofIsOfStatement == AnchorsSpec => []AnchorFitsStatement
<1>1. NInv => AnchorFitsStatement
    BY DEF NInv, FitsInv, Fits, AnchorFitsStatement
<1> QED BY <1>1, AnchorsInvariant, PTL

-----------------------------------------------------------------------------
(* Reminders and bounces: a delivery problem nobody was told of has a run  *)
(* that will look again.                                                   *)

\* The notice goes with the mark on the row.
NoticeInv == row.id # 0 /\ ~row.bad => notices = 0

\* The creator's call that sends or edits works on the row that is there; the
\* first request of a row finds no run booked under its id, and the envelope
\* waits for no seal while the row pends, unless it was overtaken by one.
HandInv ==
    /\ hand.at \in {"send", "edit", "resend"} => row.id # 0 /\ hand.copy.id = row.id
    /\ hand.at = "send" => \A r \in booked : r.id < row.id
    /\ hand.at = "send" /\ Pends /\ ~overtaken => phase \in {"active", "closed"}

\* A run is what the runner says it is, and is due until it has ended.
RunnerInv == runner.at # "idle" => runner.at = runner.run.kind

\* An envelope whose signer pends on an unclear request, added while no ending
\* run was parking it, is active, with the backstop due, or closed for good.
WatchInv ==
    Pends /\ ~row.bad /\ asked = "unclear" /\ nudgeFaults = 0 /\ ~overtaken =>
        \/ phase = "closed"
        \/ phase = "active" /\ Backstop(row.id) \in due

WInv == NudgesTypeOK /\ NoticeInv /\ HandInv /\ RunnerInv /\ WatchInv

-----------------------------------------------------------------------------
LEMMA RunTypes ==
    /\ \A i \in 1..MaxRows : Backstop(i) \in Run
    /\ \A i \in 1..MaxRows, n \in Reminders : Reminder(i, n) \in Run
    /\ \A r \in Run : r.id \in 1..MaxRows
    /\ \A i \in 0..MaxRows : MaxReminders \in Nat => NewRow(i) \in SignerRow
  BY DEF Backstop, Reminder, Run, Reminders, NewRow, SignerRow

LEMMA RowUpdates ==
  ASSUME NEW r \in SignerRow
  PROVE  /\ [r EXCEPT !.bad = TRUE] \in SignerRow
         /\ [r EXCEPT !.bad = TRUE].id = r.id
         /\ [r EXCEPT !.bad = TRUE].status = r.status
         /\ [r EXCEPT !.bad = TRUE].bad
         /\ r.count < MaxReminders =>
              /\ [r EXCEPT !.count = @ + 1] \in SignerRow
              /\ [r EXCEPT !.count = @ + 1].id = r.id
              /\ [r EXCEPT !.count = @ + 1].status = r.status
              /\ [r EXCEPT !.count = @ + 1].bad = r.bad
<1>1. r.count < MaxReminders => [r EXCEPT !.count = @ + 1] \in SignerRow
  BY NudgesAssumption DEF SignerRow
<1> QED BY <1>1 DEF SignerRow

LEMMA MarkKeeps ==
  ASSUME NudgesTypeOK, NoticeInv, MarkUndeliverable
  PROVE  /\ row' \in SignerRow
         /\ row'.id = row.id /\ row'.status = row.status
         /\ row'.bad \/ ~Pends
         /\ notices' \in 0..1
         /\ NoticeInv'
<1>1. CASE Marks
  <2>1. row' = [row EXCEPT !.bad = TRUE] /\ notices' = notices + 1
    BY <1>1 DEF MarkUndeliverable
  <2>2. notices = 0
    BY <1>1 DEF Marks, Pends, NoticeInv
  <2>3. row \in SignerRow
    BY DEF NudgesTypeOK
  <2>4. row' \in SignerRow /\ row'.id = row.id /\ row'.status = row.status
    BY <2>1, <2>3, RowUpdates
  <2>5. row'.bad
    BY <2>1, <2>3, RowUpdates
  <2>6. notices' = 1
    BY <2>1, <2>2
  <2> QED BY <2>4, <2>5, <2>6 DEF NoticeInv
<1>2. CASE ~Marks
  BY <1>2 DEF MarkUndeliverable, Marks, Pends, NudgesTypeOK, SignerRow, NoticeInv
<1> QED BY <1>1, <1>2

LEMMA CountKeeps ==
  ASSUME NudgesTypeOK, NEW i
  PROVE  /\ Counted(i) \in SignerRow
         /\ Counted(i).id = row.id /\ Counted(i).status = row.status /\ Counted(i).bad = row.bad
  BY RowUpdates DEF Counted, NudgesTypeOK

LEMMA BookKeeps ==
  ASSUME NudgesTypeOK, NEW runs \in SUBSET Run, Book(runs)
  PROVE  /\ due' \subseteq Run /\ booked' \subseteq Run
         /\ nudgeFaults' \in 0..MaxNudgeFaults
         /\ nudgeFaults' = 0 => nudgeFaults = 0 /\ due' = due \union (runs \ booked)
  BY NudgesAssumption DEF Book, NudgeFault, NoNudgeFault, NudgesTypeOK

-----------------------------------------------------------------------------
LEMMA NudgesStart == NudgesInit => WInv
<1> SUFFICES ASSUME NudgesInit PROVE WInv
  OBVIOUS
<1>1. NoRow \in SignerRow /\ NoRow.id = 0
  BY RunTypes, NudgesAssumption DEF NoRow, NewRow
<1>2. Resting.run \in Run /\ Resting.at = "idle"
  BY RunTypes, NudgesAssumption DEF Resting
<1>3. NudgesTypeOK
  <2>1. hand \in [at : {"idle", "send", "edit", "resend", "remind"}, copy : SignerRow]
    BY <1>1 DEF NudgesInit, HandIdle
  <2>2. runner \in [at : {"idle", "delivery_backstop", "reminder_send"}, run : Run]
    BY <1>2 DEF NudgesInit, Resting
  <2>3. row \in SignerRow /\ bounces \in BOOLEAN
    BY <1>1 DEF NudgesInit
  <2>4. notices \in 0..1 /\ nudgeFaults \in 0..MaxNudgeFaults
    BY NudgesAssumption DEF NudgesInit
  <2> QED BY <2>1, <2>2, <2>3, <2>4 DEF NudgesInit, NudgesTypeOK
<1>4. NoticeInv /\ HandInv /\ RunnerInv /\ WatchInv
  BY <1>1, <1>2 DEF NudgesInit, NoticeInv, HandInv, RunnerInv, WatchInv, Pends, HandIdle
<1> QED BY <1>3, <1>4 DEF WInv

LEMMA CreatorStep ==
  ASSUME WInv,
         \/ AddSigner \/ BeginEditRow \/ UpdateSignerForEdit \/ DeleteRow \/ BeginRemind
         \/ \E o \in {"accepted", "refused", "unclear"} : Resend(o)
         \/ \E ok \in BOOLEAN : RemindByHand(ok)
  PROVE  WInv'
<1> USE DEF WInv, NoNudgeFault, NoPark, Afresh
<1>1. CASE AddSigner
  <2>1. PICK i \in 1..MaxRows :
          /\ \A r \in booked : r.id < i
          /\ row' = NewRow(i) /\ hand' = [at |-> "send", copy |-> NewRow(i)]
    BY <1>1 DEF AddSigner
  <2>4. parks' \in BOOLEAN /\ overtaken' \in BOOLEAN
    BY <1>1 DEF AddSigner, NudgesTypeOK
  <2>2. NudgesTypeOK'
    <3>1. row' \in SignerRow /\ hand' \in [at : {"send"}, copy : SignerRow]
      BY <2>1, RunTypes, NudgesAssumption
    <3>2. /\ phase' = "active" /\ asked' = "none" /\ notices' = 0
          /\ UNCHANGED <<due, booked, runner, bounces, nudgeFaults>>
      BY <1>1 DEF AddSigner
    <3> QED BY <2>4, <3>1, <3>2 DEF NudgesTypeOK
  <2>3. NoticeInv' /\ HandInv' /\ RunnerInv' /\ WatchInv'
    BY <1>1, <2>1 DEF AddSigner, NoticeInv, HandInv, RunnerInv, WatchInv, NewRow, NudgesTypeOK
  <2> QED BY <2>2, <2>3
<1>2. CASE BeginEditRow
  BY <1>2 DEF BeginEditRow, NudgesTypeOK, NoticeInv, HandInv, RunnerInv, WatchInv, Pends
<1>3. CASE UpdateSignerForEdit
  <2>1. row' \in SignerRow /\ row'.id = row.id /\ row'.bad = FALSE
    <3>1. row.id \in 0..MaxRows /\ NewRow(row.id) \in SignerRow
      BY RunTypes, NudgesAssumption DEF NudgesTypeOK, SignerRow
    <3>2. PICK st \in {"pending", "superseded"} : row' = [NewRow(row.id) EXCEPT !.status = st]
      BY <1>3 DEF UpdateSignerForEdit
    <3> QED BY <3>1, <3>2 DEF NewRow, SignerRow
  <2>2. parks' \in BOOLEAN /\ overtaken' \in BOOLEAN
    BY <1>3 DEF UpdateSignerForEdit, NudgesTypeOK
  <2>3. /\ notices' = 0 /\ asked' = "none" /\ hand.at = "edit"
        /\ hand' = [hand EXCEPT !.at = "resend"] /\ row.id = hand.copy.id
        /\ UNCHANGED <<phase, due, booked, runner, bounces, nudgeFaults>>
    BY <1>3 DEF UpdateSignerForEdit
  <2>4. NudgesTypeOK'
    BY <2>1, <2>2, <2>3 DEF NudgesTypeOK
  <2> QED
    BY <2>1, <2>3, <2>4 DEF NudgesTypeOK, NoticeInv, HandInv, RunnerInv, WatchInv
<1>4. CASE DeleteRow
  <2>1. parks' \in BOOLEAN /\ overtaken' \in BOOLEAN
    BY <1>4 DEF DeleteRow, NudgesTypeOK
  <2>2. row' = NoRow /\ NoRow \in SignerRow /\ NoRow.id = 0
    BY <1>4, RunTypes, NudgesAssumption DEF DeleteRow, NoRow, NewRow
  <2>3. /\ asked' = "none" /\ hand.at = "idle"
        /\ UNCHANGED <<phase, due, booked, runner, hand, bounces, notices, nudgeFaults>>
    BY <1>4 DEF DeleteRow
  <2>4. NudgesTypeOK'
    BY <2>1, <2>2, <2>3 DEF NudgesTypeOK
  <2> QED BY <2>2, <2>3, <2>4 DEF NoticeInv, HandInv, RunnerInv, WatchInv, Pends
<1>5. CASE BeginRemind
  BY <1>5 DEF BeginRemind, NudgesTypeOK, NoticeInv, HandInv, RunnerInv, WatchInv, Pends
<1>6. ASSUME NEW o \in {"accepted", "refused", "unclear"}, Resend(o) PROVE WInv'
  <2>1. HandIdle.copy \in SignerRow /\ HandIdle.at = "idle"
    BY RunTypes, NudgesAssumption DEF HandIdle, NoRow
  <2>2. NudgesTypeOK'
    BY <1>6, <2>1 DEF Resend, NudgesTypeOK, HandIdle
  <2> QED BY <1>6, <2>1, <2>2 DEF Resend, NoticeInv, HandInv, RunnerInv, WatchInv
<1>7. ASSUME NEW ok \in BOOLEAN, RemindByHand(ok) PROVE WInv'
  <2>1. row' \in SignerRow /\ row'.id = row.id /\ row'.status = row.status /\ row'.bad = row.bad
    BY <1>7, CountKeeps DEF RemindByHand, NudgesTypeOK
  <2>2. HandIdle.copy \in SignerRow /\ HandIdle.at = "idle"
    BY RunTypes, NudgesAssumption DEF HandIdle, NoRow
  <2> QED
    BY <1>7, <2>1, <2>2
       DEF RemindByHand, NudgesTypeOK, NoticeInv, HandInv, RunnerInv, WatchInv, Pends, HandIdle
<1> QED BY <1>1, <1>2, <1>3, <1>4, <1>5, <1>6, <1>7

LEMMA SendStep ==
  ASSUME WInv, NEW o \in {"accepted", "refused", "unclear"}, SendRequest(o)
  PROVE  WInv'
<1> DEFINE i    == hand.copy.id
           all  == (IF o = "unclear" THEN ScheduleDeliveryBackstop(i) ELSE {})
                     \union ScheduleSignerReminders(i)
<1>1. i = row.id /\ i \in 1..MaxRows /\ \A r \in booked : r.id < i
  BY DEF WInv, HandInv, SendRequest, NudgesTypeOK, SignerRow
<1>2. PICK runs \in {all, {}} : Book(runs) /\ (o # "refused" => runs = all)
  BY DEF SendRequest
<1>9. runs \in SUBSET Run
  BY <1>1, <1>2, RunTypes DEF ScheduleDeliveryBackstop, ScheduleSignerReminders
<1>3. /\ due' \subseteq Run /\ booked' \subseteq Run
      /\ nudgeFaults' \in 0..MaxNudgeFaults
      /\ nudgeFaults' = 0 => nudgeFaults = 0 /\ due' = due \union (runs \ booked)
  BY <1>2, <1>9, BookKeeps DEF WInv
<1>4. /\ row' \in SignerRow /\ row'.id = row.id /\ notices' \in 0..1 /\ NoticeInv'
      /\ o # "refused" => row' = row
  BY MarkKeeps DEF SendRequest, WInv, NudgesTypeOK, NoticeInv
<1>5. hand' = HandIdle /\ HandIdle.copy \in SignerRow /\ HandIdle.at = "idle"
  BY RunTypes, NudgesAssumption DEF SendRequest, HandIdle, NoRow
<1>6. NudgesTypeOK'
  BY <1>3, <1>4, <1>5 DEF WInv, SendRequest, NudgesTypeOK, HandIdle, NoPark
<1>7. WatchInv'
  <2>1. CASE o = "unclear" /\ nudgeFaults' = 0 /\ Pends'
    <3>1. Backstop(i) \in runs /\ Backstop(i) \notin booked
      BY <1>1, <1>2, <2>1 DEF ScheduleDeliveryBackstop, Backstop
    <3>2. Backstop(row'.id) \in due'
      BY <1>1, <1>3, <1>4, <2>1, <3>1
    <3>3. phase' = phase /\ Pends
      BY <1>4, <2>1, MarkKeeps DEF SendRequest, WInv, Pends
    <3>4. overtaken' = overtaken /\ (overtaken \/ phase \in {"active", "closed"})
      BY <3>3 DEF SendRequest, WInv, HandInv, NoPark
    <3> QED BY <3>2, <3>3, <3>4 DEF WatchInv
  <2>2. CASE ~(o = "unclear" /\ nudgeFaults' = 0 /\ Pends')
    BY <2>2 DEF WatchInv, SendRequest
  <2> QED BY <2>1, <2>2
<1> QED BY <1>4, <1>5, <1>6, <1>7 DEF WInv, HandInv, RunnerInv, SendRequest

LEMMA RunnerStep ==
  ASSUME WInv,
         \/ \E r \in due : StartRun(r)
         \/ FireBackstop \/ RunnerDies
         \/ \E ok \in BOOLEAN : FireReminder(ok)
  PROVE  WInv'
<1> USE DEF WInv, NoNudgeFault, NoPark, Afresh
<1>1. ASSUME NEW r \in due, StartRun(r) PROVE WInv'
  <2>1. NudgesTypeOK' /\ NoticeInv' /\ HandInv' /\ RunnerInv'
    <3>1. UNCHANGED <<phase, row, booked, hand, asked, bounces, notices, parks, overtaken,
                      nudgeFaults>>
      BY <1>1 DEF StartRun
    <3>2. due' \subseteq due /\ (runner' = runner \/ runner' = [at |-> r.kind, run |-> r])
      BY <1>1 DEF StartRun
    <3>3. r \in Run /\ r.kind \in {"delivery_backstop", "reminder_send"}
      BY DEF NudgesTypeOK, Run
    <3>4. NudgesTypeOK' /\ RunnerInv'
      BY <3>1, <3>2, <3>3 DEF NudgesTypeOK, RunnerInv
    <3> QED BY <3>1, <3>4 DEF NoticeInv, HandInv, Pends
  <2>2. CASE Skips(r)
    <3>1. phase = "active" /\ Pends /\ ~row.bad => r # Backstop(row.id)
      BY <2>2 DEF Skips, Pends, Backstop
    <3>2. due' = due \ {r} /\ UNCHANGED <<phase, row, asked, overtaken, nudgeFaults>>
      BY <1>1, <2>2 DEF StartRun
    <3> QED BY <2>1, <3>1, <3>2 DEF WatchInv, Pends
  <2>3. CASE ~Skips(r)
    <3>1. UNCHANGED <<due, phase, row, asked, overtaken, nudgeFaults>>
      BY <1>1, <2>3 DEF StartRun
    <3> QED BY <2>1, <3>1 DEF WatchInv, Pends
  <2> QED BY <2>1, <2>2, <2>3
<1>2. CASE FireBackstop
  <2>1. /\ row' \in SignerRow /\ row'.id = row.id /\ row'.status = row.status
        /\ row'.bad \/ ~Pends
        /\ notices' \in 0..1 /\ NoticeInv'
    BY <1>2, MarkKeeps DEF FireBackstop
  <2>2. Resting.run \in Run /\ Resting.at = "idle"
    BY RunTypes, NudgesAssumption DEF Resting
  <2> QED BY <1>2, <2>1, <2>2
       DEF FireBackstop, NudgesTypeOK, HandInv, RunnerInv, WatchInv, Pends, Resting
<1>3. CASE RunnerDies
  BY <1>3, RunTypes, NudgesAssumption
     DEF RunnerDies, NudgeFault, NudgesTypeOK, NoticeInv, HandInv, RunnerInv, WatchInv, Pends, Resting
<1>4. ASSUME NEW ok \in BOOLEAN, FireReminder(ok) PROVE WInv'
  <2>1. row' \in SignerRow /\ row'.id = row.id /\ row'.status = row.status /\ row'.bad = row.bad
    BY <1>4, CountKeeps DEF FireReminder, NudgesTypeOK
  <2>2. Resting.run \in Run /\ Resting.at = "idle"
    BY RunTypes, NudgesAssumption DEF Resting
  <2>3. Backstop(row.id) # runner.run
    BY <1>4 DEF FireReminder, RunnerInv, Backstop
  <2> QED BY <1>4, <2>1, <2>2, <2>3
       DEF FireReminder, NudgesTypeOK, NoticeInv, HandInv, RunnerInv, WatchInv, Pends, Resting
<1> QED BY <1>1, <1>2, <1>3, <1>4

LEMMA OutsideStep ==
  ASSUME WInv,
         \/ SignerSigns \/ BeginPark \/ \E ok \in BOOLEAN : Park(ok)
         \/ HandleBounce \/ Closes \/ UNCHANGED nudgeVars
  PROVE  WInv'
<1> USE DEF WInv, NoNudgeFault, NoPark, Afresh
<1>1. CASE SignerSigns
  <2>1. parks' \in BOOLEAN /\ overtaken' \in BOOLEAN
    BY <1>1 DEF SignerSigns, NudgesTypeOK
  <2>2. row' \in SignerRow /\ row'.id = row.id /\ row'.bad = row.bad /\ row'.status = "signed"
    BY <1>1 DEF SignerSigns, NudgesTypeOK, SignerRow
  <2>3. UNCHANGED <<phase, due, booked, runner, hand, asked, bounces, notices, nudgeFaults>>
    BY <1>1 DEF SignerSigns
  <2>4. NudgesTypeOK'
    BY <2>1, <2>2, <2>3 DEF NudgesTypeOK
  <2>5. NoticeInv' /\ RunnerInv'
    BY <2>2, <2>3 DEF NoticeInv, RunnerInv, Pends
  <2>6. HandInv' /\ WatchInv'
    BY <2>2, <2>3 DEF HandInv, WatchInv, Pends
  <2> QED BY <2>4, <2>5, <2>6
<1>2. CASE HandleBounce
  <2>1. CASE phase = "active"
    <3>1. /\ row' \in SignerRow /\ row'.id = row.id /\ row'.status = row.status
          /\ row'.bad \/ ~Pends
          /\ notices' \in 0..1 /\ NoticeInv'
      BY <1>2, <2>1, MarkKeeps DEF HandleBounce
    <3> QED BY <1>2, <3>1 DEF HandleBounce, NudgesTypeOK, HandInv, RunnerInv, WatchInv, Pends
  <2>2. CASE phase # "active"
    BY <1>2, <2>2
       DEF HandleBounce, NudgesTypeOK, NoticeInv, HandInv, RunnerInv, WatchInv, Pends
  <2> QED BY <2>1, <2>2
<1>3. CASE Closes
  BY <1>3 DEF Closes, NudgesTypeOK, NoticeInv, HandInv, RunnerInv, WatchInv
<1>4. CASE UNCHANGED nudgeVars
  BY <1>4 DEF nudgeVars, NudgesTypeOK, NoticeInv, HandInv, RunnerInv, WatchInv, Pends
<1>5. CASE BeginPark
  BY <1>5 DEF BeginPark, NudgesTypeOK, NoticeInv, HandInv, RunnerInv, WatchInv, Pends
<1>6. ASSUME NEW ok \in BOOLEAN, Park(ok) PROVE WInv'
  <2>1. /\ UNCHANGED <<row, due, booked, runner, hand, asked, bounces, notices, nudgeFaults>>
        /\ parks' = FALSE
        /\ phase' = phase \/ phase' = "awaiting_seal"
        /\ overtaken' = (overtaken \/ (phase' # phase /\ Pends))
    BY <1>6 DEF Park
  <2>2. NudgesTypeOK' /\ NoticeInv' /\ RunnerInv'
    BY <2>1 DEF NudgesTypeOK, NoticeInv, RunnerInv, Pends
  <2>3. HandInv' /\ WatchInv'
    <3>1. CASE phase' = phase
      BY <2>1, <3>1 DEF HandInv, WatchInv, Pends
    <3>2. CASE phase' # phase
      BY <2>1, <3>2 DEF HandInv, WatchInv, Pends
    <3> QED BY <3>1, <3>2
  <2> QED BY <2>2, <2>3
<1> QED BY <1>1, <1>2, <1>3, <1>4, <1>5, <1>6

\* Every part of the invariant, from the start on.
LEMMA NudgesInvariant == NudgesSpec => []WInv
<1>1. WInv /\ [NudgesNext]_nudgeVars => WInv'
  BY CreatorStep, SendStep, RunnerStep, OutsideStep DEF NudgesNext, Outcomes
<1> QED BY <1>1, NudgesStart, PTL DEF NudgesSpec

\* deliveryBackstop.ts: for any number of rows, reminders and faults, a signer
\* whose signing request failed without a clear answer keeps a backstop run due
\* until the envelope closes, the signer signs, is marked or is asked again;
\* only one added while an ending run parks the envelope may be left out.
THEOREM UnclearWatched == NudgesSpec => []UnclearIsWatched
<1>1. WInv => UnclearIsWatched
  BY DEF WInv, WatchInv, UnclearIsWatched
<1> QED BY <1>1, NudgesInvariant, PTL

-----------------------------------------------------------------------------
(* The verdict on a bundle: whatever answers are folded in, what the       *)
(* bundle itself proves is not taken back.                                 *)

Screen == [status : {"idle", "verifying", "done", "error"}, file : File \union {NoFile},
           verdict : {NoVerdict} \union [Signatory -> SignerVerdict],
           asked : File \union {NoFile}]

(* What every verdict on show has of a signer: nothing that time may still *)
(* settle counts as failed, and a statement in the bundle that the key     *)
(* answers are about keeps its word.                                       *)
Founded(f, v, s) ==
  /\ v[s].durable # "failed" /\ v[s].valid # "failed"
  /\ bundle[f][s].statement => v[s].key = "confirmed"

VInv ==
  /\ bundle \in [File -> [Signatory -> Kinds]] /\ sound \subseteq File
  /\ screen \in Screen
  /\ stored \in File \union {NoFile}
  /\ loaded \in 0..MaxLoads
  /\ \A l \in loads : l.file \in File
  /\ \A q \in folds : q.file \in File
  /\ screen.verdict # NoVerdict => screen.file \in File

FoundedInv ==
  screen.verdict # NoVerdict => \A s \in Signatory : Founded(screen.asked, screen.verdict, s)
-----------------------------------------------------------------------------
LEMMA Durability ==
  ASSUME NEW ev, NEW anchor
  PROVE  LET d == ClassifyTimestampDurability(ev, anchor)
         IN  d \in Dimension /\ d # "failed" /\ (d = "pending" \/ anchor = "confirmed")
<1>1. CASE anchor # "confirmed" \/ ~ev.tsr
  BY <1>1 DEF ClassifyTimestampDurability, Dimension
<1>2. CASE ~(anchor # "confirmed" \/ ~ev.tsr)
  BY <1>2 DEF ClassifyTimestampDurability, Dimension
<1> QED BY <1>1, <1>2

(* Folding answers in gives a verdict, and no signer worse off than the    *)
(* answers themselves.                                                     *)
LEMMA AppliedVerdict ==
  ASSUME NEW f \in File, NEW verdict \in [Signatory -> SignerVerdict], NEW bitcoin, NEW keys,
         bundle \in [File -> [Signatory -> Kinds]],
         \A s \in DOMAIN bitcoin : bitcoin[s] \in {"absent", "pending", "confirmed"},
         \A s \in DOMAIN keys : keys[s].listed \in BOOLEAN /\ keys[s].key \in Dimension
  PROVE  LET v == ApplyOnlineConfirmations(f, verdict, bitcoin, keys)
         IN  /\ v \in [Signatory -> SignerVerdict]
             /\ \A s \in Signatory :
                  /\ v[s].durable # "failed"
                  /\ v[s].durable = "pending" \/ v[s].anchor = "confirmed"
                  /\ s \notin DOMAIN bitcoin => v[s].anchor = verdict[s].anchor
                  /\ v[s].valid # "failed" \/ v[s].valid = verdict[s].valid
                  /\ IF s \in DOMAIN keys THEN v[s].key = keys[s].key
                                          ELSE v[s].key = verdict[s].key
<1> DEFINE v == ApplyOnlineConfirmations(f, verdict, bitcoin, keys)
<1> SUFFICES ASSUME NEW s \in Signatory
             PROVE  /\ v[s] \in SignerVerdict
                    /\ v[s].durable # "failed"
                    /\ v[s].durable = "pending" \/ v[s].anchor = "confirmed"
                    /\ s \notin DOMAIN bitcoin => v[s].anchor = verdict[s].anchor
                    /\ v[s].valid # "failed" \/ v[s].valid = verdict[s].valid
                    /\ IF s \in DOMAIN keys THEN v[s].key = keys[s].key
                                            ELSE v[s].key = verdict[s].key
  BY DEF ApplyOnlineConfirmations
<1> DEFINE ev == bundle[f][s]
           anchor == IF s \in DOMAIN bitcoin THEN bitcoin[s] ELSE verdict[s].anchor
           durable == ClassifyTimestampDurability(ev, anchor)
           listed == IF s \in DOMAIN keys THEN keys[s].listed ELSE verdict[s].listed
           key == IF s \in DOMAIN keys THEN keys[s].key ELSE verdict[s].key
           valid == IF s \in DOMAIN keys THEN ValidityFromWindow(ev, keys[s].key, keys[s].live)
                                         ELSE verdict[s].valid
<1>1. v[s] = [anchor |-> anchor, durable |-> durable, listed |-> listed, key |-> key,
              valid |-> valid]
  BY DEF ApplyOnlineConfirmations
<1>2. verdict[s] \in SignerVerdict
  OBVIOUS
<1>3. anchor \in {"absent", "pending", "confirmed"} /\ listed \in BOOLEAN /\ key \in Dimension
  BY <1>2 DEF SignerVerdict
<1>4. durable \in Dimension /\ durable # "failed" /\ (durable = "pending" \/ anchor = "confirmed")
  BY Durability
<1>5. valid \in Dimension /\ (valid # "failed" \/ valid = verdict[s].valid)
  BY <1>2 DEF ValidityFromWindow, Dimension, SignerVerdict
<1> HIDE DEF v, anchor, durable, listed, key, valid
<1>6. v[s] \in SignerVerdict
  BY <1>1, <1>3, <1>4, <1>5 DEF SignerVerdict
<1>7. v[s].anchor = anchor /\ v[s].durable = durable /\ v[s].key = key /\ v[s].valid = valid
  BY <1>1
<1> QED BY <1>4, <1>5, <1>6, <1>7 DEF anchor, key

(* What verification offline says: nothing is anchored yet, and a          *)
(* statement alone confirms a key.                                         *)
LEMMA OfflineVerdict ==
  ASSUME NEW f \in File, bundle \in [File -> [Signatory -> Kinds]]
  PROVE  /\ VerifyBundle(f) \in [Signatory -> SignerVerdict]
         /\ \A s \in Signatory :
              /\ Founded(f, VerifyBundle(f), s)
              /\ VerifyBundle(f)[s].durable = "pending"
              /\ ~bundle[f][s].statement => VerifyBundle(f)[s].key = "pending"
<1> DEFINE statements == [s \in ConfirmStatementsOffline(f) |-> FromStatement]
           u == Unconfirmed(f)
<1>1. /\ u \in [Signatory -> SignerVerdict]
      /\ \A s \in Signatory : /\ u[s].key = "pending" /\ u[s].durable = "pending"
                              /\ u[s].valid = "pending" /\ u[s].anchor # "confirmed"
  BY DEF Unconfirmed, SignerVerdict, Dimension
<1>2. /\ DOMAIN statements = ConfirmStatementsOffline(f)
      /\ \A s \in DOMAIN statements : /\ statements[s].listed \in BOOLEAN
                                      /\ statements[s].key \in Dimension
                                      /\ statements[s].key = "confirmed"
  BY DEF FromStatement, Dimension
<1>3. DOMAIN None = {}
  BY DEF None
<1> HIDE DEF statements, u
<1>4. CASE DOMAIN statements = {}
  <2>1. VerifyBundle(f) = u
    BY <1>4 DEF VerifyBundle, u, statements
  <2>2. \A s \in Signatory : ~bundle[f][s].statement
    BY <1>2, <1>4 DEF ConfirmStatementsOffline
  <2> QED BY <1>1, <2>1, <2>2 DEF Founded
<1>5. CASE DOMAIN statements # {}
  <2> DEFINE v == ApplyOnlineConfirmations(f, u, None, statements)
  <2>1. VerifyBundle(f) = v
    BY <1>5 DEF VerifyBundle, u, statements
  <2>2. /\ v \in [Signatory -> SignerVerdict]
        /\ \A s \in Signatory :
             /\ v[s].durable # "failed"
             /\ v[s].durable = "pending" \/ v[s].anchor = "confirmed"
             /\ s \notin DOMAIN None => v[s].anchor = u[s].anchor
             /\ v[s].valid # "failed" \/ v[s].valid = u[s].valid
             /\ IF s \in DOMAIN statements THEN v[s].key = statements[s].key
                                           ELSE v[s].key = u[s].key
    BY <1>1, <1>2, <1>3, AppliedVerdict
  <2> HIDE DEF v
  <2>3. \A s \in Signatory : s \in DOMAIN statements <=> bundle[f][s].statement
    BY <1>2 DEF ConfirmStatementsOffline
  <2> QED BY <1>1, <1>2, <1>3, <2>1, <2>2, <2>3 DEF Founded
<1> QED BY <1>4, <1>5

(* What the two services answer, and what they do not.                     *)
LEMMA ServicesAnswer ==
  ASSUME NEW f \in File, NEW rb, NEW ra, bundle \in [File -> [Signatory -> Kinds]]
  PROVE  /\ \A s \in DOMAIN ConfirmBitcoinAnchors(f, rb) :
              ConfirmBitcoinAnchors(f, rb)[s] \in {"absent", "pending", "confirmed"}
         /\ \A s \in DOMAIN ConfirmKeyArchiveWeb(f, ra) :
              /\ s \in Signatory
              /\ ConfirmKeyArchiveWeb(f, ra)[s].listed \in BOOLEAN
              /\ ConfirmKeyArchiveWeb(f, ra)[s].key \in Dimension
              /\ bundle[f][s].statement => ConfirmKeyArchiveWeb(f, ra)[s].key = "confirmed"
<1>1. \A s \in DOMAIN ConfirmBitcoinAnchors(f, rb) :
        ConfirmBitcoinAnchors(f, rb)[s] \in {"absent", "pending", "confirmed"}
  BY DEF ConfirmBitcoinAnchors
<1>2. ASSUME NEW s \in DOMAIN ConfirmKeyArchiveWeb(f, ra)
      PROVE  /\ s \in Signatory
             /\ ConfirmKeyArchiveWeb(f, ra)[s].listed \in BOOLEAN
             /\ ConfirmKeyArchiveWeb(f, ra)[s].key \in Dimension
             /\ bundle[f][s].statement => ConfirmKeyArchiveWeb(f, ra)[s].key = "confirmed"
  <2> DEFINE a == ConfirmKeyArchive(bundle[f][s], s \in ra)
  <2>1. /\ s \in Signatory
        /\ ConfirmKeyArchiveWeb(f, ra)[s] = IF bundle[f][s].statement THEN FromStatement ELSE a
    BY DEF ConfirmKeyArchiveWeb, ConfirmStatementsOffline
  <2>2. a.listed \in BOOLEAN /\ a.key \in Dimension
    BY DEF ConfirmKeyArchive, NoAnswer, Dimension
  <2> HIDE DEF a
  <2>3. FromStatement.listed \in BOOLEAN /\ FromStatement.key = "confirmed"
    BY DEF FromStatement
  <2>4. CASE bundle[f][s].statement
    BY <2>1, <2>3, <2>4 DEF Dimension
  <2>5. CASE ~bundle[f][s].statement
    BY <2>1, <2>2, <2>5
  <2> QED BY <2>4, <2>5
<1> QED BY <1>1, <1>2
-----------------------------------------------------------------------------
LEMMA EvidenceStart == EvidenceInit => VInv /\ FoundedInv
<1> SUFFICES ASSUME EvidenceInit PROVE VInv /\ FoundedInv
  OBVIOUS
<1>1. screen = Blank /\ screen.verdict = NoVerdict /\ screen \in Screen
  BY DEF EvidenceInit, Blank, Screen
<1> QED BY <1>1, KindsAssumption, LoadsAssumption DEF EvidenceInit, VInv, FoundedInv

(* A screen without a verdict, whatever its status.                        *)
LEMMA Cleared ==
  ASSUME NEW status \in {"idle", "verifying", "done", "error"}
  PROVE  /\ [Blank EXCEPT !.status = status] \in Screen
         /\ [Blank EXCEPT !.status = status].verdict = NoVerdict
         /\ Blank \in Screen /\ Blank.verdict = NoVerdict
BY DEF Blank, Screen

(* No action but a fold changes a verdict that stays on show.              *)
LEMMA VerdictStep ==
  ASSUME VInv,
         \/ \E f \in File : DropFile(f)
         \/ \E l \in loads, kept \in BOOLEAN : FileRead(l, kept)
         \/ \E l \in loads : LoadFails(l)
         \/ \E l \in loads : BundleVerified(l)
         \/ StartOver \/ ReloadPage
  PROVE  /\ VInv' /\ bundle' = bundle
         /\ \/ screen'.verdict = NoVerdict
            \/ /\ screen'.verdict = screen.verdict
               /\ screen'.file = screen.file /\ screen'.asked = screen.asked
            \/ /\ screen'.verdict = VerifyBundle(screen'.file)
               /\ screen'.file \in File /\ screen'.asked = screen'.file
<1>1. ASSUME NEW f \in File, DropFile(f) PROVE VInv' /\ UNCHANGED <<bundle, screen>>
  <2> DEFINE new == [id |-> loaded + 1, file |-> f, at |-> "reading"]
  <2>1. new.file \in File
    OBVIOUS
  <2> HIDE DEF new
  <2>2. loads' = loads \union {new}
    BY <1>1 DEF DropFile, new
  <2>3. UNCHANGED <<bundle, sound, screen, stored, folds>> /\ loaded' \in 0..MaxLoads
    BY <1>1, LoadsAssumption DEF DropFile, VInv
  <2> QED BY <2>1, <2>2, <2>3 DEF VInv
<1>2. ASSUME NEW l \in loads, NEW kept \in BOOLEAN, FileRead(l, kept)
      PROVE  VInv' /\ bundle' = bundle /\ screen'.verdict = NoVerdict
  <2> DEFINE new == [l EXCEPT !.at = "verifying"]
  <2>1. new.file = l.file /\ l.file \in File
    BY DEF VInv
  <2> HIDE DEF new
  <2>2. loads' = (loads \ {l}) \union {new}
    BY <1>2 DEF FileRead, new
  <2>3. screen' \in Screen /\ screen'.verdict = NoVerdict
    BY <1>2, Cleared DEF FileRead
  <2>4. UNCHANGED <<bundle, sound, folds, loaded>> /\ stored' \in File \union {NoFile}
    BY <1>2, <2>1 DEF FileRead, VInv
  <2> QED BY <2>1, <2>2, <2>3, <2>4 DEF VInv
<1>3. ASSUME NEW l \in loads, LoadFails(l)
      PROVE  VInv' /\ bundle' = bundle /\ screen'.verdict = screen.verdict
             /\ screen'.file = screen.file /\ screen'.asked = screen.asked
  <2>1. /\ screen' \in Screen /\ screen'.verdict = screen.verdict
        /\ screen'.file = screen.file /\ screen'.asked = screen.asked
    BY <1>3 DEF LoadFails, VInv, Screen
  <2> QED BY <1>3, <2>1 DEF LoadFails, VInv
<1>4. ASSUME NEW l \in loads, BundleVerified(l)
      PROVE  VInv' /\ bundle' = bundle /\ screen'.file \in File
             /\ screen'.verdict = VerifyBundle(screen'.file) /\ screen'.asked = screen'.file
  <2>1. l.file \in File /\ VerifyBundle(l.file) \in [Signatory -> SignerVerdict]
    BY OfflineVerdict DEF VInv
  <2>2. screen' = [status |-> "done", file |-> l.file, verdict |-> VerifyBundle(l.file),
                   asked |-> l.file]
    BY <1>4 DEF BundleVerified
  <2>3. /\ screen' \in Screen /\ screen'.file = l.file /\ screen'.asked = l.file
        /\ screen'.verdict = VerifyBundle(l.file)
    BY <2>1, <2>2 DEF Screen
  <2>4. \A q \in folds' : q \in folds \/ q.file = l.file
    BY <1>4 DEF BundleVerified
  <2>5. UNCHANGED <<bundle, sound, stored, loaded>> /\ loads' \subseteq loads
    BY <1>4 DEF BundleVerified
  <2> QED BY <2>1, <2>3, <2>4, <2>5 DEF VInv
<1>5. ASSUME StartOver PROVE VInv' /\ bundle' = bundle /\ screen'.verdict = NoVerdict
  BY <1>5, Cleared DEF StartOver, VInv
<1>6. ASSUME ReloadPage PROVE VInv' /\ bundle' = bundle /\ screen'.verdict = NoVerdict
  <2>1. screen' \in Screen /\ screen'.verdict = NoVerdict
    BY <1>6, Cleared DEF ReloadPage
  <2>2. folds' = {} /\ UNCHANGED <<bundle, sound, stored>> /\ loaded' \in 0..MaxLoads
    BY <1>6, LoadsAssumption DEF ReloadPage, VInv
  <2>3. \A l \in loads' : l.file \in File
    BY <1>6 DEF ReloadPage, VInv
  <2> QED BY <2>1, <2>2, <2>3 DEF VInv
<1> QED BY <1>1, <1>2, <1>3, <1>4, <1>5, <1>6

(* A fold: of answers about the verdict's file, or about another one.      *)
LEMMA FoldStep ==
  ASSUME VInv, NEW q \in folds, NEW rb, NEW ra, FoldIn(q, rb, ra)
  PROVE  /\ VInv' /\ bundle' = bundle /\ screen'.file = screen.file
         /\ FoundedInv => FoundedInv'
<1>1. q.file \in File /\ folds' \subseteq folds
      /\ UNCHANGED <<bundle, sound, stored, loads, loaded>>
  BY DEF VInv, FoldIn
<1>2. CASE screen.verdict = NoVerdict
  BY <1>1, <1>2 DEF FoldIn, VInv, FoundedInv
<1>3. CASE screen.verdict # NoVerdict
  <2> DEFINE f == screen.file
             bitcoin == IF q.bitcoin THEN ConfirmBitcoinAnchors(q.file, rb) ELSE None
             keys == IF q.key THEN ConfirmKeyArchiveWeb(q.file, ra) ELSE None
             v == ApplyOnlineConfirmations(f, screen.verdict, bitcoin, keys)
  <2>1. f \in File /\ screen.verdict \in [Signatory -> SignerVerdict]
    BY <1>3 DEF VInv, Screen
  <2>2. \A s \in DOMAIN bitcoin : bitcoin[s] \in {"absent", "pending", "confirmed"}
    BY <1>1, ServicesAnswer DEF None, VInv
  <2>3. \A s \in DOMAIN keys : keys[s].listed \in BOOLEAN /\ keys[s].key \in Dimension
    BY <1>1, ServicesAnswer DEF None, VInv
  <2>9. \A s \in DOMAIN keys : bundle[q.file][s].statement => keys[s].key = "confirmed"
    BY <1>1, ServicesAnswer DEF None, VInv
  <2>4. screen' = [screen EXCEPT !.verdict = v, !.asked = IF q.key THEN q.file ELSE @]
    BY <1>3 DEF FoldIn
  <2>10. q.key => DOMAIN keys = Signatory
    BY DEF ConfirmKeyArchiveWeb
  <2>11. ~q.key => DOMAIN keys = {}
    BY DEF None
  <2> HIDE DEF bitcoin, keys
  <2>5. /\ v \in [Signatory -> SignerVerdict]
        /\ \A s \in Signatory :
             /\ v[s].durable # "failed"
             /\ v[s].valid # "failed" \/ v[s].valid = screen.verdict[s].valid
             /\ IF s \in DOMAIN keys THEN v[s].key = keys[s].key
                                     ELSE v[s].key = screen.verdict[s].key
    <3>1. bundle \in [File -> [Signatory -> Kinds]]
      BY DEF VInv
    <3> HIDE DEF f
    <3> QED BY ONLY <2>1, <2>2, <2>3, <3>1, AppliedVerdict
  <2> HIDE DEF v
  <2>6. /\ screen' \in Screen /\ screen'.file = f /\ screen'.verdict = v
        /\ screen'.asked = IF q.key THEN q.file ELSE screen.asked
    BY <1>1, <2>4, <2>5 DEF VInv, Screen
  <2>7. VInv'
    BY <1>1, <2>1, <2>6 DEF VInv
  <2>8. ASSUME FoundedInv PROVE FoundedInv'
    <3> SUFFICES ASSUME NEW s \in Signatory
                 PROVE  /\ v[s].durable # "failed" /\ v[s].valid # "failed"
                        /\ bundle[screen'.asked][s].statement => v[s].key = "confirmed"
      BY <1>1, <2>6 DEF FoundedInv, Founded
    <3>1. /\ screen.verdict[s].valid # "failed"
          /\ bundle[screen.asked][s].statement => screen.verdict[s].key = "confirmed"
      BY <1>3, <2>8 DEF FoundedInv, Founded
    <3>2. CASE q.key
      BY <2>5, <2>6, <2>9, <2>10, <3>1, <3>2
    <3>3. CASE ~q.key
      BY <2>5, <2>6, <2>11, <3>1, <3>3
    <3> QED BY <3>2, <3>3
  <2> QED BY <1>1, <2>6, <2>7, <2>8
<1> QED BY <1>2, <1>3

LEMMA EvidenceStep == VInv /\ [EvidenceNext]_evidenceVars => VInv'
<1> SUFFICES ASSUME VInv, [EvidenceNext]_evidenceVars PROVE VInv'
  OBVIOUS
<1>1. CASE UNCHANGED evidenceVars
  BY <1>1 DEF evidenceVars, VInv
<1> QED BY <1>1, VerdictStep, FoldStep DEF EvidenceNext

LEMMA FoundedStep ==
  VInv /\ FoundedInv /\ [EvidenceNext]_evidenceVars => FoundedInv'
<1> SUFFICES ASSUME VInv, FoundedInv, [EvidenceNext]_evidenceVars PROVE FoundedInv'
  OBVIOUS
<1>1. CASE UNCHANGED evidenceVars
  BY <1>1 DEF evidenceVars, FoundedInv, Founded
<1>2. CASE \E q \in folds : \E rb, ra \in SUBSET Signatory : FoldIn(q, rb, ra)
  BY <1>2, FoldStep
<1>3. CASE \/ \E f \in File : DropFile(f)
           \/ \E l \in loads, kept \in BOOLEAN : FileRead(l, kept)
           \/ \E l \in loads : LoadFails(l)
           \/ \E l \in loads : BundleVerified(l)
           \/ StartOver \/ ReloadPage
  <2>1. /\ VInv' /\ bundle' = bundle
        /\ \/ screen'.verdict = NoVerdict
           \/ /\ screen'.verdict = screen.verdict
              /\ screen'.file = screen.file /\ screen'.asked = screen.asked
           \/ /\ screen'.verdict = VerifyBundle(screen'.file)
              /\ screen'.file \in File /\ screen'.asked = screen'.file
    BY <1>3, VerdictStep
  <2>2. CASE /\ screen'.verdict = VerifyBundle(screen'.file)
             /\ screen'.file \in File /\ screen'.asked = screen'.file
    <3>1. PICK f \in File : f = screen'.file
      BY <2>2
    <3>2. \A s \in Signatory : Founded(f, VerifyBundle(f), s)
      BY OfflineVerdict DEF VInv
    <3>3. screen'.verdict = VerifyBundle(f) /\ screen'.asked = f /\ bundle' = bundle
      BY <2>1, <2>2, <3>1
    <3> SUFFICES ASSUME NEW s \in Signatory
                 PROVE  /\ screen'.verdict[s].durable # "failed"
                        /\ screen'.verdict[s].valid # "failed"
                        /\ bundle'[screen'.asked][s].statement => screen'.verdict[s].key = "confirmed"
      BY <2>1 DEF FoundedInv, Founded
    <3> QED BY <3>1, <3>2, <3>3 DEF Founded
  <2> QED BY <2>1, <2>2 DEF FoundedInv, Founded
<1> QED BY <1>1, <1>2, <1>3 DEF EvidenceNext

\* Whatever is on show is typed, for any files, signers and number of loads.
LEMMA EvidenceInvariant == EvidenceSpec => []VInv
BY EvidenceStart, EvidenceStep, PTL DEF EvidenceSpec

LEMMA EvidenceTyped == VInv => EvidenceTypeOK
BY DEF VInv, EvidenceTypeOK, Screen

\* A verdict whose statements are kept ranks no lower than the offline one.
LEMMA FoundedRanks == VInv /\ FoundedInv => OutageNeverLowers
<1> SUFFICES ASSUME VInv, FoundedInv, NEW s \in DOMAIN screen.verdict,
                    screen.verdict[s].key # "failed",
                    screen.asked = screen.file \/ bundle[screen.asked][s].statement
             PROVE  TierRank(ComputeSignerTier(bundle[screen.file][s], screen.verdict[s]))
                      >= TierRank(ComputeSignerTier(bundle[screen.file][s],
                                                    VerifyBundle(screen.file)[s]))
  BY DEF OutageNeverLowers, OfflineTierKept
<1> DEFINE f == screen.file
           ev == bundle[f][s]
           v == screen.verdict[s]
           o == VerifyBundle(f)[s]
<1>1. screen.verdict # NoVerdict
  BY DEF NoVerdict
<1>2. s \in Signatory /\ f \in File
  BY <1>1 DEF VInv, Screen
<1>3. v.key # "failed" /\ v.durable # "failed" /\ v.valid # "failed" /\ (ev.statement => v.key = "confirmed")
  BY <1>1, <1>2 DEF FoundedInv, Founded
<1>4. /\ o.durable = "pending" /\ o.valid # "failed"
      /\ o.key = IF ev.statement THEN "confirmed" ELSE "pending"
  BY <1>2, OfflineVerdict DEF VInv, Founded
<1> DEFINE Rank(w) == TierRank(ComputeSignerTier(ev, w))
<1> SUFFICES Rank(v) >= Rank(o)
  OBVIOUS
<1> HIDE DEF f, ev, v, o
<1>5. CASE ~ev.hard \/ ~ev.tsr
  BY <1>5 DEF ComputeSignerTier, TierRank
<1>6. CASE ev.hard /\ ev.tsr /\ ~ev.statement
  <2>1. ComputeSignerTier(ev, o) = "INTEGRITY_VERIFIED"
    BY <1>4, <1>6 DEF ComputeSignerTier
  <2>2. ComputeSignerTier(ev, v) # "FAILED"
    BY <1>3, <1>6 DEF ComputeSignerTier
  <2> QED BY <2>1, <2>2 DEF TierRank
<1>7. CASE ev.hard /\ ev.tsr /\ ev.statement
  <2>1. ComputeSignerTier(ev, o) = "PROVIDER_KEY_CONFIRMED"
    BY <1>4, <1>7 DEF ComputeSignerTier
  <2>2. ComputeSignerTier(ev, v) \in {"PROVEN_DURABLE", "PROVIDER_KEY_CONFIRMED"}
    BY <1>3, <1>7 DEF ComputeSignerTier
  <2> QED BY <2>1, <2>2 DEF TierRank
<1> QED BY <1>5, <1>6, <1>7

\* VerifyPage.tsx, applyOnlineConfirmations: an outage never lowers a verdict,
\* for any files, signers and loads, and whichever loads the answers are of,
\* but for a signer whom the answers of another file take as one without a
\* statement.
THEOREM OutageIsHarmless == EvidenceSpec => []OutageNeverLowers
<1>1. VInv /\ FoundedInv /\ [EvidenceNext]_evidenceVars => (VInv /\ FoundedInv)'
  BY EvidenceStep, FoundedStep
<1> QED BY <1>1, EvidenceStart, FoundedRanks, PTL DEF EvidenceSpec

-----------------------------------------------------------------------------
(* Signing checks: the key records of a bundle confirm what the gate       *)
(* accepted, the exceptions named.                                         *)

(* A set of numbers has a least one.                                       *)
LEMMA LeastOf ==
  ASSUME NEW S \in SUBSET Nat, S # {}
  PROVE  LET m == CHOOSE n \in S : \A k \in S : n <= k
         IN  m \in S /\ \A k \in S : m <= k
<1> DEFINE R == OpToRel(<, Nat)
<1>1. IsWellFoundedOn(R, Nat)
  BY NatLessThanWellFounded
<1>2. \A x, y \in Nat : x < y => <<x, y>> \in R
  BY DEF OpToRel
<1> HIDE DEF R
<1>3. PICK x \in S : \A y \in S : ~ (<<y, x>> \in R)
  BY <1>1, WFMin
<1>4. ASSUME NEW k \in S PROVE x <= k
  <2>1. x \in Nat /\ k \in Nat
    OBVIOUS
  <2>2. ~(k < x)
    BY <1>2, <1>3, <2>1
  <2> QED BY <2>1, <2>2
<1> QED BY <1>4

Letter == [signatures : Seq(DkimSignature), plain : Line, html : Line,
           pdf : {"ours", "modified", "missing"}, fails : SUBSET {"spf", "dmarc"},
           arcMicrosoft : BOOLEAN, gen : [Pair -> Nat \ {0}], early : BOOLEAN,
           at : {"arrived", "recorded"}, by : Nat]

(* A letter whose deciding signature is the signers' own, none of its      *)
(* signatures covering only a part of the body.                            *)
SignedBy(m) ==
  /\ m \in Letter
  /\ m.by \in DOMAIN m.signatures /\ m.signatures[m.by].by = "own"
  /\ \A n \in DOMAIN m.signatures : ~m.signatures[n].length

Kept(a) == SignedBy(a.mail) /\ a.pair = "own"

Problem == {"none", "sender_auth", "google_workspace_no_dkim", "microsoft_365_no_dkim",
            "dkim_unverifiable", "wrong_phrase", "attachment_missing", "attachment_modified"}
Membership == [status : {"pending", "signed"}, problem : Problem, told : SUBSET Problem]

MailInv ==
  /\ dns \in [Pair -> 1..MaxRotations_ + 1] /\ lapsed \in BOOLEAN /\ mails \in 0..MaxMails
  /\ inbox \in [Member -> Letter \union {NoMail}]
  /\ \A i \in Member : inbox[i] # NoMail /\ inbox[i].at = "recorded" => SignedBy(inbox[i])

ArtifactInv ==
  /\ observed = [i \in Member |-> observed[i]]
  /\ \A i \in Member : observed[i] # NoArtifact => Kept(observed[i])
  /\ DOMAIN sealed \subseteq Nat \ {0}
  /\ \A n \in DOMAIN sealed : Kept(sealed[n])

OrderInv ==
  /\ membership \in [Member -> Membership]
  /\ order \in Seq(Member)
  /\ \A n \in DOMAIN order : membership[order[n]].status = "signed"
  /\ \A n, k \in DOMAIN order : n # k => order[n] # order[k]

FInv == MailInv /\ ArtifactInv /\ OrderInv
-----------------------------------------------------------------------------
(* The policy accepts by one of the signers' own signatures.               *)
LEMMA PolicyAccepts ==
  ASSUME NEW signatures \in Seq(DkimSignature), NEW result,
         EvaluateDkimPolicy(signatures, result).ok
  PROVE  LET by == EvaluateDkimPolicy(signatures, result).by
         IN  /\ by \in DOMAIN signatures /\ signatures[by].by = "own"
             /\ \A n \in DOMAIN signatures : ~signatures[n].length
<1> DEFINE N == DOMAIN signatures
           passing == {n \in N : result[n] = "pass"}
           aligned == {n \in passing : signatures[n].by = "own"}
           first == CHOOSE n \in aligned : \A k \in aligned : n <= k
           v == EvaluateDkimPolicy(signatures, result)
<1>1. \A n \in N : ~signatures[n].length
  BY DEF EvaluateDkimPolicy, Verdict
<1>2. aligned # {}
  BY DEF EvaluateDkimPolicy, Verdict
<1>3. v.by = first
  BY <1>1, <1>2 DEF EvaluateDkimPolicy, Verdict
<1>4. aligned \in SUBSET Nat
  OBVIOUS
<1>5. first \in aligned
  <2> HIDE DEF aligned
  <2> QED BY <1>2, <1>4, LeastOf
<1> QED BY <1>1, <1>3, <1>5

(* One own signature that passes is enough, when none that passes is weak. *)
LEMMA PolicyPasses ==
  ASSUME NEW signatures \in Seq(DkimSignature), NEW result,
         \A n \in DOMAIN signatures : ~signatures[n].length,
         NEW by \in DOMAIN signatures, signatures[by].by = "own", result[by] = "pass",
         \A n \in DOMAIN signatures : result[n] = "pass" => signatures[n].algo # "sha1"
  PROVE  EvaluateDkimPolicy(signatures, result).ok
<1> DEFINE N == DOMAIN signatures
           passing == {n \in N : result[n] = "pass"}
           aligned == {n \in passing : signatures[n].by = "own"}
           first == CHOOSE n \in aligned : \A k \in aligned : n <= k
<1>1. by \in aligned
  OBVIOUS
<1>2. aligned \in SUBSET Nat
  OBVIOUS
<1>3. first \in aligned
  <2> HIDE DEF aligned
  <2> QED BY <1>1, <1>2, LeastOf
<1>4. signatures[first].algo # "sha1"
  BY <1>3
<1>5. EvaluateDkimPolicy(signatures, result) = Verdict(TRUE, "none", first)
  BY <1>1, <1>4 DEF EvaluateDkimPolicy
<1> QED BY <1>5 DEF Verdict

(* A message that signs passed the DKIM policy.                            *)
LEMMA SignsByOwn ==
  ASSUME NEW m \in Letter, NEW keys, ProcessForward(m, keys) = "none"
  PROVE  LET by == VerifyDkim(m, keys).by
         IN  /\ by \in DOMAIN m.signatures /\ m.signatures[by].by = "own"
             /\ \A n \in DOMAIN m.signatures : ~m.signatures[n].length
<1>1. VerifyDkim(m, keys).ok
  BY DEF ProcessForward, DiagnoseProviderNoDkim
<1>2. m.signatures \in Seq(DkimSignature)
  BY DEF Letter
<1> QED BY <1>1, <1>2, PolicyAccepts DEF VerifyDkim
-----------------------------------------------------------------------------
LEMMA ForwardStart == ForwardInit => FInv
<1> SUFFICES ASSUME ForwardInit PROVE FInv
  OBVIOUS
<1> USE DEF ForwardInit
<1>1. MailInv
  <2>1. dns \in [Pair -> 1..MaxRotations_ + 1]
    BY ForwardAssumption
  <2>2. inbox \in [Member -> Letter \union {NoMail}] /\ \A i \in Member : inbox[i] = NoMail
    BY DEF Letter
  <2>3. lapsed \in BOOLEAN
    BY Zenon
  <2>4. mails \in 0..MaxMails
    BY ForwardAssumption
  <2> QED BY ONLY <2>1, <2>2, <2>3, <2>4 DEF MailInv
<1>2. ArtifactInv
  BY DEF ArtifactInv
<1>3. OrderInv
  <2> DEFINE mark == [status |-> "pending", problem |-> "none", told |-> {}]
  <2>1. mark \in Membership
    BY DEF Membership, Problem
  <2>2. membership = [i \in Member |-> mark]
    OBVIOUS
  <2> HIDE DEF mark
  <2>3. order \in Seq(Member) /\ DOMAIN order = {}
    OBVIOUS
  <2> QED BY <2>1, <2>2, <2>3 DEF OrderInv
<1> QED BY <1>1, <1>2, <1>3 DEF FInv

LEMMA ForwardSends ==
  ASSUME FInv, NEW i \in Member, NEW c \in Mail_, Send(i, c)
  PROVE  FInv'
<1> DEFINE m == [signatures |-> c.signatures, plain |-> c.plain, html |-> c.html, pdf |-> c.pdf,
                 fails |-> c.fails, arcMicrosoft |-> c.arcMicrosoft,
                 gen |-> dns, early |-> ~lapsed, at |-> "arrived", by |-> 0]
<1>1. inbox' = [inbox EXCEPT ![i] = m] /\ mails < MaxMails /\ mails' = mails + 1
      /\ UNCHANGED <<dns, lapsed, membership, observed, order, sealed>>
  BY DEF Send
<1>2. m \in Letter /\ m.at = "arrived"
  <2>1. c \in Mails
    BY MailAssumption
  <2>2. dns \in [Pair -> Nat \ {0}]
    <3>1. 1..MaxRotations_ + 1 \subseteq Nat \ {0}
      BY ForwardAssumption
    <3> QED BY <3>1 DEF FInv, MailInv
  <2>3. (~lapsed) \in BOOLEAN
    OBVIOUS
  <2> QED BY <2>1, <2>2, <2>3 DEF Letter, Mails
<1> HIDE DEF m
<1>3. MailInv'
  BY <1>1, <1>2, ForwardAssumption DEF FInv, MailInv
<1>4. ArtifactInv' /\ OrderInv'
  BY <1>1 DEF FInv, ArtifactInv, OrderInv
<1> QED BY <1>3, <1>4 DEF FInv

LEMMA WorldStep ==
  ASSUME FInv, WeekPasses \/ \E p \in {"own", "relay"} : RotateKey(p)
  PROVE  FInv'
<1>1. /\ dns' \in [Pair -> 1..MaxRotations_ + 1] /\ lapsed' \in BOOLEAN
      /\ UNCHANGED <<inbox, membership, observed, order, sealed, mails>>
  <2>1. CASE WeekPasses
    BY <2>1 DEF WeekPasses, FInv, MailInv
  <2>2. ASSUME NEW p \in {"own", "relay"}, RotateKey(p)
        PROVE  dns' \in [Pair -> 1..MaxRotations_ + 1]
    <3>1. p \in Pair /\ dns[p] \in 1..MaxRotations_ + 1 /\ dns[p] <= MaxRotations_
      BY <2>2 DEF Pair, RotateKey, FInv, MailInv
    <3>2. dns[p] + 1 \in 1..MaxRotations_ + 1
      BY <3>1, ForwardAssumption
    <3> QED BY <2>2, <3>1, <3>2 DEF RotateKey, FInv, MailInv
  <2> QED BY <2>1, <2>2 DEF RotateKey, FInv, MailInv
<1> QED BY <1>1 DEF FInv, MailInv, ArtifactInv, OrderInv

(* A reply that is read: acknowledged, bounced or signed in.               *)
LEMMA SigningStep ==
  ASSUME FInv, NEW i \in Member, NEW dark, HandleReplyReceived(i, dark)
  PROVE  FInv'
<1> DEFINE m == inbox[i]
           keys == [p \in Pair |-> IF p \in dark THEN NoKey ELSE dns[p]]
           by == VerifyDkim(m, keys).by
<1>1. m \in Letter /\ UNCHANGED <<dns, lapsed, observed, sealed, mails>>
  BY DEF HandleReplyReceived, FInv, MailInv
<1>2. ArtifactInv'
  BY <1>1 DEF FInv, ArtifactInv
<1>3. CASE inbox' = [inbox EXCEPT ![i] = NoMail] /\ UNCHANGED <<membership, order>>
  BY <1>1, <1>2, <1>3 DEF FInv, MailInv, OrderInv
<1>4. CASE /\ inbox' = [inbox EXCEPT ![i] = NoMail]
           /\ membership' = RecordAndNotifyRejection(i, ProcessForward(m, keys))
           /\ UNCHANGED order
  <2> DEFINE problem == ProcessForward(m, keys)
             mark == [membership[i] EXCEPT !.problem = problem]
             kinds == membership[i].told \union {problem}
  <2>1. problem \in Problem
    BY DEF ProcessForward, DiagnoseProviderNoDkim, Problem
  <2>2. membership' = [membership EXCEPT ![i] = [mark EXCEPT !.told = kinds]]
    <3>1. membership \in [Member -> Membership] /\ membership[i] \in Membership
      BY DEF FInv, OrderInv
    <3>2. membership' = [membership EXCEPT ![i] =
                           [membership[i] EXCEPT !.problem = problem, !.told = kinds]]
      BY <1>4, <3>1 DEF RecordAndNotifyRejection, RecordSignerRejection, ClaimRejectionNotice,
             Membership
    <3> QED BY <3>2
  <2> HIDE DEF problem
  <2>3. mark \in Membership /\ mark.status = membership[i].status /\ kinds \in SUBSET Problem
    BY <2>1 DEF FInv, OrderInv, Membership
  <2> HIDE DEF mark, kinds
  <2>4. [mark EXCEPT !.told = kinds] \in Membership
        /\ [mark EXCEPT !.told = kinds].status = membership[i].status
    BY <2>3 DEF Membership
  <2>5. OrderInv'
    <3>1. /\ membership' \in [Member -> Membership]
          /\ \A j \in Member : membership'[j].status = membership[j].status
      BY <2>2, <2>4 DEF FInv, OrderInv
    <3> QED BY <1>4, <3>1 DEF FInv, OrderInv
  <2>6. MailInv'
    BY <1>1, <1>4 DEF FInv, MailInv
  <2> QED BY <1>2, <2>5, <2>6 DEF FInv
<1>5. CASE /\ ProcessForward(m, keys) = "none" /\ membership[i].status # "signed"
           /\ inbox' = [inbox EXCEPT ![i] = [@ EXCEPT !.at = "recorded", !.by = by]]
           /\ membership' = [membership EXCEPT ![i].status = "signed"]
           /\ order' = Append(order, i)
  <2>1. /\ by \in DOMAIN m.signatures /\ m.signatures[by].by = "own"
        /\ \A n \in DOMAIN m.signatures : ~m.signatures[n].length
    BY <1>1, <1>5, SignsByOwn
  <2> DEFINE q == [m EXCEPT !.at = "recorded"]
             w == [q EXCEPT !.by = by]
  <2>2. inbox' = [inbox EXCEPT ![i] = w]
    BY <1>5
  <2> HIDE DEF by, keys
  <2>3. q \in Letter /\ q.signatures = m.signatures
    BY <1>1 DEF Letter
  <2> HIDE DEF q
  <2>4. by \in Nat
    BY <1>1, <2>1 DEF Letter
  <2>5. w \in Letter /\ w.signatures = m.signatures /\ w.by = by
    BY <2>3, <2>4 DEF Letter
  <2> HIDE DEF w
  <2>6. SignedBy(w)
    BY <2>1, <2>5 DEF SignedBy
  <2>7. MailInv'
    BY <1>1, <2>2, <2>5, <2>6 DEF FInv, MailInv
  <2>8. OrderInv'
    <3>1. membership' \in [Member -> Membership]
      BY <1>5 DEF FInv, OrderInv, Membership
    <3>2. order' \in Seq(Member) /\ DOMAIN order' = 1..Len(order) + 1
          /\ order'[Len(order) + 1] = i /\ \A n \in DOMAIN order : order'[n] = order[n]
      BY <1>5 DEF FInv, OrderInv
    <3>3. \A n \in DOMAIN order' : n \in DOMAIN order \/ n = Len(order) + 1
      BY <3>2 DEF FInv, OrderInv
    <3>4. \A j \in Member : membership[j].status = "signed" => membership'[j].status = "signed"
      BY <1>5 DEF FInv, OrderInv, Membership
    <3>5. membership'[i].status = "signed"
      BY <1>5 DEF FInv, OrderInv, Membership
    <3>6. \A n \in DOMAIN order : order[n] \in Member /\ order[n] # i
      BY <1>5 DEF FInv, OrderInv
    <3>7. \A n \in DOMAIN order' : membership'[order'[n]].status = "signed"
      BY <3>2, <3>3, <3>4, <3>5, <3>6 DEF FInv, OrderInv
    <3>8. \A n, k \in DOMAIN order' : n # k => order'[n] # order'[k]
      BY <3>2, <3>3, <3>6 DEF FInv, OrderInv
    <3> QED BY <3>1, <3>2, <3>7, <3>8 DEF OrderInv
  <2> QED BY <1>2, <2>7, <2>8 DEF FInv
<1> QED BY <1>3, <1>4, <1>5 DEF HandleReplyReceived

LEMMA ArtifactStep ==
  ASSUME FInv, NEW i \in Member,
         RunLost(i) \/ \E found \in BOOLEAN : KeepArtifact(i, found)
  PROVE  FInv'
<1>1. inbox[i] \in Letter /\ SignedBy(inbox[i])
      /\ UNCHANGED <<dns, lapsed, membership, order, sealed, mails>>
  BY DEF RunLost, KeepArtifact, FInv, MailInv
<1>2. OrderInv'
  BY <1>1 DEF FInv, OrderInv
<1>3. CASE RunLost(i)
  <2> DEFINE w == [inbox[i] EXCEPT !.at = "arrived"]
  <2>1. inbox' = [inbox EXCEPT ![i] = w] /\ observed' = observed
    BY <1>3 DEF RunLost
  <2>2. w \in Letter /\ w.at = "arrived"
    BY <1>1 DEF Letter
  <2> HIDE DEF w
  <2>3. MailInv'
    BY <1>1, <2>1, <2>2 DEF FInv, MailInv
  <2>4. ArtifactInv'
    BY <1>1, <2>1 DEF FInv, ArtifactInv
  <2> QED BY <1>2, <2>3, <2>4 DEF FInv
<1>4. ASSUME NEW found \in BOOLEAN, KeepArtifact(i, found) PROVE FInv'
  <2> DEFINE m == inbox[i]
             key == IF found THEN dns[m.signatures[m.by].by] ELSE NoKey
             a == [mail |-> m, pair |-> m.signatures[m.by].by, key |-> key]
  <2>1. observed' = [observed EXCEPT ![i] = a] /\ inbox' = [inbox EXCEPT ![i] = NoMail]
    BY <1>4 DEF KeepArtifact
  <2>2. Kept(a)
    BY <1>1 DEF Kept, SignedBy
  <2> HIDE DEF a, key
  <2>3. MailInv'
    BY <1>1, <2>1 DEF FInv, MailInv
  <2>4. ArtifactInv'
    BY <1>1, <2>1, <2>2 DEF FInv, ArtifactInv
  <2> QED BY <1>2, <2>3, <2>4 DEF FInv
<1> QED BY <1>3, <1>4

LEMMA BundleStep ==
  ASSUME FInv, AssembleBundle
  PROVE  FInv'
<1>1. sealed' = [n \in DOMAIN order |-> observed[order[n]]]
      /\ UNCHANGED <<dns, lapsed, inbox, membership, observed, order, mails>>
  BY DEF AssembleBundle, BuildEvidenceManifest
<1>2. \A n \in DOMAIN order : order[n] \in Member /\ n \in Nat \ {0}
  BY DEF FInv, OrderInv
<1>3. \A i \in Member : Kept(observed[i])
  BY DEF AssembleBundle, PrepareBundle, FInv, ArtifactInv
<1>4. ArtifactInv'
  BY <1>1, <1>2, <1>3 DEF FInv, ArtifactInv
<1> QED BY <1>1, <1>4 DEF FInv, MailInv, OrderInv

LEMMA ForwardStep == FInv /\ [ForwardNext]_forwardVars => FInv'
<1> SUFFICES ASSUME FInv, [ForwardNext]_forwardVars PROVE FInv'
  OBVIOUS
<1>1. CASE UNCHANGED forwardVars
  BY <1>1 DEF forwardVars, FInv, MailInv, ArtifactInv, OrderInv
<1> QED BY <1>1, ForwardSends, WorldStep, SigningStep, ArtifactStep, BundleStep DEF ForwardNext

\* Every part of the invariant, from the start on.
LEMMA ForwardInvariant == ForwardSpec => []FInv
BY ForwardStart, ForwardStep, PTL DEF ForwardSpec

(* Each signer signs once, so there are no more signatures than signers.   *)
LEMMA ForwardTyped == FInv => ForwardTypeOK
<1> SUFFICES ASSUME FInv PROVE ForwardTypeOK
  OBVIOUS
<1>1. order \in Injection(1..Len(order), Member) /\ Len(order) \in Nat
  <2>1. order \in Seq(Member) /\ \A n, k \in DOMAIN order : n # k => order[n] # order[k]
    BY DEF FInv, OrderInv
  <2>2. order \in [1..Len(order) -> Member] /\ DOMAIN order = 1..Len(order) /\ Len(order) \in Nat
    BY <2>1
  <2> QED BY <2>1, <2>2 DEF Injection, IsInjective
<1>2. Cardinality(1..Len(order)) <= Cardinality(Member)
  BY <1>1, FS_Injection, ForwardAssumption
<1>3. Cardinality(1..Len(order)) = Len(order)
  <2>1. 1 \in Int /\ Len(order) \in Int
    BY <1>1
  <2>2. Cardinality(1..Len(order)) = IF 1 > Len(order) THEN 0 ELSE Len(order) - 1 + 1
    BY <2>1, FS_Interval
  <2> QED BY <1>1, <2>2
<1>4. \A i \in Member : /\ (inbox[i] # NoMail => inbox[i].at \in {"arrived", "recorded"})
                         /\ membership[i].status \in {"pending", "signed"}
                         /\ (observed[i] # NoArtifact => observed[i].pair = "own")
  BY DEF FInv, MailInv, OrderInv, ArtifactInv, Kept, Letter, Membership
<1> QED BY <1>2, <1>3, <1>4 DEF ForwardTypeOK, FInv, MailInv

(* The key both engines take for the signers' own selector is one the      *)
(* first of them signed with, unless an earlier record differs.            *)
LEMMA FirstKey ==
  ASSUME ArtifactInv, NEW n \in DOMAIN sealed, NEW key,
         \A k \in DOMAIN sealed : k <= n => sealed[k].key = key
  PROVE  KeysInBundle["own"] = key
<1> DEFINE hits == {k \in DOMAIN sealed : sealed[k].pair = "own"}
           first == CHOOSE k \in hits : \A j \in hits : k <= j
<1>1. n \in hits /\ hits \in SUBSET Nat
  BY DEF ArtifactInv, Kept
<1>2. first \in hits /\ \A j \in hits : first <= j
  <2> HIDE DEF hits
  <2> QED BY <1>1, LeastOf
<1>3. "own" \in Pair
  BY DEF Pair
<1>4. KeysInBundle["own"] = sealed[first].key
  BY <1>1, <1>3 DEF KeysInBundle
<1> HIDE DEF first
<1> QED BY <1>1, <1>2, <1>4

\* processForward.ts against verifyBundleWeb.ts: for any signers, messages and
\* key rotations, a signature the gate accepted is confirmed by the browser's
\* engine with the bundle's own key records, but for the exceptions named.
THEOREM AcceptedIsConfirmed == ForwardSpec => []AcceptedVerifies
<1>1. FInv => AcceptedVerifies
  <2> SUFFICES ASSUME FInv, NEW n \in DOMAIN sealed,
                      Accepted(n).algo = "rsa", sealed[n].key = SignedWith(n),
                      \A k \in 1..n - 1 : sealed[k].pair = sealed[n].pair
                                            => sealed[k].key = SignedWith(n)
               PROVE  BundleDkimWeb(n)
    BY DEF AcceptedVerifies
  <2> DEFINE m == sealed[n].mail
             s == m.signatures[m.by]
             key == SignedWith(n)
             result == [k \in DOMAIN m.signatures |->
                          WebResult(m, m.signatures[k], KeysInBundle[m.signatures[k].by])]
  <2>1. SignedBy(m) /\ n \in Nat /\ m.signatures \in Seq(DkimSignature)
    BY DEF FInv, ArtifactInv, Kept, SignedBy, Letter
  <2>2. key = m.gen["own"] /\ key # NoKey
    BY <2>1 DEF SignedWith, NoKey, FInv, ArtifactInv, Kept, SignedBy, Letter, Pair
  <2>3. \A k \in DOMAIN sealed : k <= n => sealed[k].key = key
    <3> SUFFICES ASSUME NEW k \in DOMAIN sealed, k <= n PROVE sealed[k].key = key
      OBVIOUS
    <3>1. k \in Nat \ {0} /\ sealed[k].pair = sealed[n].pair
      BY DEF FInv, ArtifactInv, Kept
    <3>2. CASE k = n
      BY <3>2
    <3>3. CASE k # n
      <4>1. k \in 1..n - 1
        BY <2>1, <3>1, <3>3
      <4> QED BY <3>1, <4>1
    <3> QED BY <3>2, <3>3
  <2>4. KeysInBundle["own"] = key
    <3> HIDE DEF key
    <3> QED BY <2>3, FirstKey DEF FInv
  <2>5. result[m.by] = "pass"
    BY <2>1, <2>2, <2>4 DEF WebResult, SignedBy, Accepted
  <2>6. \A k \in DOMAIN m.signatures : result[k] = "pass" => m.signatures[k].algo # "sha1"
    BY DEF WebResult
  <2>7. EvaluateDkimPolicy(m.signatures, result).ok
    <3> HIDE DEF result, m
    <3> QED BY <2>1, <2>5, <2>6, PolicyPasses DEF SignedBy
  <2> QED BY <2>7 DEF BundleDkimWeb, VerifyDkimWeb
<1> QED BY <1>1, ForwardInvariant, PTL

-----------------------------------------------------------------------------
(* The service and its parts                                               *)
(* Each part is played as it is specified: the others' steps leave its     *)
(* variables alone, and what it settles at the start is one of its starts. *)

PartsStart ==
  /\ SessionInit /\ AgentInit /\ GateInit /\ AccountInit
  /\ AnchorsInit /\ NudgesInit /\ ForwardInit /\ EvidenceInit

Playing == scene \in AllScenes

PartsStep ==
  /\ [SessionNext]_sessionVars /\ [AgentNext]_agentVars
  /\ [GateNext]_gateVars /\ [AccountNext]_accountVars
  /\ [AnchorsNext]_anchorVars /\ [NudgesNext]_nudgeVars
  /\ [ForwardNext]_forwardVars /\ [EvidenceNext]_evidenceVars

LEMMA ServiceStart == ServiceInit => PartsStart /\ Playing
BY ScenesAssumption DEF ServiceInit, PartsStart, Playing

LEMMA ServiceStep == [ServiceNext]_serviceVars => PartsStep
<1> SUFFICES ASSUME [ServiceNext]_serviceVars PROVE PartsStep
  OBVIOUS
<1> USE DEF PartsStep, OfAccountPages, OfEnvelopes
<1>1. CASE PlaySession
  BY <1>1 DEF PlaySession
<1>2. CASE PlayAgent
  BY <1>2 DEF PlayAgent
<1>3. CASE PlayGate
  BY <1>3 DEF PlayGate
<1>4. CASE PlayAccount
  BY <1>4 DEF PlayAccount
<1>5. CASE PlayAnchors
  BY <1>5 DEF PlayAnchors
<1>6. CASE PlayNudges
  BY <1>6 DEF PlayNudges
<1>7. CASE PlayForward
  BY <1>7 DEF PlayForward
<1>8. CASE PlayEvidence
  BY <1>8 DEF PlayEvidence
<1>9. CASE UNCHANGED serviceVars
  BY <1>9 DEF serviceVars
<1> QED BY <1>1, <1>2, <1>3, <1>4, <1>5, <1>6, <1>7, <1>8, <1>9 DEF ServiceNext

\* Whatever the service does, each of its parts behaves as specified.
THEOREM ServicePlaysItsParts ==
  ServiceSpec => /\ SessionSpec /\ AgentSpec /\ GateSpec /\ AccountSpec
                 /\ AnchorsSpec /\ NudgesSpec /\ ForwardSpec /\ EvidenceSpec
BY ServiceStart, ServiceStep, PTL
   DEF ServiceSpec, PartsStart, PartsStep, SessionSpec, AgentSpec, GateSpec, AccountSpec,
       AnchorsSpec, NudgesSpec, ForwardSpec, EvidenceSpec

\* The part that plays keeps its types, as all parts do.
THEOREM ServiceTypes == ServiceSpec => []ServiceTypeOK
<1>1. SessionTypeOK /\ AgentTypeOK /\ GateTypeOK /\ AccountTypeOK
      /\ AnchorsTypeOK /\ NudgesTypeOK /\ ForwardTypeOK /\ EvidenceTypeOK /\ Playing
        => ServiceTypeOK
  BY DEF ServiceTypeOK, Playing, AllScenes
<1>2. Playing /\ [ServiceNext]_serviceVars => Playing'
  BY DEF Playing, ServiceNext, serviceVars, PlaySession, PlayAgent, PlayGate, PlayAccount,
         PlayAnchors, PlayNudges, PlayForward, PlayEvidence
<1>3. ServiceSpec => []Playing
  BY <1>2, ServiceStart, PTL DEF ServiceSpec
<1>4. PInv => AccountTypeOK
  BY DEF PInv
<1>5. WInv => NudgesTypeOK
  BY DEF WInv
<1>6. GInv => GateTypeOK
  BY DEF GInv
<1> QED BY <1>1, <1>3, <1>4, <1>5, <1>6, ServicePlaysItsParts, SessionTypes, DoorTypes,
           GateInvariant, AccountInvariant, AnchorTypes, NudgesInvariant, ForwardInvariant, ForwardTyped,
           EvidenceInvariant, EvidenceTyped, PTL

\* Every safety property of a part is one of the service, as it is composed
\* and checked there.
THEOREM ServiceIsSafe ==
  ServiceSpec => /\ []TokenNotStranded /\ []PaymentsKept /\ []ActsAsPresented
                 /\ []QuietPageShowsAccount /\ []AnchorFitsStatement
                 /\ []UnclearIsWatched /\ []AcceptedVerifies
                 /\ []OutageNeverLowers
BY ServicePlaysItsParts, RaceStrandsNothing, NoPaymentLost, PresentedIsActor, QuietPageIsRight,
   ProofIsOfStatement, UnclearWatched, AcceptedIsConfirmed, OutageIsHarmless, PTL
===============================================================================
