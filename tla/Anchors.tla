------------------------------ MODULE Anchors ------------------------------
(***************************************************************************)
(* One signature artifact after receipt: its three OpenTimestamps anchors  *)
(* (the .eml, the key observation, the archive statement), the deferred    *)
(* chain of timestamp_upgrade runs that advances them, the wait path that  *)
(* captures a statement the archive did not serve at receipt, and the      *)
(* daily sweep that re-checks the archive's confirmation of the key.       *)
(***************************************************************************)
EXTENDS Naturals, FiniteSets

CONSTANTS
    Evaluator,      \* concurrent evaluations of the envelope's statement gate
    MaxAttempts,    \* TIMESTAMP_UPGRADE_MAX_ATTEMPTS (180 in the code)
    MaxStatements,  \* bound: statements the archive signs (a fresh one per request)
    MaxAnchorFaults \* bound: lost runs, refused schedules

ASSUME AnchorsAssumption ==
    /\ MaxAttempts \in Nat \ {0}
    /\ MaxStatements \in Nat \ {0}
    /\ MaxAnchorFaults \in Nat

VARIABLES
    art,        \* the signature_artifacts row
    links,      \* timestamp_upgrade runs still to be delivered, by attempt
    keysUsed,   \* attempts whose idempotency key the run store has seen
    upgrading,  \* the link being executed, with the row it loaded
    grabs,      \* captures under way at the gate
    signed,     \* statements the archive has signed so far
    archive,    \* what the archive knows of the key
    age,        \* the row's age seen from the sweep's window
    anchorFaults

anchorVars == <<art, links, keysUsed, upgrading, grabs, signed, archive, age, anchorFaults>>

NoProof == [status |-> "none", of |-> 0]
Pending(n) == [status |-> "pending", of |-> n]
Proof == [status : {"none", "pending", "complete"}, of : 0..MaxStatements]

\* The .eml and the observed key are digest 0, statement n is digest n.
ArtRow == [there : BOOLEAN, eml : Proof, tsStatus : {"pending", "complete"},
           observed : BOOLEAN, keyObs : Proof, statement : 0..MaxStatements,
           stmtOts : Proof, confirmation : {"confirmed", "unconfirmed", "outage"}]
NoArt == [there |-> FALSE, eml |-> NoProof, tsStatus |-> "pending", observed |-> FALSE,
          keyObs |-> NoProof, statement |-> 0, stmtOts |-> NoProof,
          confirmation |-> "unconfirmed"]

NotUpgrading == [attempt |-> 0, copy |-> NoArt]
NoGrab == [at |-> "idle", statement |-> 0, ots |-> NoProof]

AnchorsInit ==
    /\ art = NoArt
    /\ links = {}
    /\ keysUsed = {}
    /\ upgrading = NotUpgrading
    /\ grabs = [e \in Evaluator |-> NoGrab]
    /\ signed = 0
    /\ archive \in {"absent", "otherKey", "recovered", "live"}
    /\ age = "new"
    /\ anchorFaults = 0

AnchorFault == anchorFaults < MaxAnchorFaults /\ anchorFaults' = anchorFaults + 1
NoAnchorFault == UNCHANGED anchorFaults

\* stamp() answers a pending proof; an error or a deadline leaves none.
Stamped(n) == {NoProof, Pending(n)}
\* upgrade() answers the same proof or its completion.
Upgraded(p) == {p, [p EXCEPT !.status = "complete"]}

\* What confirmKeyAtSigning answers, and what its nudge leaves in the archive.
ConfirmKeyAtSigning(observed, known) ==
    CASE known = "live" /\ observed -> {<<"confirmed", known>>}
      [] known # "absent" /\ ~observed -> {<<"unconfirmed", known>>}
      [] OTHER -> {<<"unconfirmed", known>>, <<"unconfirmed", "live">>}
Confirmation(observed) ==
    ConfirmKeyAtSigning(observed, archive) \union {<<"outage", archive>>}

\* createRun under `<id>:tsup:<attempt>`: a key the store has seen makes no
\* new run, and a refusal is logged and forgotten.
ScheduleTimestampUpgrade(n, rest) ==
    \/ /\ links' = IF n \in keysUsed THEN rest ELSE rest \union {n}
       /\ keysUsed' = keysUsed \union {n}
       /\ NoAnchorFault
    \/ /\ AnchorFault
       /\ links' = rest
       /\ UNCHANGED keysUsed

ArtifactHasPendingOts(a) ==
    \/ a.tsStatus = "pending"
    \/ a.keyObs.status = "pending"
    \/ a.stmtOts.status = "pending"

-----------------------------------------------------------------------------
(* Receipt *)

\* A statement is served for a key the archive has seen live in DNS.
Serves == archive = "live" /\ art.observed /\ signed < MaxStatements

\* The artifact is assembled from whatever the stamps, the key lookup, the
\* archive and the statement service answered, and the chain is started.
AssembleSignatureArtifact(eml, observed, keyObs, conf, statement, ots) ==
    /\ ~art.there
    /\ ~observed => keyObs = NoProof /\ statement = 0
    /\ statement # 0 => conf[2] = "live"
    /\ statement = 0 => ots = NoProof
    /\ art' = [there |-> TRUE, eml |-> eml, tsStatus |-> "pending",
               observed |-> observed, keyObs |-> keyObs, statement |-> statement,
               stmtOts |-> ots, confirmation |-> conf[1]]
    /\ archive' = conf[2]
    /\ signed' = statement
    /\ ScheduleTimestampUpgrade(1, links)
    /\ UNCHANGED <<upgrading, grabs, age>>

Receipt ==
    \E eml \in Stamped(0), observed \in BOOLEAN, keyObs \in Stamped(0), statement \in 0..1 :
      \E conf \in Confirmation(observed), ots \in Stamped(1) :
        AssembleSignatureArtifact(eml, observed, keyObs, conf, statement, ots)

-----------------------------------------------------------------------------
(* The upgrade chain *)

\* A link is delivered: it loads the row, and ends at once if nothing pends.
StartLink(n) ==
    /\ n \in links
    /\ upgrading.attempt = 0
    /\ IF ArtifactHasPendingOts(art)
       THEN /\ upgrading' = [attempt |-> n, copy |-> art]
            /\ UNCHANGED links
       ELSE /\ links' = links \ {n}
            /\ UNCHANGED upgrading
    /\ NoAnchorFault
    /\ UNCHANGED <<art, keysUsed, grabs, signed, archive, age>>

\* What advanceAux writes for an auxiliary proof: nothing unless it pended.
Advanced(p) == IF p.status = "pending" THEN Upgraded(p) ELSE {NoProof}

\* updateArtifactTimestamps: a column keeps its value where nothing is given.
Coalesce(new, old) == IF new = NoProof THEN old ELSE new
UpdateArtifactTimestamps(eml, keyObs, ots) ==
    [art EXCEPT !.eml = eml,
                !.tsStatus = IF eml.status = "complete" THEN "complete" ELSE @,
                !.keyObs = Coalesce(keyObs, @),
                !.stmtOts = Coalesce(ots, @)]

\* The chain goes on, or has used up its attempts.
NextLink(n) ==
    IF n < MaxAttempts
    THEN ScheduleTimestampUpgrade(n + 1, links \ {n})
    ELSE links' = links \ {n} /\ NoAnchorFault /\ UNCHANGED keysUsed
EndOfChain(n) == links' = links \ {n} /\ NoAnchorFault /\ UNCHANGED keysUsed

\* upgradeOneArtifact: the missing .eml proof is stamped or the one loaded is
\* upgraded, the auxiliary ones advanced, and all of it saved from the copy.
UpgradeOneArtifact(eml, keyObs, ots) ==
    LET n == upgrading.attempt
        copy == upgrading.copy
        auxPending == \/ Coalesce(keyObs, copy.keyObs).status = "pending"
                      \/ Coalesce(ots, copy.stmtOts).status = "pending"
    IN /\ n # 0
       /\ eml \in (IF copy.eml = NoProof THEN {Pending(0)} ELSE Upgraded(copy.eml))
       /\ keyObs \in Advanced(copy.keyObs)
       /\ ots \in Advanced(copy.stmtOts)
       /\ art' = UpdateArtifactTimestamps(eml, keyObs, ots)
       /\ IF eml.status = "complete" /\ ~auxPending THEN EndOfChain(n) ELSE NextLink(n)
       /\ upgrading' = NotUpgrading
       /\ UNCHANGED <<grabs, signed, archive, age>>

\* The provider or the save failed: nothing is written, the chain goes on.
UpgradeErrs ==
    /\ upgrading.attempt # 0
    /\ NextLink(upgrading.attempt)
    /\ upgrading' = NotUpgrading
    /\ UNCHANGED <<art, grabs, signed, archive, age>>

\* The process running a link dies; the run is delivered again.
LinkDies ==
    /\ upgrading.attempt # 0
    /\ upgrading' = NotUpgrading
    /\ AnchorFault
    /\ UNCHANGED <<art, links, keysUsed, grabs, signed, archive, age>>

Upgrade ==
    \E p, q \in {"none", "pending", "complete"}, eml \in {Pending(0), [status |-> "complete", of |-> 0]} :
      \E d \in 0..MaxStatements :
        UpgradeOneArtifact(eml, [status |-> p, of |-> 0], [status |-> q, of |-> d])

-----------------------------------------------------------------------------
(* The statement gate's capture *)

CapturableMissing == art.there /\ art.statement = 0 /\ art.observed

\* An evaluation finds the statement missing and is served a fresh one, whose
\* digest it stamps.
CaptureArchiveStatement(e, ots) ==
    /\ grabs[e].at = "idle"
    /\ CapturableMissing
    /\ Serves
    /\ signed' = signed + 1
    /\ ots \in Stamped(signed + 1)
    /\ grabs' = [grabs EXCEPT ![e] = [at |-> "save", statement |-> signed + 1, ots |-> ots]]
    /\ NoAnchorFault
    /\ UNCHANGED <<art, links, keysUsed, upgrading, archive, age>>

Capture(e) == \E d \in 1..MaxStatements : \E ots \in Stamped(d) : CaptureArchiveStatement(e, ots)

\* Mutant: a second capture's statement replaces the first, its proof is not.
SaveOverAnother(g) ==
    [art EXCEPT !.statement = g.statement,
                !.stmtOts = IF art.stmtOts.status = "none" THEN g.ots ELSE art.stmtOts]
\* UPDATE ... WHERE archive_statement IS NULL: the first capture is kept.
UpdateArtifactArchiveStatement(g) ==
    IF art.statement = 0
    THEN [art EXCEPT !.statement = g.statement, !.stmtOts = g.ots]
    ELSE art

SaveStatement(e) ==
    /\ grabs[e].at = "save"
    /\ art' = UpdateArtifactArchiveStatement(grabs[e])
    /\ grabs' = [grabs EXCEPT ![e] = NoGrab]
    /\ NoAnchorFault
    /\ UNCHANGED <<links, keysUsed, upgrading, signed, archive, age>>

-----------------------------------------------------------------------------
(* The archive and the daily sweep *)

\* The archive observes the signer's key in DNS.
ArchiveObserves ==
    /\ archive # "live"
    /\ archive' = "live"
    /\ NoAnchorFault
    /\ UNCHANGED <<art, links, keysUsed, upgrading, grabs, signed, age>>

RowAges ==
    /\ age # "old"
    /\ age' = IF age = "new" THEN "due" ELSE "old"
    /\ NoAnchorFault
    /\ UNCHANGED <<art, links, keysUsed, upgrading, grabs, signed, archive>>

UpdateArtifactArchiveConfirmation(c) == art' = [art EXCEPT !.confirmation = c]

\* The sweep lists rows 24 to 48 hours old whose confirmation is not clean
\* and records what a fresh check answers.
RunArchiveReconciliation(conf) ==
    /\ art.there /\ age = "due"
    /\ art.confirmation # "confirmed"
    /\ UpdateArtifactArchiveConfirmation(conf[1])
    /\ archive' = conf[2]
    /\ NoAnchorFault
    /\ UNCHANGED <<links, keysUsed, upgrading, grabs, signed, age>>

Sweep == \E conf \in Confirmation(art.observed) : RunArchiveReconciliation(conf)

-----------------------------------------------------------------------------
AnchorsNext ==
    \/ Receipt
    \/ \E n \in 1..MaxAttempts : StartLink(n)
    \/ Upgrade
    \/ UpgradeErrs
    \/ LinkDies
    \/ \E e \in Evaluator : Capture(e)
    \/ \E e \in Evaluator : SaveStatement(e)
    \/ ArchiveObserves
    \/ RowAges
    \/ Sweep

AnchorsSpec == AnchorsInit /\ [][AnchorsNext]_anchorVars

-----------------------------------------------------------------------------
(* Properties *)

(* Every variable of the anchors has the type its comment gives.           *)
AnchorsTypeOK ==
    /\ art \in ArtRow
    /\ links \subseteq 1..MaxAttempts
    /\ keysUsed \subseteq 1..MaxAttempts
    /\ upgrading \in [attempt : 0..MaxAttempts, copy : ArtRow]
    /\ grabs \in [Evaluator -> [at : {"idle", "save"}, statement : 0..MaxStatements, ots : Proof]]
    /\ signed \in 0..MaxStatements
    /\ archive \in {"absent", "otherKey", "recovered", "live"}
    /\ age \in {"new", "due", "old"}
    /\ anchorFaults \in 0..MaxAnchorFaults

\* The Bitcoin proof kept with a statement is a proof of that statement, in
\* whatever order two captures and a link that loaded the row earlier save.
AnchorFitsStatement ==
    art.stmtOts.status # "none" => art.stmtOts.of = art.statement

\* timestampSchedule.ts says the chain stays while any of the artifact's
\* anchors pends, and its own bound and its faults aside, it does: an anchor
\* that pends has a link that will advance it.
PendingAnchorHasLink ==
    (art.there /\ ArtifactHasPendingOts(art) /\ anchorFaults = 0 /\ MaxAttempts \notin keysUsed)
        => links # {}
=============================================================================
