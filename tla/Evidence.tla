------------------------------ MODULE Evidence ------------------------------
(***************************************************************************)
(* Verifying a sealed bundle: what the two engines make of the embedded    *)
(* evidence, how the online confirmations fold into that verdict, and the  *)
(* /verify page that runs both in the background while files come and go.  *)
(***************************************************************************)
EXTENDS Naturals, FiniteSets

CONSTANTS
    File,       \* bundles a person may drop on the page
    Signatory,  \* the signers of each bundle
    Kind_,      \* the kinds of evidence a signer may have, a subset of Kinds
    MaxLoads    \* bound: files loaded

\* What a signer's evidence is worth, and what the world outside will say:
\* the hard checks and the RFC 3161 token; the Bitcoin proof (a contradictory
\* one anchors the token a day or more before its own time); an embedded
\* statement that verifies and matches; what the public archive holds for the
\* pair; whether the signing time is inside the recorded window.
Kinds == [hard : BOOLEAN, tsr : BOOLEAN,
          ots : {"absent", "unanchored", "anchored", "contradictory"},
          statement : BOOLEAN,
          archived : {"absent", "otherKey", "recovered", "live"},
          inWindow : BOOLEAN]
ASSUME KindsAssumption == Kind_ \subseteq Kinds
ASSUME LoadsAssumption == MaxLoads \in Nat

VARIABLES
    bundle,     \* the evidence in each file
    sound,      \* the files without structural errors whose fingerprint matches
    screen,     \* the page: status, the file behind the verdict, the verdict, and
                \* (history) the file the key answers on show are about
    stored,     \* the record kept in session storage for a reload
    loads,      \* loads under way
    folds,      \* online confirmations under way
    loaded      \* loads begun so far

evidenceVars == <<bundle, sound, screen, stored, loads, folds, loaded>>

NoFile == "none"
NoVerdict == [s \in {} |-> "none"]

Dimension == {"confirmed", "pending", "inconclusive", "failed"}
SignerVerdict == [key : Dimension, durable : Dimension, valid : Dimension,
                  listed : BOOLEAN, anchor : {"absent", "pending", "confirmed"}]

Tiers == {"FAILED", "INTEGRITY_VERIFIED", "PROVIDER_KEY_CONFIRMED", "PROVEN_DURABLE"}

-----------------------------------------------------------------------------
(* The verdict *)

ClassifyTimestampDurability(ev, anchor) ==
    IF anchor # "confirmed" \/ ~ev.tsr THEN "pending"
    ELSE IF ev.ots = "contradictory" THEN "inconclusive" ELSE "confirmed"

\* The window is not looked at before the key's provenance is known; a key the
\* archive knows by recovery alone has no window.
ValidityFromWindow(ev, key, live) ==
    IF key # "confirmed" THEN "pending"
    ELSE IF live /\ ev.inWindow THEN "confirmed" ELSE "inconclusive"

ComputeSignerTier(ev, v) ==
    IF ~ev.hard \/ ~ev.tsr \/ "failed" \in {v.key, v.durable, v.valid} THEN "FAILED"
    ELSE IF v.key # "confirmed" THEN "INTEGRITY_VERIFIED"
    ELSE IF v.durable = "confirmed" /\ v.valid = "confirmed" THEN "PROVEN_DURABLE"
    ELSE "PROVIDER_KEY_CONFIRMED"

TierRank(t) == CASE t = "FAILED" -> 0 [] t = "INTEGRITY_VERIFIED" -> 1
                 [] t = "PROVIDER_KEY_CONFIRMED" -> 2 [] OTHER -> 3

SignerTiers(f, verdict) == {ComputeSignerTier(bundle[f][s], verdict[s]) : s \in Signatory}

\* The bundle is as good as its weakest signer, and fails with its structure.
ComputeBundleTier(f, verdict) ==
    LET tiers == SignerTiers(f, verdict)
    IN IF f \notin sound THEN "FAILED"
       ELSE CHOOSE t \in tiers : \A u \in tiers : TierRank(t) <= TierRank(u)

\* What the embedded evidence says before any confirmation.
Unconfirmed(f) ==
    [s \in Signatory |->
        [key |-> "pending", durable |-> "pending", valid |-> "pending", listed |-> FALSE,
         anchor |-> IF bundle[f][s].ots = "absent" THEN "absent" ELSE "pending"]]

NoAnswer == [listed |-> FALSE, key |-> "pending", live |-> FALSE]

\* A statement that verifies under the pinned keys and matches the signer's key.
FromStatement == [listed |-> TRUE, key |-> "confirmed", live |-> TRUE]
ConfirmStatementsOffline(f) == {s \in Signatory : bundle[f][s].statement}

\* The archive's answer for one signer; an archive out of reach answers nothing.
ConfirmKeyArchive(ev, reached) ==
    IF ~reached \/ ev.archived = "absent" THEN NoAnswer
    ELSE IF ev.archived = "otherKey" THEN [NoAnswer EXCEPT !.key = "failed"]
    ELSE [listed |-> TRUE, key |-> "confirmed", live |-> ev.archived = "live"]

\* Mutant: the archive is asked for every signer.
ArchiveFirst(f, reached) ==
    [s \in Signatory |-> ConfirmKeyArchive(bundle[f][s], s \in reached)]
\* confirmKeyArchiveWeb asks the archive only for signers without a statement.
ConfirmKeyArchiveWeb(f, reached) ==
    [s \in Signatory |->
        IF s \in ConfirmStatementsOffline(f)
        THEN FromStatement
        ELSE ConfirmKeyArchive(bundle[f][s], s \in reached)]

\* A proof the calendars and a block explorer confirm, or a pending one; a
\* signer without a proof gets no answer.
ConfirmBitcoinAnchors(f, reached) ==
    [s \in {t \in Signatory : bundle[f][t].ots # "absent"} |->
        IF s \in reached /\ bundle[f][s].ots \in {"anchored", "contradictory"}
        THEN "confirmed" ELSE "pending"]

\* applyOnlineConfirmations: the answers there are replace what the verdict
\* said, and every dimension is computed anew from the verdict's own file.
ApplyOnlineConfirmations(f, verdict, bitcoin, keys) ==
    [s \in Signatory |->
        LET ev == bundle[f][s]
            was == verdict[s]
            asked == s \in DOMAIN keys
            anchor == IF s \in DOMAIN bitcoin THEN bitcoin[s] ELSE was.anchor
        IN [anchor |-> anchor,
            durable |-> ClassifyTimestampDurability(ev, anchor),
            listed |-> IF asked THEN keys[s].listed ELSE was.listed,
            key |-> IF asked THEN keys[s].key ELSE was.key,
            valid |-> IF asked THEN ValidityFromWindow(ev, keys[s].key, keys[s].live)
                      ELSE was.valid]]

None == [s \in {} |-> NoAnswer]

\* verifyBundle, verifyBundleWeb: the statements are folded in offline.
VerifyBundle(f) ==
    LET statements == [s \in ConfirmStatementsOffline(f) |-> FromStatement]
    IN IF DOMAIN statements = {}
       THEN Unconfirmed(f)
       ELSE ApplyOnlineConfirmations(f, Unconfirmed(f), None, statements)

\* runVerifyCli, online: both confirmations always run and are folded together.
RunVerifyCli(f, reachedBitcoin, reachedArchive) ==
    ApplyOnlineConfirmations(f, VerifyBundle(f),
        ConfirmBitcoinAnchors(f, reachedBitcoin), ConfirmKeyArchiveWeb(f, reachedArchive))

-----------------------------------------------------------------------------
(* The page *)

Blank == [status |-> "idle", file |-> NoFile, verdict |-> NoVerdict, asked |-> NoFile]

EvidenceInit ==
    /\ bundle \in [File -> [Signatory -> Kind_]]
    /\ sound \in SUBSET File
    /\ screen = Blank
    /\ stored = NoFile
    /\ loads = {}
    /\ folds = {}
    /\ loaded = 0

\* The drop zone is there while nothing is being verified or shown.
DropFile(f) ==
    /\ screen.status \in {"idle", "error"}
    /\ loaded < MaxLoads
    /\ loaded' = loaded + 1
    /\ loads' = loads \union {[id |-> loaded + 1, file |-> f, at |-> "reading"]}
    /\ UNCHANGED <<bundle, sound, screen, stored, folds>>

\* The bytes are read and kept for a reload (a large record is not kept), and
\* the verdict on show is cleared.
FileRead(l, kept) ==
    /\ l.at = "reading"
    /\ stored' = IF kept THEN l.file ELSE stored
    /\ loads' = (loads \ {l}) \union {[l EXCEPT !.at = "verifying"]}
    /\ screen' = [Blank EXCEPT !.status = "verifying"]
    /\ UNCHANGED <<bundle, sound, folds, loaded>>

\* A file that cannot be read, or a verifier that throws.
LoadFails(l) ==
    /\ loads' = loads \ {l}
    /\ screen' = [screen EXCEPT !.status = "error"]
    /\ UNCHANGED <<bundle, sound, stored, folds, loaded>>

\* What the page still has to ask about a verdict.
NeedsBitcoin(verdict) == \E s \in Signatory : verdict[s].anchor = "pending"
NeedsKey(verdict) == \E s \in Signatory : ~verdict[s].listed

\* The verdict is shown, and the confirmations it lacks start in the background.
BundleVerified(l) ==
    LET v == VerifyBundle(l.file)
    IN /\ l.at = "verifying"
       /\ loads' = loads \ {l}
       /\ screen' = [status |-> "done", file |-> l.file, verdict |-> v, asked |-> l.file]
       /\ folds' = IF NeedsBitcoin(v) \/ NeedsKey(v)
                   THEN folds \union {[id |-> l.id, file |-> l.file,
                                       bitcoin |-> NeedsBitcoin(v), key |-> NeedsKey(v)]}
                   ELSE folds
       /\ UNCHANGED <<bundle, sound, stored, loaded>>

\* The confirmations of a load arrive together and are folded into whatever
\* verdict is on show.
FoldIn(q, reachedBitcoin, reachedArchive) ==
    /\ folds' = folds \ {q}
    /\ screen' =
         IF screen.verdict = NoVerdict THEN screen
         ELSE [screen EXCEPT !.verdict =
                 ApplyOnlineConfirmations(screen.file, @,
                    IF q.bitcoin THEN ConfirmBitcoinAnchors(q.file, reachedBitcoin) ELSE None,
                    IF q.key THEN ConfirmKeyArchiveWeb(q.file, reachedArchive) ELSE None),
                 !.asked = IF q.key THEN q.file ELSE @]
    /\ UNCHANGED <<bundle, sound, stored, loads, loaded>>

\* "Validate another document".
StartOver ==
    /\ screen.status = "done"
    /\ screen' = Blank
    /\ stored' = NoFile
    /\ UNCHANGED <<bundle, sound, loads, folds, loaded>>

\* F5: what was under way is gone, and a kept record is verified again.
ReloadPage ==
    /\ loaded < MaxLoads
    /\ folds' = {}
    /\ IF stored = NoFile
       THEN loads' = {} /\ screen' = Blank /\ UNCHANGED loaded
       ELSE /\ loaded' = loaded + 1
            /\ loads' = {[id |-> loaded + 1, file |-> stored, at |-> "verifying"]}
            /\ screen' = [Blank EXCEPT !.status = "verifying"]
    /\ UNCHANGED <<bundle, sound, stored>>

EvidenceNext ==
    \/ \E f \in File : DropFile(f)
    \/ \E l \in loads, kept \in BOOLEAN : FileRead(l, kept)
    \/ \E l \in loads : LoadFails(l)
    \/ \E l \in loads : BundleVerified(l)
    \/ \E q \in folds : \E rb, ra \in SUBSET Signatory : FoldIn(q, rb, ra)
    \/ StartOver
    \/ ReloadPage

EvidenceSpec == EvidenceInit /\ [][EvidenceNext]_evidenceVars

-----------------------------------------------------------------------------
(* Properties *)

(* Every variable of the verifier has the type its comment gives.          *)
EvidenceTypeOK ==
    /\ bundle \in [File -> [Signatory -> Kinds]]
    /\ sound \subseteq File
    /\ screen.status \in {"idle", "verifying", "done", "error"}
    /\ screen.file \in File \union {NoFile}
    /\ screen.verdict = NoVerdict \/ screen.verdict \in [Signatory -> SignerVerdict]
    /\ stored \in File \union {NoFile}
    /\ loaded \in 0..MaxLoads

OfflineTierKept(s) ==
    LET Rank(v) == TierRank(ComputeSignerTier(bundle[screen.file][s], v[s]))
    IN Rank(screen.verdict) >= Rank(VerifyBundle(screen.file))

\* The page, like the command line, asks the archive and the calendars anew for
\* a verdict that may already be confirmed offline by an embedded statement. A
\* service that does not answer never lowers what the evidence established:
\* whichever answers of whichever loads and files were folded in, each signer's
\* tier on show is at least the offline one, unless an archive published a
\* different key, or the key answers last folded in are another file's and that
\* file has no statement for the signer.
OutageNeverLowers ==
    \A s \in DOMAIN screen.verdict :
        \/ OfflineTierKept(s)
        \/ screen.verdict[s].key = "failed"
        \/ screen.asked # screen.file /\ ~bundle[screen.asked][s].statement

\* VerifyPage.tsx:230 says that an archive out of reach never downgrades the
\* offline tier. With two files it does: the answers of the first are folded
\* into the verdict on the second.
AnyAnswersKeepTier ==
    \A s \in DOMAIN screen.verdict :
        OfflineTierKept(s) \/ screen.verdict[s].key = "failed"

\* VerifyPage.tsx says the verdict comes only from the embedded evidence: the
\* one on show for a file is the offline one, or one the command line could
\* print for that same file with some of its services out of reach.
VerdictFromItsFile ==
    screen.verdict # NoVerdict =>
        \/ screen.verdict = VerifyBundle(screen.file)
        \/ \E rb, ra \in SUBSET Signatory : screen.verdict = RunVerifyCli(screen.file, rb, ra)
=============================================================================
