------------------------------- MODULE Forward -------------------------------
(***************************************************************************)
(* The signing checks on a forwarded message, the key record kept with an  *)
(* accepted one, and the same checks made again, offline, by the two       *)
(* engines that verify the sealed bundle: mailauth behind the command line *)
(* and WebCrypto behind the browser page.                                  *)
(***************************************************************************)
EXTENDS Naturals, Sequences, FiniteSets

CONSTANTS
    Member,             \* the invited signers, people of one organisation
    Mail_,              \* what they may send, a subset of Mails
    EnforceSenderAuth,  \* whether the operator rejects on SPF and DMARC
    MaxMails,           \* bound: messages sent
    MaxRotations_       \* bound: times a provider replaces a key in place

\* Who signs a message: the signers' own domain, a relay on the way, or the
\* mail provider's fallback for a domain without DKIM. One selector each.
Pair == {"own", "relay", "fallback"}
DkimSignature == [by : Pair, algo : {"rsa", "ed25519", "sha1"},
                  lapses : BOOLEAN, length : BOOLEAN]

\* The first visible line of a text part, what came back of the document, the
\* receipt verdict, and whether Microsoft's ARC seal comes first and verifies.
Line == {"phrase", "other", "blank", "absent"}
Mails == [signatures : Seq(DkimSignature), plain : Line, html : Line,
          pdf : {"ours", "modified", "missing"}, fails : SUBSET {"spf", "dmarc"},
          arcMicrosoft : BOOLEAN]
ASSUME MailAssumption == Mail_ \subseteq Mails
ASSUME SenderAuthAssumption == EnforceSenderAuth \in BOOLEAN
ASSUME ForwardAssumption ==
    IsFiniteSet(Member) /\ MaxMails \in Nat /\ MaxRotations_ \in Nat

VARIABLES
    dns,        \* the generation of key each pair publishes
    lapsed,     \* a week has passed: the early messages are past their x=
    inbox,      \* the message of each signer under way, or NoMail
    membership, \* the signer rows: status, last problem, problems told
    observed,   \* the signature artifacts
    order,      \* the signers in the order they signed
    sealed,     \* the bundle's evidence, empty until it is assembled
    mails       \* messages sent so far

forwardVars == <<dns, lapsed, inbox, membership, observed, order, sealed, mails>>

NoMail == [at |-> "none"]
NoKey == 0
NoArtifact == [pair |-> "none"]

-----------------------------------------------------------------------------
(* The checks *)

\* mailauth on one signature, with the key it is served: an absent key or a
\* signature past its expiry cannot be judged, another key refutes it.
MailauthResult(m, s, key) ==
    IF key = NoKey \/ (s.lapses /\ m.early /\ lapsed) THEN "neutral"
    ELSE IF key # m.gen[s.by] THEN "fail" ELSE "pass"

\* The browser's engine: rsa-sha256 only, and no expiry.
WebResult(m, s, key) ==
    IF s.algo # "rsa" \/ key = NoKey THEN "neutral"
    ELSE IF key # m.gen[s.by] THEN "fail" ELSE "pass"

\* evaluateDkimPolicy: the first signature that passes and is the From
\* domain's own decides; without one, the reason names the likeliest cause.
Verdict(ok, reason, by) == [ok |-> ok, reason |-> reason, by |-> by]
EvaluateDkimPolicy(signatures, result) ==
    LET N == DOMAIN signatures
        passing == {n \in N : result[n] = "pass"}
        aligned == {n \in passing : signatures[n].by = "own"}
        first == CHOOSE n \in aligned : \A k \in aligned : n <= k
        Not(reason) == Verdict(FALSE, reason, NoKey)
    IN IF \E n \in N : signatures[n].length THEN Not("body_length_tag")
       ELSE IF N = {} THEN Not("no_signature")
       ELSE IF aligned # {}
       THEN IF signatures[first].algo = "sha1" THEN Not("weak_algorithm")
            ELSE Verdict(TRUE, "none", first)
       ELSE IF passing # {} THEN Not("misaligned")
       ELSE IF \E n \in N : result[n] = "fail" THEN Not("invalid_signature")
       ELSE Not("missing_key")

\* keys: what a lookup of each pair's key returns.
VerifyDkim(m, keys) ==
    LET Result(s) == MailauthResult(m, s, keys[s.by])
    IN EvaluateDkimPolicy(m.signatures, [n \in DOMAIN m.signatures |-> Result(m.signatures[n])])

\* Mutant: only the top signature is looked at.
FirstOnly(m, keys) ==
    LET top == SubSeq(m.signatures, 1, 1)
    IN EvaluateDkimPolicy(top, [n \in DOMAIN top |-> WebResult(m, top[n], keys[top[n].by])])
VerifyDkimWeb(m, keys) ==
    LET Result(s) == WebResult(m, s, keys[s.by])
    IN EvaluateDkimPolicy(m.signatures, [n \in DOMAIN m.signatures |-> Result(m.signatures[n])])

\* diagnoseProviderNoDkim: for the messaging only, the verdict stands. Every
\* signature is the provider's fallback and one passes, or nobody signed and
\* the chain of seals verifies from Microsoft's on.
VerifiedFirstArcSealer(m) == IF m.arcMicrosoft THEN "microsoft" ELSE "none"
DiagnoseProviderNoDkim(m, reason) ==
    LET signers == {m.signatures[n].by : n \in DOMAIN m.signatures}
    IN IF reason = "misaligned" /\ signers = {"fallback"} THEN "google_workspace_no_dkim"
       ELSE IF signers = {} /\ VerifiedFirstArcSealer(m) = "microsoft"
       THEN "microsoft_365_no_dkim" ELSE "dkim_unverifiable"

EvaluateSenderAuth(m) == m.fails = {}

\* The text the intent is read from: the first text/plain part, and the HTML
\* only when there is none; its first visible line has to be the phrase.
ExtractSigningText(m) == IF m.plain # "absent" THEN m.plain ELSE m.html
ValidateSigningIntent(m) == ExtractSigningText(m) = "phrase"

\* Any PDF part, however nested, with the bytes that were sent to this signer.
ExtractPdfAttachments(m) == m.pdf
CheckForwardedAttachment(m) == ExtractPdfAttachments(m) = "ours"

\* processForward's checks in their order, as the class of problem the signer
\* is told, or "none" for a message that signs.
ProcessForward(m, keys) ==
    LET dkim == VerifyDkim(m, keys)
    IN IF EnforceSenderAuth /\ ~EvaluateSenderAuth(m) THEN "sender_auth"
       ELSE IF ~dkim.ok THEN DiagnoseProviderNoDkim(m, dkim.reason)
       ELSE IF ~ValidateSigningIntent(m) THEN "wrong_phrase"
       ELSE IF CheckForwardedAttachment(m) THEN "none"
       ELSE IF ExtractPdfAttachments(m) = "missing" THEN "attachment_missing" ELSE "attachment_modified"

-----------------------------------------------------------------------------
(* A message and its artifact *)

ForwardInit ==
    /\ dns = [p \in Pair |-> 1]
    /\ lapsed = FALSE
    /\ inbox = [i \in Member |-> NoMail]
    /\ membership = [i \in Member |-> [status |-> "pending", problem |-> "none", told |-> {}]]
    /\ observed = [i \in Member |-> NoArtifact]
    /\ order = <<>>
    /\ sealed = <<>>
    /\ mails = 0

\* The signer forwards the request; the servers on the way sign with the keys
\* they publish at that moment.
Send(i, c) ==
    /\ inbox[i] = NoMail
    /\ mails < MaxMails
    /\ mails' = mails + 1
    /\ inbox' = [inbox EXCEPT ![i] =
         [signatures |-> c.signatures, plain |-> c.plain, html |-> c.html, pdf |-> c.pdf,
          fails |-> c.fails, arcMicrosoft |-> c.arcMicrosoft,
          gen |-> dns, early |-> ~lapsed, at |-> "arrived", by |-> 0]]
    /\ UNCHANGED <<dns, lapsed, membership, observed, order, sealed>>

\* A provider replaces the key of a selector; a week goes by.
RotateKey(p) ==
    /\ dns[p] <= MaxRotations_
    /\ dns' = [dns EXCEPT ![p] = @ + 1]
    /\ UNCHANGED <<lapsed, inbox, membership, observed, order, sealed, mails>>

WeekPasses ==
    /\ ~lapsed
    /\ lapsed' = TRUE
    /\ UNCHANGED <<dns, inbox, membership, observed, order, sealed, mails>>

\* After the corrective bounce: the latest problem on the signer's row, and the
\* creator told once per kind of problem, by claiming the kind on the row.
RecordSignerRejection(m, problem) == [m EXCEPT !.problem = problem]
ClaimRejectionNotice(m, problem) == [m EXCEPT !.told = @ \union {problem}]
RecordAndNotifyRejection(i, problem) ==
    [membership EXCEPT ![i] = ClaimRejectionNotice(RecordSignerRejection(@, problem), problem)]

\* handleReplyReceived up to the recorded signature. A signer who has signed is
\* acknowledged again; a closed envelope gets a terminal note; a message that
\* passes flips the row. Lookups may find a name server out of reach.
HandleReplyReceived(i, dark) ==
    LET m == inbox[i]
        keys == [p \in Pair |-> IF p \in dark THEN NoKey ELSE dns[p]]
        problem == ProcessForward(m, keys)
    IN /\ m # NoMail
       /\ m.at = "arrived"
       /\ IF membership[i].status = "signed" \/ sealed # <<>>
          THEN /\ inbox' = [inbox EXCEPT ![i] = NoMail]
               /\ UNCHANGED <<membership, order>>
          ELSE IF problem # "none"
          THEN /\ inbox' = [inbox EXCEPT ![i] = NoMail]
               /\ membership' = RecordAndNotifyRejection(i, problem)
               /\ UNCHANGED order
          ELSE /\ inbox' = [inbox EXCEPT ![i] = [@ EXCEPT !.at = "recorded", !.by = VerifyDkim(m, keys).by]]
               /\ membership' = [membership EXCEPT ![i].status = "signed"]
               /\ order' = Append(order, i)
       /\ UNCHANGED <<dns, lapsed, observed, sealed, mails>>

\* The artifact: stamps first, so the key is looked up seconds after the
\* signature was checked, by a query of its own that may come back empty.
KeepArtifact(i, found) ==
    LET m == inbox[i] IN
    /\ m # NoMail
    /\ m.at = "recorded"
    /\ observed' = [observed EXCEPT ![i] =
         [mail |-> m, pair |-> m.signatures[m.by].by,
          key |-> IF found THEN dns[m.signatures[m.by].by] ELSE NoKey]]
    /\ inbox' = [inbox EXCEPT ![i] = NoMail]
    /\ UNCHANGED <<dns, lapsed, membership, order, sealed, mails>>

\* The run dies before the artifact is stored and the message is delivered again.
RunLost(i) ==
    /\ inbox[i] # NoMail
    /\ inbox[i].at = "recorded"
    /\ inbox' = [inbox EXCEPT ![i].at = "arrived"]
    /\ UNCHANGED <<dns, lapsed, membership, observed, order, sealed, mails>>

\* prepareBundle defers while a signer's artifact is missing; then every
\* signer's message and key record go in, by signing time.
PrepareBundle == \A i \in Member : membership[i].status = "signed" /\ observed[i] # NoArtifact
BuildEvidenceManifest == [n \in DOMAIN order |-> observed[order[n]]]
AssembleBundle ==
    /\ sealed = <<>>
    /\ PrepareBundle
    /\ sealed' = BuildEvidenceManifest
    /\ UNCHANGED <<dns, lapsed, inbox, membership, observed, order, mails>>

ForwardNext ==
    \/ \E i \in Member, c \in Mail_ : Send(i, c)
    \/ \E p \in {"own", "relay"} : RotateKey(p)
    \/ WeekPasses
    \/ \E i \in Member, dark \in SUBSET {"own", "relay"} : HandleReplyReceived(i, dark)
    \/ \E i \in Member, found \in BOOLEAN : KeepArtifact(i, found)
    \/ \E i \in Member : RunLost(i)
    \/ AssembleBundle

ForwardSpec == ForwardInit /\ [][ForwardNext]_forwardVars

-----------------------------------------------------------------------------
(* The bundle verified *)

\* keys.json holds one record per signer; both engines take the first of the
\* pair they look for.
KeysInBundle ==
    [p \in Pair |->
        LET hits == {n \in DOMAIN sealed : sealed[n].pair = p}
        IN IF hits = {} THEN NoKey
           ELSE sealed[CHOOSE n \in hits : \A k \in hits : n <= k].key]

BundleDkim(n) == VerifyDkim(sealed[n].mail, KeysInBundle).ok
BundleDkimWeb(n) == VerifyDkimWeb(sealed[n].mail, KeysInBundle).ok

\* The signature that signed signer n's message in, and the key behind it.
Accepted(n) == sealed[n].mail.signatures[sealed[n].mail.by]
SignedWith(n) == sealed[n].mail.gen[sealed[n].pair]

-----------------------------------------------------------------------------
(* Properties *)

(* Every variable of the checks on a forward has the type its comment gives. *)
ForwardTypeOK ==
    /\ dns \in [Pair -> 1..MaxRotations_ + 1]
    /\ lapsed \in BOOLEAN
    /\ \A i \in Member : inbox[i] # NoMail => inbox[i].at \in {"arrived", "recorded"}
    /\ \A i \in Member : membership[i].status \in {"pending", "signed"}
    /\ \A i \in Member : observed[i] # NoArtifact => observed[i].pair = "own"
    /\ Len(order) <= Cardinality(Member)
    /\ mails \in 0..MaxMails

\* The gate at receipt and the verifier run years later look at the same
\* message with different engines and different keys: live DNS for one,
\* keys.json, shared with the other signers, for the other. A signature that
\* was accepted is confirmed by the browser's engine, whatever other
\* signatures the message carries and whoever else signed, except for three
\* reasons: it is not rsa-sha256; the key kept is not the one that signed, as
\* the lookup came after a rotation or came back empty; or an earlier signer's
\* record of the same selector stands before it with another key.
AcceptedVerifies ==
    \A n \in DOMAIN sealed :
        \/ BundleDkimWeb(n)
        \/ Accepted(n).algo # "rsa"
        \/ sealed[n].key # SignedWith(n)
        \/ \E k \in 1..n - 1 : sealed[k].pair = sealed[n].pair /\ sealed[k].key # SignedWith(n)

\* verifyCli.ts says the command line and the page always agree.
EnginesAgree == \A n \in DOMAIN sealed : BundleDkim(n) = BundleDkimWeb(n)
=============================================================================
