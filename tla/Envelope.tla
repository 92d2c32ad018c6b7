------------------------------ MODULE Envelope ------------------------------
(***************************************************************************)
(* One envelope of the signing service, from its creation to the delivery  *)
(* of its evidence bundle.                                                 *)
(*                                                                         *)
(* The service has no transactions: every pool.query is atomic and another *)
(* handler may run between two of them.  Each handler is therefore a small *)
(* program whose location and local values are variables, and a step is    *)
(* what one handler does up to its next await on shared state:             *)
(*   - forward workers: the reply_received runs that record signatures;    *)
(*   - the creator: add, edit, rename, delete a signer, void, one request  *)
(*     at a time;                                                          *)
(*   - distributors: the completion_distribute run, the creator's seal     *)
(*     request and the statement_wait_recheck run, which share             *)
(*     distributeEnvelopeBundle;                                           *)
(*   - the envelope_expire run.                                            *)
(* A per-signer PDF P_i is a version number of that signer: 1 is what the  *)
(* creation sent, an edit or a re-invitation issues the next one.  The     *)
(* signing_token of a row is the version the row was inserted with.        *)
(***************************************************************************)
EXTENDS Naturals, FiniteSets

CONSTANTS
  Signer,         \* e-mail addresses that may be invited
  Invited,        \* the ones the envelope is created with
  Worker,         \* reply_received runs that may be in progress at once
  MaxPdf,         \* bound: PDFs ever issued to one signer
  MaxRequests,    \* bound: requests the creator makes
  AutoCloseModes, \* values of auto_close to consider
  MayWait         \* the statement gate may keep a bundle back

ASSUME EnvelopeAssumption ==
  /\ Invited \subseteq Signer
  /\ Invited # {}
  /\ MaxPdf \in Nat \ {0}
  /\ MaxRequests \in Nat
  /\ AutoCloseModes \subseteq BOOLEAN
  /\ MayWait \in BOOLEAN

VARIABLES
  \* the database and the blob store
  status,         \* envelopes.status
  autoClose,      \* envelopes.auto_close
  distributed,    \* envelopes.completion_distributed_at is set
  row,            \* envelope_signers.status by address, "absent" = no row
  token,          \* envelope_signers.signing_token
  pdf,            \* envelope_signers.sent_pdf_hash: version expected back
  cover,          \* cover blobs by token: version of the cover, 0 = no blob
  artifact,       \* signature_artifacts: version in the kept .eml, 0 = none
  docStored,      \* the shared document D is in the blob store
  refunded,       \* the refund row is in credit_ledger
  \* the world
  issued,         \* PDFs ever issued to each signer
  inbox,          \* versions that reached each signer by mail
  delivered,      \* entries of the bundles that were mailed (history)
  requests,       \* requests the creator has made
  expiry,         \* the envelope_expire run
  \* forward workers
  wpc, wfrom, wpdf,
  \* the creator's request
  cpc, ckind, cto, cnew, cseen,
  \* distributors
  dpc, dwho, dbundle

dbVars     == <<status, autoClose, distributed, row, token, pdf, cover,
                artifact, docStored, refunded>>
worldVars  == <<issued, inbox, delivered, requests, expiry>>
workerVars == <<wpc, wfrom, wpdf>>
creatorVars == <<cpc, ckind, cto, cnew, cseen>>
distVars   == <<dpc, dwho, dbundle>>
vars == <<dbVars, worldVars, workerVars, creatorVars, distVars>>

-----------------------------------------------------------------------------
Distributor == {"run", "seal", "recheck"}
Version     == 1..MaxPdf
Token       == 0..MaxPdf   \* 0: no row, no token

Statuses  == {"active", "awaiting_seal", "completed", "expired", "voided"}
RowStates == {"absent", "pending", "signed", "superseded"}
WorkerPcs == {"idle", "verified", "assemble", "enqueue", "retry"}
CreatorPcs == {"idle", "reopen", "cover", "update", "delete", "insert",
               "mail", "void", "refund", "purge"}
Kinds == {"add", "edit", "rename", "delete", "void"}
DistPcs == {"off", "queued", "park", "complete", "prepare", "send", "stamp",
            "done"}
ExpiryStates == {"none", "armed", "purging", "done"}

(* One entry of a bundle: a signer, the cover put in, the .eml put in. *)
BundleEntry == [signer : Signer, cover : Version, eml : Version]

Present   == {e \in Signer : row[e] # "absent"}
AllSigned == Present # {} /\ \A e \in Present : row[e] = "signed"
Open      == status \in {"active", "awaiting_seal"}
AnySigner == CHOOSE e \in Signer : TRUE

Init ==
  /\ status = "active"
  /\ autoClose \in AutoCloseModes
  /\ distributed = FALSE
  /\ row = [e \in Signer |-> IF e \in Invited THEN "pending" ELSE "absent"]
  /\ token = [e \in Signer |-> IF e \in Invited THEN 1 ELSE 0]
  /\ pdf = token
  /\ cover = [e \in Signer |->
                [t \in Token |-> IF t = token[e] THEN token[e] ELSE 0]]
  /\ artifact = [e \in Signer |-> 0]
  /\ docStored = TRUE
  /\ refunded = FALSE
  /\ issued = token
  /\ inbox = [e \in Signer |-> IF e \in Invited THEN {1} ELSE {}]
  /\ delivered = {}
  /\ requests = 0
  /\ expiry \in {"none", "armed"}
  /\ wpc = [w \in Worker |-> "idle"]
  /\ wfrom = [w \in Worker |-> AnySigner]
  /\ wpdf = [w \in Worker |-> 0]
  /\ cpc = "idle"
  /\ ckind = "add"
  /\ cto = AnySigner
  /\ cnew = AnySigner
  /\ cseen = "absent"
  /\ dpc = [d \in Distributor |-> "off"]
  /\ dwho = [d \in Distributor |-> {}]
  /\ dbundle = [d \in Distributor |-> {}]

-----------------------------------------------------------------------------
(***************************************************************************)
(* Forward workers.  A signer forwards a mail that carries version v; the  *)
(* platform starts a run for the message and runs it again when it throws  *)
(* or its process dies.                                                    *)
(***************************************************************************)

(* Mutant: the envelope's status is not looked at. *)
AcceptableAnytime(e, v) ==
  row[e] \in {"pending", "superseded"} /\ v = pdf[e]

(* A still unsigned row, an open envelope and the PDF that was last sent. *)
Acceptable(e, v) ==
  /\ row[e] \in {"pending", "superseded"}
  /\ Open
  /\ v = pdf[e]

(* Mutant: a retried forward of a signer who has signed is a duplicate, and *)
(* a duplicate has nothing left to do.                                      *)
VerifyDropsDuplicates(w, e, v) ==
  /\ wpc' = [wpc EXCEPT ![w] = IF Acceptable(e, v) THEN "verified" ELSE "idle"]
  /\ IF Acceptable(e, v)
     THEN /\ wfrom' = [wfrom EXCEPT ![w] = e]
          /\ wpdf' = [wpdf EXCEPT ![w] = v]
     ELSE /\ wfrom' = [wfrom EXCEPT ![w] = AnySigner]
          /\ wpdf' = [wpdf EXCEPT ![w] = 0]
  /\ UNCHANGED <<dbVars, worldVars, creatorVars, distVars>>

(* The checks of processForward, up to the UPDATE that records the         *)
(* signature; it awaits DNS lookups in between.  A forward that is neither *)
(* acceptable nor from a signed signer is dropped or bounced: run over.    *)
Verify(w, e, v) ==
  /\ wpc' = [wpc EXCEPT ![w] =
       IF row[e] = "signed" THEN "enqueue"
       ELSE IF Acceptable(e, v) THEN "verified" ELSE "idle"]
  /\ IF row[e] = "signed" \/ Acceptable(e, v)
     THEN /\ wfrom' = [wfrom EXCEPT ![w] = e]
          /\ wpdf' = [wpdf EXCEPT ![w] = v]
     ELSE /\ wfrom' = [wfrom EXCEPT ![w] = AnySigner]
          /\ wpdf' = [wpdf EXCEPT ![w] = 0]
  /\ UNCHANGED <<dbVars, worldVars, creatorVars, distVars>>

ForwardArrives(w, e, v) ==
  /\ wpc[w] = "idle"
  /\ v \in inbox[e]
  /\ row[e] = "signed" \/ Acceptable(e, v)
  /\ Verify(w, e, v)

WorkerRetries(w) ==
  /\ wpc[w] = "retry"
  /\ Verify(w, wfrom[w], wpdf[w])

(* markSignerSignedByEmail: any row of that address that is not signed yet. *)
RecordSignature(w) ==
  /\ wpc[w] = "verified"
  /\ LET flips == row[wfrom[w]] \in {"pending", "superseded"} IN
     /\ row' = IF flips THEN [row EXCEPT ![wfrom[w]] = "signed"] ELSE row
     /\ wpc' = [wpc EXCEPT ![w] = IF flips THEN "assemble" ELSE "enqueue"]
  /\ UNCHANGED <<status, autoClose, distributed, token, pdf, cover, artifact,
                 docStored, refunded, worldVars, wfrom, wpdf, creatorVars,
                 distVars>>

(* The artifact row is inserted unless there is one (ON CONFLICT DO        *)
(* NOTHING); an assembly that throws is swallowed.                         *)
KeepArtifact(e, v) == IF artifact[e] = 0 THEN v ELSE artifact[e]

AssembleArtifact(w) ==
  /\ wpc[w] = "assemble"
  /\ \/ artifact' = [artifact EXCEPT ![wfrom[w]] =
                       KeepArtifact(wfrom[w], wpdf[w])]
     \/ UNCHANGED artifact
  /\ wpc' = [wpc EXCEPT ![w] = "enqueue"]
  /\ UNCHANGED <<status, autoClose, distributed, row, token, pdf, cover,
                 docStored, refunded, worldVars, wfrom, wpdf, creatorVars,
                 distVars>>

(* createRun keyed <envelopeId>:completion: a second create with the same  *)
(* key returns the run there is, finished or not.                          *)
CreateCompletionRun ==
  dpc' = IF dpc["run"] = "off" THEN [dpc EXCEPT !["run"] = "queued"] ELSE dpc

(* checkAllSigned and the createRun after it.  Between the two only the    *)
(* answer of the first can go stale, and the run decides again by itself.  *)
EnqueueCompletion(w) ==
  /\ wpc[w] = "enqueue"
  /\ IF AllSigned THEN CreateCompletionRun ELSE UNCHANGED dpc
  /\ wpc' = [wpc EXCEPT ![w] = "idle"]
  /\ wfrom' = [wfrom EXCEPT ![w] = AnySigner]
  /\ wpdf' = [wpdf EXCEPT ![w] = 0]
  /\ UNCHANGED <<dbVars, worldVars, creatorVars, dwho, dbundle>>

(* The process dies, a check fails for a transient reason, or createRun    *)
(* throws: the run is started again.                                       *)
WorkerFails(w) ==
  /\ wpc[w] \in {"verified", "assemble", "enqueue"}
  /\ wpc' = [wpc EXCEPT ![w] = "retry"]
  /\ UNCHANGED <<dbVars, worldVars, wfrom, wpdf, creatorVars, distVars>>

WorkerNext ==
  \E w \in Worker :
    \/ \E e \in Signer, v \in Version : ForwardArrives(w, e, v)
    \/ WorkerRetries(w) \/ RecordSignature(w) \/ AssembleArtifact(w)
    \/ EnqueueCompletion(w) \/ WorkerFails(w)

-----------------------------------------------------------------------------
(***************************************************************************)
(* The creator's requests.  Each handler reads the envelope and the row    *)
(* first, answers 404 or 409 when it may not go on (no state changes: no   *)
(* step here), and then writes one thing at a time.  What it read is not   *)
(* read again.                                                             *)
(***************************************************************************)
Goto(pc) == cpc' = pc /\ UNCHANGED <<ckind, cto, cnew, cseen>>

Answer ==
  /\ cpc' = "idle"
  /\ ckind' = "add"
  /\ cto' = AnySigner
  /\ cnew' = AnySigner
  /\ cseen' = "absent"

(* Where a request that edits the signer set starts writing. *)
FirstWrite(kind) ==
  CASE kind = "add"  -> "insert"
    [] kind = "edit" -> "cover"
    [] OTHER         -> "delete"

Request(kind, e, new, pc) ==
  /\ cpc = "idle"
  /\ requests < MaxRequests
  /\ requests' = requests + 1
  /\ cpc' = pc
  /\ ckind' = kind
  /\ cto' = e
  /\ cnew' = new
  /\ cseen' = row[e]
  /\ UNCHANGED <<dbVars, issued, inbox, delivered, expiry, workerVars, distVars>>

(* isEnvelopeEditable, and a parked envelope is reactivated first; deleting *)
(* a signer is the one edit that leaves it parked.                          *)
BeginEdit(kind, e, new) ==
  /\ Open
  /\ Request(kind, e, new,
             IF status = "awaiting_seal" /\ kind # "delete"
             THEN "reopen" ELSE FirstWrite(kind))

BeginAdd(e)         == row[e] = "absent" /\ BeginEdit("add", e, e)
BeginInPlaceEdit(e) == row[e] # "absent" /\ BeginEdit("edit", e, e)
BeginDelete(e)      == row[e] # "absent" /\ BeginEdit("delete", e, e)
BeginRename(e, new) ==
  /\ row[e] # "absent"
  /\ row[new] = "absent"
  /\ BeginEdit("rename", e, new)

(* Mutant: the envelope takes the status of a signer. *)
ReactivateAsPending ==
  /\ cpc = "reopen"
  /\ status' = "pending"
  /\ Goto(FirstWrite(ckind))
  /\ UNCHANGED <<autoClose, distributed, row, token, pdf, cover, artifact,
                 docStored, refunded, worldVars, workerVars, distVars>>

(* reactivateAwaitingSeal: only an awaiting_seal row moves. *)
Reactivate ==
  /\ cpc = "reopen"
  /\ status' = IF status = "awaiting_seal" THEN "active" ELSE status
  /\ Goto(FirstWrite(ckind))
  /\ UNCHANGED <<autoClose, distributed, row, token, pdf, cover, artifact,
                 docStored, refunded, worldVars, workerVars, distVars>>

(* The new name or address is refused only after the reactivation. *)
RefuseEdit ==
  /\ cpc \in {"cover", "delete"}
  /\ ckind \in {"edit", "rename"}
  /\ Answer
  /\ UNCHANGED <<dbVars, worldVars, workerVars, distVars>>

(* regenerateSignerPdf: needs the stored document, stores the new cover.  *)
Issue(e, t) ==
  /\ issued[e] < MaxPdf
  /\ issued' = [issued EXCEPT ![e] = @ + 1]
  /\ cover' = [cover EXCEPT ![e][t] = issued[e] + 1]

RegenerateCover ==
  /\ cpc = "cover"
  /\ docStored
  /\ Issue(cto, token[cto])
  /\ Goto("update")
  /\ UNCHANGED <<status, autoClose, distributed, row, token, pdf, artifact,
                 docStored, refunded, inbox, delivered, requests, expiry,
                 workerVars, distVars>>

DocumentMissing ==
  /\ cpc \in {"cover", "insert"}
  /\ ~docStored
  /\ Answer
  /\ UNCHANGED <<dbVars, worldVars, workerVars, distVars>>

(* updateSignerForEdit, with the status decided from the row first read. *)
UpdateSigner ==
  /\ cpc = "update"
  /\ row' = [row EXCEPT ![cto] =
               IF cseen = "signed" THEN "superseded" ELSE "pending"]
  /\ pdf' = [pdf EXCEPT ![cto] = issued[cto]]
  /\ Goto("mail")
  /\ UNCHANGED <<status, autoClose, distributed, token, cover, artifact,
                 docStored, refunded, worldVars, workerVars, distVars>>

(* deleteSignerCore: the row, then the cover, whose delete may fail (such a *)
(* blob stays until the retention sweep), then the cancellation, whose mail *)
(* may throw and end a rename half-way.                                     *)
DeleteSigner ==
  /\ cpc = "delete"
  /\ row' = [row EXCEPT ![cto] = "absent"]
  /\ token' = [token EXCEPT ![cto] = 0]
  /\ pdf' = [pdf EXCEPT ![cto] = 0]
  /\ \/ cover' = [cover EXCEPT ![cto][token[cto]] = 0]
     \/ UNCHANGED cover
  /\ \/ ckind = "rename" /\ cpc' = "insert" /\ cto' = cnew
        /\ UNCHANGED <<ckind, cnew, cseen>>
     \/ Answer
  /\ UNCHANGED <<status, autoClose, distributed, artifact, docStored, refunded,
                 worldVars, workerVars, distVars>>

(* addSignerCore: a fresh token, its cover, the row; nothing looks at the  *)
(* envelope's status again.                                                *)
InsertSigner ==
  /\ cpc = "insert"
  /\ docStored
  /\ Issue(cto, issued[cto] + 1)
  /\ row' = [row EXCEPT ![cto] = "pending"]
  /\ token' = [token EXCEPT ![cto] = issued[cto] + 1]
  /\ pdf' = [pdf EXCEPT ![cto] = issued[cto] + 1]
  /\ Goto("mail")
  /\ UNCHANGED <<status, autoClose, distributed, artifact, docStored, refunded,
                 inbox, delivered, requests, expiry, workerVars, distVars>>

(* The signing request reaches the signer or fails; the request is over. *)
MailSigner ==
  /\ cpc = "mail"
  /\ \/ inbox' = [inbox EXCEPT ![cto] = @ \cup {issued[cto]}]
     \/ UNCHANGED inbox
  /\ Answer
  /\ UNCHANGED <<dbVars, issued, delivered, requests, expiry, workerVars, distVars>>

(* handleVoidEnvelope: active, and not an auto-close envelope all of whose *)
(* signers have signed.                                                    *)
BeginVoid ==
  /\ status = "active"
  /\ ~(autoClose /\ AllSigned)
  /\ Request("void", AnySigner, AnySigner, "void")

(* Mutants: an UPDATE of any row; an UPDATE of no row taken for a success. *)
VoidAnyEnvelope ==
  /\ cpc = "void"
  /\ status' = "voided"
  /\ Goto("refund")
  /\ UNCHANGED <<autoClose, distributed, row, token, pdf, cover, artifact,
                 docStored, refunded, worldVars, workerVars, distVars>>

VoidWithoutRowCount ==
  /\ cpc = "void"
  /\ status' = IF status = "active" THEN "voided" ELSE status
  /\ Goto("refund")
  /\ UNCHANGED <<autoClose, distributed, row, token, pdf, cover, artifact,
                 docStored, refunded, worldVars, workerVars, distVars>>

(* voidEnvelope: the UPDATE moves only an active row, else the 500. *)
VoidEnvelope ==
  /\ cpc = "void"
  /\ IF status = "active"
     THEN status' = "voided" /\ Goto("refund")
     ELSE Answer /\ UNCHANGED status
  /\ UNCHANGED <<autoClose, distributed, row, token, pdf, cover, artifact,
                 docStored, refunded, worldVars, workerVars, distVars>>

(* refundCredit when no row is signed now; it may fail. *)
RefundCredit ==
  /\ cpc = "refund"
  /\ \/ refunded' = (\A e \in Signer : row[e] # "signed")
     \/ UNCHANGED refunded
  /\ Goto("purge")
  /\ UNCHANGED <<status, autoClose, distributed, row, token, pdf, cover,
                 artifact, docStored, worldVars, workerVars, distVars>>

(* purgeEnvelopeBlobs: D unless another envelope holds it, and the covers  *)
(* of the present rows; each delete may fail.                              *)
PurgeBlobs ==
  /\ \/ docStored' = FALSE
     \/ UNCHANGED docStored
  /\ \E gone \in SUBSET Present :
       cover' = [e \in Signer |-> [t \in Token |->
                   IF e \in gone /\ t = token[e] THEN 0 ELSE cover[e][t]]]

PurgeVoided ==
  /\ cpc = "purge"
  /\ PurgeBlobs
  /\ Answer
  /\ UNCHANGED <<status, autoClose, distributed, row, token, pdf, artifact,
                 refunded, worldVars, workerVars, distVars>>

(* The process of the request dies, or a statement of it throws. *)
RequestDies ==
  /\ cpc # "idle"
  /\ Answer
  /\ UNCHANGED <<dbVars, worldVars, workerVars, distVars>>

CreatorNext ==
  \/ \E e \in Signer :
       BeginAdd(e) \/ BeginInPlaceEdit(e) \/ BeginDelete(e)
  \/ \E e, new \in Signer : BeginRename(e, new)
  \/ Reactivate \/ RefuseEdit \/ RegenerateCover \/ DocumentMissing
  \/ UpdateSigner \/ DeleteSigner \/ InsertSigner \/ MailSigner
  \/ BeginVoid \/ VoidEnvelope \/ RefundCredit \/ PurgeVoided
  \/ RequestDies

-----------------------------------------------------------------------------
(***************************************************************************)
(* The envelope_expire run, created with the envelope for its deadline and *)
(* run once, whatever it finds.                                            *)
(***************************************************************************)
ClaimExpired ==
  /\ expiry = "armed"
  /\ IF status = "active"
     THEN status' = "expired" /\ expiry' = "purging"
     ELSE UNCHANGED status /\ expiry' = "done"
  /\ UNCHANGED <<autoClose, distributed, row, token, pdf, cover, artifact,
                 docStored, refunded, issued, inbox, delivered, requests,
                 workerVars, creatorVars, distVars>>

(* notifyEnvelopeExpired: the blobs go after the notices, unless a notice  *)
(* threw.                                                                  *)
PurgeExpired ==
  /\ expiry = "purging"
  /\ expiry' = "done"
  /\ PurgeBlobs \/ UNCHANGED <<docStored, cover>>
  /\ UNCHANGED <<status, autoClose, distributed, row, token, pdf, artifact,
                 refunded, issued, inbox, delivered, requests, workerVars,
                 creatorVars, distVars>>

ExpiryNext == ClaimExpired \/ PurgeExpired


-----------------------------------------------------------------------------
(***************************************************************************)
(* Distributors.  A durable run whose handler throws or dies is run again; *)
(* a seal request that fails or dies is over and may be made again.        *)
(***************************************************************************)
Finish(d) == dpc' = [dpc EXCEPT ![d] = IF d = "run" THEN "done" ELSE "off"]
Again(d)  == dpc' = [dpc EXCEPT ![d] = IF d = "seal" THEN "off" ELSE "queued"]
Advance(d, pc) == dpc' = [dpc EXCEPT ![d] = pc]

Snapshot == {<<e, token[e]>> : e \in Present}

(* handleSealEnvelope, with no look at auto_close. *)
BeginSeal ==
  /\ dpc["seal"] = "off"
  /\ ~distributed
  /\ status \notin {"voided", "expired"}
  /\ AllSigned
  /\ Advance("seal", "queued")
  /\ UNCHANGED <<dbVars, worldVars, workerVars, creatorVars, dwho, dbundle>>

(* Mutant: the run is over even when the mail to the creator failed. *)
NotifyOnce ==
  /\ dpc["run"] = "queued"
  /\ ~autoClose
  /\ \/ status = "active" /\ AllSigned /\ Advance("run", "park")
     \/ Finish("run")
  /\ UNCHANGED <<dbVars, worldVars, workerVars, creatorVars, dwho, dbundle>>

(* completion_distribute of a manual envelope: notifyEnvelopeAwaitingSeal  *)
(* mails the creator, then parks.  When the mail fails the run stays       *)
(* queued.                                                                 *)
NotifyAwaitingSeal ==
  /\ dpc["run"] = "queued"
  /\ ~autoClose
  /\ IF status = "active" /\ AllSigned THEN Advance("run", "park")
                                       ELSE Finish("run")
  /\ UNCHANGED <<dbVars, worldVars, workerVars, creatorVars, dwho, dbundle>>

(* Mutant: an UPDATE of any row. *)
ParkAnyEnvelope ==
  /\ dpc["run"] = "park"
  /\ status' = "awaiting_seal"
  /\ Finish("run")
  /\ UNCHANGED <<autoClose, distributed, row, token, pdf, cover, artifact,
                 docStored, refunded, worldVars, workerVars, creatorVars,
                 dwho, dbundle>>

(* transitionToAwaitingSeal: only an active row moves. *)
ParkEnvelope ==
  /\ dpc["run"] = "park"
  /\ status' = IF status = "active" THEN "awaiting_seal" ELSE status
  /\ Finish("run")
  /\ UNCHANGED <<autoClose, distributed, row, token, pdf, cover, artifact,
                 docStored, refunded, worldVars, workerVars, creatorVars,
                 dwho, dbundle>>

(* The head of distributeEnvelopeBundle: not yet distributed, all signed.  *)
(* It does not look at the status.                                         *)
BeginDistribution(d) ==
  /\ dpc[d] = "queued"
  /\ d = "run" => autoClose
  /\ IF distributed \/ ~AllSigned
     THEN Finish(d) /\ UNCHANGED dwho
     ELSE Advance(d, "complete") /\ dwho' = [dwho EXCEPT ![d] = Snapshot]
  /\ UNCHANGED <<dbVars, worldVars, workerVars, creatorVars, dbundle>>

(* The statement gate keeps the bundle back: this distributor is through   *)
(* and a statement_wait_recheck run takes over, if it could be created.    *)
AwaitStatements(d) ==
  /\ MayWait
  /\ dpc[d] = "complete"
  /\ \/ Finish(d)
     \/ dpc' = [c \in Distributor |->
                  IF c = "recheck" THEN "queued"
                  ELSE IF c # d THEN dpc[c]
                  ELSE IF d = "run" THEN "done" ELSE "off"]
        /\ (d # "recheck" => dpc["recheck"] = "off")
  /\ dwho' = [dwho EXCEPT ![d] = {}]
  /\ UNCHANGED <<dbVars, worldVars, workerVars, creatorVars, dbundle>>

(* Mutant: the UPDATE moves only an open row, and nobody counts the rows. *)
CompleteIfOpen(d) ==
  /\ dpc[d] = "complete"
  /\ status' = IF Open THEN "completed" ELSE status
  /\ Advance(d, "prepare")
  /\ UNCHANGED <<autoClose, distributed, row, token, pdf, cover, artifact,
                 docStored, refunded, worldVars, workerVars, creatorVars,
                 dwho, dbundle>>

(* completeEnvelopeForBundle: no condition on the status it overwrites. *)
CompleteEnvelope(d) ==
  /\ dpc[d] = "complete"
  /\ status' = "completed"
  /\ Advance(d, "prepare")
  /\ UNCHANGED <<autoClose, distributed, row, token, pdf, cover, artifact,
                 docStored, refunded, worldVars, workerVars, creatorVars,
                 dwho, dbundle>>

Evidence(who) ==
  {[signer |-> p[1], cover |-> cover[p[1]][p[2]], eml |-> artifact[p[1]]] :
     p \in who}

(* prepareBundle: D, and for every signer of the snapshot an artifact and  *)
(* the cover stored under its token.                                       *)
EvidenceReady(d) ==
  docStored /\ \A x \in Evidence(dwho[d]) : x.cover # 0 /\ x.eml # 0

PrepareBundle(d) ==
  /\ dpc[d] = "prepare"
  /\ EvidenceReady(d)
  /\ dbundle' = [dbundle EXCEPT ![d] = Evidence(dwho[d])]
  /\ Advance(d, "send")
  /\ UNCHANGED <<dbVars, worldVars, workerVars, creatorVars, dwho>>

(* Every party has the bundle, or only some or none of them. *)
SendBundle(d) ==
  /\ dpc[d] = "send"
  /\ delivered' = delivered \cup dbundle[d]
  /\ Advance(d, "stamp")
  /\ UNCHANGED <<dbVars, issued, inbox, requests, expiry, workerVars,
                 creatorVars, dwho, dbundle>>

SendPartly(d) ==
  /\ dpc[d] = "send"
  /\ delivered' = delivered \cup dbundle[d]
  /\ Again(d)
  /\ dwho' = [dwho EXCEPT ![d] = {}]
  /\ dbundle' = [dbundle EXCEPT ![d] = {}]
  /\ UNCHANGED <<dbVars, issued, inbox, requests, expiry, workerVars,
                 creatorVars>>

(* markCompletionDistributed *)
StampDistributed(d) ==
  /\ dpc[d] = "stamp"
  /\ distributed' = TRUE
  /\ Finish(d)
  /\ dwho' = [dwho EXCEPT ![d] = {}]
  /\ dbundle' = [dbundle EXCEPT ![d] = {}]
  /\ UNCHANGED <<status, autoClose, row, token, pdf, cover, artifact, docStored,
                 refunded, worldVars, workerVars, creatorVars>>

(* The bundle could not be prepared or a statement of the handler threw,   *)
(* or its process died.                                                    *)
DistributorFails(d) ==
  /\ dpc[d] \notin {"off", "done"}
  /\ Again(d)
  /\ dwho' = [dwho EXCEPT ![d] = {}]
  /\ dbundle' = [dbundle EXCEPT ![d] = {}]
  /\ UNCHANGED <<dbVars, worldVars, workerVars, creatorVars>>

DistributorNext ==
  \/ BeginSeal \/ NotifyAwaitingSeal \/ ParkEnvelope
  \/ \E d \in Distributor :
       \/ BeginDistribution(d) \/ AwaitStatements(d) \/ CompleteEnvelope(d)
       \/ PrepareBundle(d) \/ SendBundle(d) \/ SendPartly(d)
       \/ StampDistributed(d) \/ DistributorFails(d)

-----------------------------------------------------------------------------
Next == WorkerNext \/ CreatorNext \/ ExpiryNext \/ DistributorNext

Spec == Init /\ [][Next]_vars

(* The platform starts a queued or interrupted run again until an attempt   *)
(* goes through; nothing forces the creator to act, a deadline to pass, a   *)
(* signer to forward, or the chain of statement rechecks to go on.          *)
Fairness ==
  /\ \A w \in Worker :
       /\ WF_vars(WorkerRetries(w))
       /\ SF_vars(RecordSignature(w))
       /\ SF_vars(AssembleArtifact(w))
       /\ SF_vars(EnqueueCompletion(w))
  /\ WF_vars(BeginDistribution("run"))
  /\ SF_vars(CompleteEnvelope("run"))
  /\ SF_vars(PrepareBundle("run"))
  /\ SF_vars(SendBundle("run"))
  /\ SF_vars(StampDistributed("run"))
  /\ WF_vars(NotifyAwaitingSeal)
  /\ SF_vars(ParkEnvelope)

FairSpec == Spec /\ Fairness

-----------------------------------------------------------------------------
StoreTypeOK ==
  /\ row \in [Signer -> RowStates]
  /\ token \in [Signer -> Token]
  /\ pdf \in [Signer -> 0..MaxPdf]
  /\ cover \in [Signer -> [Token -> 0..MaxPdf]]
  /\ artifact \in [Signer -> 0..MaxPdf]

EnvelopeTypeOK ==
  /\ status \in Statuses
  /\ autoClose \in BOOLEAN
  /\ distributed \in BOOLEAN
  /\ docStored \in BOOLEAN
  /\ refunded \in BOOLEAN

WorldTypeOK ==
  /\ issued \in [Signer -> 0..MaxPdf]
  /\ inbox \in [Signer -> SUBSET (0..MaxPdf)]
  /\ delivered \subseteq BundleEntry
  /\ requests \in 0..MaxRequests
  /\ expiry \in ExpiryStates

WorkerTypeOK ==
  /\ wpc \in [Worker -> WorkerPcs]
  /\ wfrom \in [Worker -> Signer]
  /\ wpdf \in [Worker -> 0..MaxPdf]

CreatorTypeOK ==
  /\ cpc \in CreatorPcs
  /\ ckind \in Kinds
  /\ cto \in Signer
  /\ cnew \in Signer
  /\ cseen \in RowStates

DistTypeOK ==
  /\ dpc \in [Distributor -> DistPcs]
  /\ dwho \in [Distributor -> SUBSET (Signer \X Token)]
  /\ dbundle \in [Distributor -> SUBSET BundleEntry]

(* Every variable has the type its comment gives. *)
TypeOK ==
  /\ EnvelopeTypeOK /\ StoreTypeOK /\ WorldTypeOK
  /\ WorkerTypeOK /\ CreatorTypeOK /\ DistTypeOK

(* A bundle is mailed, and the delivery mark set, only on a completed       *)
(* envelope: no void, expiry, park or reactivation that another handler had *)
(* begun takes the completion back in between (distributeBundle.ts).        *)
DeliveredIsCompleted == distributed \/ delivered # {} => status = "completed"

(* What keeps it true: a distributor that has passed its completion step    *)
(* works on an envelope that nobody can move any more.                      *)
PastCompletion(d) == dpc[d] \in {"prepare", "send", "stamp"}

CompletionInv ==
  /\ DeliveredIsCompleted
  /\ \A d \in Distributor : PastCompletion(d) => status = "completed"

(* The credit goes back once, for an envelope that the void of this request *)
(* closed; only a distribution under way takes such an envelope further.    *)
RefundInv ==
  /\ refunded => status \in {"voided", "completed"}
  /\ cpc = "refund" => ~refunded /\ status \in {"voided", "completed"}

(* What the refinement of EnvelopeLifecycle needs of a reachable state. *)
LifecycleInv == CompletionInv /\ RefundInv

(* The last signature is never lost: while the creator has not intervened,  *)
(* an envelope all of whose signers have signed has its completion run, or  *)
(* a worker of a signer who has signed is still on its way to create it,    *)
(* however the forwards overlap, crash and retry (inboundEmail.ts).         *)
OnItsWay(w) == \/ wpc[w] \in {"assemble", "enqueue"}
               \/ wpc[w] = "retry" /\ row[wfrom[w]] = "signed"

CompletionNotLost ==
  requests = 0 /\ AllSigned =>
    dpc["run"] # "off" \/ \E w \in Worker : OnItsWay(w)

(* While the envelope can still be signed its bundle can still be built:    *)
(* the document is stored and every invited row has a cover, at least as    *)
(* new as the PDF expected back, whatever edits, renames and voids were cut *)
(* short (envelope.ts, regenerateSignerPdf before the row is written).      *)
OpenCanBeServed ==
  Open => /\ docStored
          /\ \A e \in Present : /\ cover[e][token[e]] # 0
                                /\ cover[e][token[e]] >= pdf[e]

(* Once completed, with no edit and no recorded-but-unwritten signature in  *)
(* flight, the signer set is frozen for good: the status checks of the      *)
(* handlers admit no new request and no new forward.                        *)
Quiet ==
  /\ status = "completed"
  /\ cpc = "idle"
  /\ \A w \in Worker : wpc[w] # "verified"

SealedStaysQuiet == [][Quiet => Quiet' /\ row' = row]_vars

(* The envelope lives the life EnvelopeLifecycle describes. *)
Lifecycle == INSTANCE EnvelopeLifecycle
  WITH status <- status, distributed <- distributed, refunded <- refunded

ImplementsLifecycle == Lifecycle!LifeSpec

(* With no edit in the way, an auto-close envelope whose signers have all   *)
(* signed and whose evidence is there is distributed, through crashes and   *)
(* failed sends (the re-fired, deduplicated enqueue of inboundEmail.ts).    *)
CanBuild ==
  /\ docStored
  /\ AllSigned
  /\ \A e \in Present : artifact[e] # 0 /\ cover[e][token[e]] # 0

AutoCloseDelivers == autoClose /\ CanBuild ~> distributed \/ ~CanBuild

(* A manual envelope whose signers have all signed is parked for its        *)
(* creator, unless it leaves "active" some other way.                       *)
ManualParks ==
  ~autoClose /\ AllSigned /\ status = "active"
    ~> status # "active" \/ ~AllSigned

-----------------------------------------------------------------------------
(* Statements of the repository that the code does not keep. *)

(* envelope.ts: no party receives a completion email for a voided envelope, *)
(* and an expired one will never be signed: neither becomes completed.      *)
ClosedStaysClosed ==
  [][(status \in {"voided", "expired"}) => UNCHANGED status]_vars

(* config.ts: cover ++ document reconstructs the P_i the signer returned. *)
BundleReconstructs == \A x \in delivered : x.cover = x.eml
=============================================================================
