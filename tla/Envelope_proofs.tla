--------------------------- MODULE Envelope_proofs ---------------------------
(* What TLAPS proves of Envelope, for every value of its constants. *)
EXTENDS Envelope, TLAPS

(* The default signer of an idle handler is a signer. *)
LEMMA AnySignerIsSigner == AnySigner \in Signer
  BY EnvelopeAssumption DEF AnySigner

(* The first version of a PDF is a version. *)
LEMMA VersionBounds == 0 \in 0..MaxPdf /\ 1 \in 0..MaxPdf
  BY EnvelopeAssumption

(* The initial states are well typed. *)
LEMMA InitTypeOK == Init => TypeOK
  <1> SUFFICES ASSUME Init PROVE TypeOK
    OBVIOUS
  <1> USE AnySignerIsSigner, VersionBounds
  <1>1. EnvelopeTypeOK
    <2>1. autoClose \in BOOLEAN
      BY EnvelopeAssumption, Zenon DEF Init
    <2> QED
      BY <2>1 DEF Init, EnvelopeTypeOK, Statuses
  <1>2. StoreTypeOK
    BY DEF Init, StoreTypeOK, RowStates, Token
  <1>3. WorldTypeOK
    BY EnvelopeAssumption DEF Init, WorldTypeOK, ExpiryStates
  <1>4. WorkerTypeOK
    BY DEF Init, WorkerTypeOK, WorkerPcs
  <1>5. CreatorTypeOK
    BY DEF Init, CreatorTypeOK, CreatorPcs, Kinds, RowStates
  <1>6. DistTypeOK
    BY DEF Init, DistTypeOK, DistPcs
  <1> QED
    BY <1>1, <1>2, <1>3, <1>4, <1>5, <1>6 DEF TypeOK

(***************************************************************************)
(* Type correctness, one group of handlers at a time.  A step leaves the   *)
(* variables of the other groups alone, and their types with them.         *)
(***************************************************************************)
LEMMA TypeFrames ==
  ASSUME TypeOK
  PROVE  /\ UNCHANGED dbVars => EnvelopeTypeOK' /\ StoreTypeOK'
         /\ UNCHANGED worldVars => WorldTypeOK'
         /\ UNCHANGED workerVars => WorkerTypeOK'
         /\ UNCHANGED creatorVars => CreatorTypeOK'
         /\ UNCHANGED distVars => DistTypeOK'
  <1> USE DEF TypeOK
  <1>1. UNCHANGED dbVars => EnvelopeTypeOK' /\ StoreTypeOK'
    BY DEF dbVars, EnvelopeTypeOK, StoreTypeOK
  <1>2. UNCHANGED worldVars => WorldTypeOK'
    BY DEF worldVars, WorldTypeOK
  <1>3. UNCHANGED workerVars => WorkerTypeOK'
    BY DEF workerVars, WorkerTypeOK
  <1>4. UNCHANGED creatorVars => CreatorTypeOK'
    BY DEF creatorVars, CreatorTypeOK
  <1>5. UNCHANGED distVars => DistTypeOK'
    BY DEF distVars, DistTypeOK
  <1> QED
    BY <1>1, <1>2, <1>3, <1>4, <1>5

(* No step of a forward worker breaks a type. *)
LEMMA TypeWorker ==
  ASSUME TypeOK, WorkerNext
  PROVE  TypeOK'
  <1> USE AnySignerIsSigner, VersionBounds, TypeFrames DEF TypeOK
  <1>1. ASSUME NEW w \in Worker, NEW e \in Signer, NEW v \in 0..MaxPdf,
               Verify(w, e, v)
        PROVE  TypeOK'
    <2>1. WorkerTypeOK'
      BY <1>1 DEF Verify, WorkerTypeOK, WorkerPcs
    <2> QED
      BY <1>1, <2>1 DEF Verify
  <1>2. ASSUME NEW w \in Worker, NEW e \in Signer, NEW v \in Version,
               ForwardArrives(w, e, v)
        PROVE  TypeOK'
    BY <1>1, <1>2 DEF ForwardArrives, Version
  <1>3. ASSUME NEW w \in Worker, WorkerRetries(w)
        PROVE  TypeOK'
    BY <1>1, <1>3 DEF WorkerRetries, WorkerTypeOK
  <1>4. ASSUME NEW w \in Worker, RecordSignature(w)
        PROVE  TypeOK'
    <2>1. StoreTypeOK' /\ WorkerTypeOK'
      BY <1>4 DEF RecordSignature, StoreTypeOK, WorkerTypeOK, RowStates, WorkerPcs
    <2>2. EnvelopeTypeOK'
      BY <1>4 DEF RecordSignature, EnvelopeTypeOK
    <2> QED
      BY <1>4, <2>1, <2>2 DEF RecordSignature
  <1>5. ASSUME NEW w \in Worker, AssembleArtifact(w)
        PROVE  TypeOK'
    <2>1. KeepArtifact(wfrom[w], wpdf[w]) \in 0..MaxPdf /\ wfrom[w] \in Signer
      BY DEF KeepArtifact, StoreTypeOK, WorkerTypeOK
    <2>2. StoreTypeOK'
      BY <1>5, <2>1 DEF AssembleArtifact, StoreTypeOK
    <2>3. WorkerTypeOK'
      BY <1>5 DEF AssembleArtifact, WorkerTypeOK, WorkerPcs
    <2>4. EnvelopeTypeOK'
      BY <1>5 DEF AssembleArtifact, EnvelopeTypeOK
    <2> QED
      BY <1>5, <2>2, <2>3, <2>4 DEF AssembleArtifact
  <1>6. ASSUME NEW w \in Worker, EnqueueCompletion(w)
        PROVE  TypeOK'
    <2>1. WorkerTypeOK'
      BY <1>6 DEF EnqueueCompletion, WorkerTypeOK, WorkerPcs
    <2>2. DistTypeOK'
      BY <1>6 DEF EnqueueCompletion, CreateCompletionRun, DistTypeOK, DistPcs
    <2> QED
      BY <1>6, <2>1, <2>2 DEF EnqueueCompletion
  <1>7. ASSUME NEW w \in Worker, WorkerFails(w)
        PROVE  TypeOK'
    <2>1. WorkerTypeOK'
      BY <1>7 DEF WorkerFails, WorkerTypeOK, WorkerPcs
    <2> QED
      BY <1>7, <2>1 DEF WorkerFails
  <1> QED
    BY <1>2, <1>3, <1>4, <1>5, <1>6, <1>7 DEF WorkerNext

(* A request starts, and the answer of a request ends it: both leave the    *)
(* creator's variables well typed.                                          *)
LEMMA TypeRequest ==
  ASSUME TypeOK, NEW kind \in Kinds, NEW e \in Signer, NEW new \in Signer,
         NEW pc \in CreatorPcs, Request(kind, e, new, pc)
  PROVE  TypeOK'
  <1> USE TypeFrames DEF TypeOK
  <1>1. CreatorTypeOK'
    BY DEF Request, CreatorTypeOK, StoreTypeOK
  <1>2. WorldTypeOK'
    BY EnvelopeAssumption DEF Request, WorldTypeOK
  <1> QED
    BY <1>1, <1>2 DEF Request

(* An answered request leaves the creator's variables well typed. *)
LEMMA TypeAnswer ==
  ASSUME Answer
  PROVE  CreatorTypeOK'
  BY AnySignerIsSigner DEF Answer, CreatorTypeOK, CreatorPcs, Kinds, RowStates

(* So does a request that goes on to its next write. *)
LEMMA TypeGoto ==
  ASSUME TypeOK, NEW pc \in CreatorPcs, Goto(pc)
  PROVE  CreatorTypeOK'
  BY DEF TypeOK, Goto, CreatorTypeOK

(* A new PDF keeps its counter and its cover within the bound. *)
LEMMA TypeIssue ==
  ASSUME TypeOK, NEW e \in Signer, NEW t, Issue(e, t)
  PROVE  /\ issued' \in [Signer -> 0..MaxPdf]
         /\ cover' \in [Signer -> [Token -> 0..MaxPdf]]
         /\ issued[e] + 1 \in 0..MaxPdf
  <1>1. issued[e] \in 0..MaxPdf /\ issued[e] < MaxPdf /\ MaxPdf \in Nat
    BY EnvelopeAssumption DEF TypeOK, WorldTypeOK, Issue
  <1>2. issued[e] + 1 \in 0..MaxPdf
    BY <1>1
  <1>3. issued' \in [Signer -> 0..MaxPdf]
    BY <1>2 DEF Issue, TypeOK, WorldTypeOK
  <1>4. cover' = [cover EXCEPT ![e] = [cover[e] EXCEPT ![t] = issued[e] + 1]]
    BY DEF Issue
  <1>5. [cover[e] EXCEPT ![t] = issued[e] + 1] \in [Token -> 0..MaxPdf]
    BY <1>2 DEF TypeOK, StoreTypeOK
  <1>6. cover' \in [Signer -> [Token -> 0..MaxPdf]]
    BY <1>4, <1>5 DEF TypeOK, StoreTypeOK
  <1> QED
    BY <1>2, <1>3, <1>6

(* Deleting blobs leaves booleans and covers behind. *)
LEMMA TypePurge ==
  ASSUME TypeOK, PurgeBlobs
  PROVE  docStored' \in BOOLEAN /\ cover' \in [Signer -> [Token -> 0..MaxPdf]]
  <1>1. docStored' \in BOOLEAN
    BY DEF PurgeBlobs, TypeOK, EnvelopeTypeOK
  <1>2. cover' \in [Signer -> [Token -> 0..MaxPdf]]
    BY VersionBounds DEF PurgeBlobs, TypeOK, StoreTypeOK
  <1> QED
    BY <1>1, <1>2

(* No step of a request of the creator breaks a type. *)
LEMMA TypeCreator ==
  ASSUME TypeOK, CreatorNext
  PROVE  TypeOK'
  <1> USE TypeFrames, AnySignerIsSigner, VersionBounds DEF TypeOK
  <1>1. ASSUME NEW kind \in Kinds \ {"void"}, NEW e \in Signer, NEW new \in Signer,
               BeginEdit(kind, e, new)
        PROVE  TypeOK'
    <2>1. FirstWrite(kind) \in CreatorPcs
      BY DEF FirstWrite, CreatorPcs, Kinds
    <2> QED
      BY <1>1, <2>1, TypeRequest DEF BeginEdit, CreatorPcs
  <1>2. ASSUME NEW e \in Signer, BeginAdd(e) \/ BeginInPlaceEdit(e) \/ BeginDelete(e)
        PROVE  TypeOK'
    BY <1>1, <1>2 DEF BeginAdd, BeginInPlaceEdit, BeginDelete, Kinds
  <1>3. ASSUME NEW e \in Signer, NEW new \in Signer, BeginRename(e, new)
        PROVE  TypeOK'
    BY <1>1, <1>3 DEF BeginRename, Kinds
  <1>4. CASE Reactivate
    <2>1. EnvelopeTypeOK'
      BY <1>4 DEF Reactivate, EnvelopeTypeOK, Statuses
    <2>2. StoreTypeOK'
      BY <1>4 DEF Reactivate, StoreTypeOK
    <2>3. cpc' \in CreatorPcs
      BY <1>4 DEF Reactivate, Goto, FirstWrite, CreatorPcs, CreatorTypeOK, Kinds
    <2>4. CreatorTypeOK'
      BY <1>4, <2>3 DEF Reactivate, Goto, CreatorTypeOK
    <2> QED
      BY <1>4, <2>1, <2>2, <2>4 DEF Reactivate
  <1>5. CASE RefuseEdit \/ DocumentMissing \/ RequestDies
    BY <1>5, TypeAnswer DEF RefuseEdit, DocumentMissing, RequestDies
  <1>6. CASE RegenerateCover
    <2>1. CreatorTypeOK'
      BY <1>6, TypeGoto DEF RegenerateCover, CreatorPcs
    <2>2. StoreTypeOK' /\ WorldTypeOK'
      BY <1>6, TypeIssue DEF RegenerateCover, StoreTypeOK, WorldTypeOK, CreatorTypeOK
    <2>3. EnvelopeTypeOK'
      BY <1>6 DEF RegenerateCover, EnvelopeTypeOK
    <2> QED
      BY <1>6, <2>1, <2>2, <2>3 DEF RegenerateCover
  <1>7. CASE UpdateSigner
    <2>1. CreatorTypeOK'
      BY <1>7, TypeGoto DEF UpdateSigner, CreatorPcs
    <2>2. StoreTypeOK'
      BY <1>7 DEF UpdateSigner, StoreTypeOK, WorldTypeOK, CreatorTypeOK, RowStates
    <2>3. EnvelopeTypeOK'
      BY <1>7 DEF UpdateSigner, EnvelopeTypeOK
    <2> QED
      BY <1>7, <2>1, <2>2, <2>3 DEF UpdateSigner
  <1>8. CASE DeleteSigner
    <2>1. CreatorTypeOK'
      BY <1>8, TypeAnswer DEF DeleteSigner, CreatorTypeOK, CreatorPcs
    <2>2. cover' \in [Signer -> [Token -> 0..MaxPdf]]
      <3>1. CASE UNCHANGED cover
        BY <3>1 DEF StoreTypeOK
      <3>2. CASE cover' = [cover EXCEPT ![cto][token[cto]] = 0]
        <4>1. [cover[cto] EXCEPT ![token[cto]] = 0] \in [Token -> 0..MaxPdf]
          BY DEF StoreTypeOK, CreatorTypeOK
        <4> QED
          BY <3>2, <4>1 DEF StoreTypeOK
      <3> QED
        BY <1>8, <3>1, <3>2 DEF DeleteSigner
    <2>3. StoreTypeOK'
      BY <1>8, <2>2 DEF DeleteSigner, StoreTypeOK, RowStates, Token
    <2>4. EnvelopeTypeOK'
      BY <1>8 DEF DeleteSigner, EnvelopeTypeOK
    <2> QED
      BY <1>8, <2>1, <2>3, <2>4 DEF DeleteSigner
  <1>9. CASE InsertSigner
    <2>1. CreatorTypeOK'
      BY <1>9, TypeGoto DEF InsertSigner, CreatorPcs
    <2>2. cto \in Signer
      BY DEF CreatorTypeOK
    <2>3. Issue(cto, issued[cto] + 1)
      BY <1>9 DEF InsertSigner
    <2>4. StoreTypeOK' /\ WorldTypeOK'
      BY <1>9, <2>2, <2>3, TypeIssue DEF InsertSigner, StoreTypeOK, WorldTypeOK, RowStates, Token
    <2>5. EnvelopeTypeOK'
      BY <1>9 DEF InsertSigner, EnvelopeTypeOK
    <2> QED
      BY <1>9, <2>1, <2>4, <2>5 DEF InsertSigner
  <1>10. CASE MailSigner
    <2>1. inbox' \in [Signer -> SUBSET (0..MaxPdf)]
      BY <1>10 DEF MailSigner, WorldTypeOK, CreatorTypeOK
    <2>2. WorldTypeOK'
      BY <1>10, <2>1 DEF MailSigner, WorldTypeOK
    <2> QED
      BY <1>10, <2>2, TypeAnswer DEF MailSigner
  <1>11. CASE BeginVoid
    BY <1>11, TypeRequest DEF BeginVoid, Kinds, CreatorPcs
  <1>12. CASE VoidEnvelope
    <2>1. CreatorTypeOK'
      BY <1>12, TypeGoto, TypeAnswer DEF VoidEnvelope, CreatorPcs
    <2>2. EnvelopeTypeOK' /\ StoreTypeOK'
      BY <1>12 DEF VoidEnvelope, EnvelopeTypeOK, StoreTypeOK, Statuses
    <2> QED
      BY <1>12, <2>1, <2>2 DEF VoidEnvelope
  <1>13. CASE RefundCredit
    <2>1. CreatorTypeOK'
      BY <1>13, TypeGoto DEF RefundCredit, CreatorPcs
    <2>2. EnvelopeTypeOK' /\ StoreTypeOK'
      BY <1>13 DEF RefundCredit, EnvelopeTypeOK, StoreTypeOK
    <2> QED
      BY <1>13, <2>1, <2>2 DEF RefundCredit
  <1>14. CASE PurgeVoided
    <2>1. EnvelopeTypeOK' /\ StoreTypeOK'
      BY <1>14, TypePurge DEF PurgeVoided, EnvelopeTypeOK, StoreTypeOK
    <2> QED
      BY <1>14, <2>1, TypeAnswer DEF PurgeVoided
  <1> QED
    BY <1>2, <1>3, <1>4, <1>5, <1>6, <1>7, <1>8, <1>9, <1>10, <1>11, <1>12,
       <1>13, <1>14 DEF CreatorNext

(* No step of the expiry run breaks a type. *)
LEMMA TypeExpiry ==
  ASSUME TypeOK, ExpiryNext
  PROVE  TypeOK'
  <1> USE TypeFrames DEF TypeOK
  <1>1. CASE ClaimExpired
    <2>1. EnvelopeTypeOK' /\ StoreTypeOK'
      BY <1>1 DEF ClaimExpired, EnvelopeTypeOK, StoreTypeOK, Statuses
    <2>2. WorldTypeOK'
      BY <1>1 DEF ClaimExpired, WorldTypeOK, ExpiryStates
    <2> QED
      BY <1>1, <2>1, <2>2 DEF ClaimExpired
  <1>2. CASE PurgeExpired
    <2>1. EnvelopeTypeOK' /\ StoreTypeOK'
      BY <1>2, TypePurge DEF PurgeExpired, EnvelopeTypeOK, StoreTypeOK
    <2>2. WorldTypeOK'
      BY <1>2 DEF PurgeExpired, WorldTypeOK, ExpiryStates
    <2> QED
      BY <1>2, <2>1, <2>2 DEF PurgeExpired
  <1> QED
    BY <1>1, <1>2 DEF ExpiryNext

(* Moving a distributor, and dropping what it held. *)
LEMMA TypeMove ==
  ASSUME TypeOK, NEW d \in Distributor,
         Finish(d) \/ Again(d) \/ \E pc \in DistPcs : Advance(d, pc)
  PROVE  dpc' \in [Distributor -> DistPcs]
  BY DEF TypeOK, DistTypeOK, Finish, Again, Advance, DistPcs

(* A distributor that gives up what it holds stays well typed. *)
LEMMA TypeDrop ==
  ASSUME TypeOK, NEW d \in Distributor,
         \/ dwho' = [dwho EXCEPT ![d] = {}] \/ UNCHANGED dwho,
         \/ dbundle' = [dbundle EXCEPT ![d] = {}] \/ UNCHANGED dbundle
  PROVE  /\ dwho' \in [Distributor -> SUBSET (Signer \X Token)]
         /\ dbundle' \in [Distributor -> SUBSET BundleEntry]
  BY DEF TypeOK, DistTypeOK

(* A bundle that is ready holds covers and mails that exist. *)
LEMMA TypeEvidence ==
  ASSUME TypeOK, NEW d \in Distributor, EvidenceReady(d)
  PROVE  Evidence(dwho[d]) \subseteq BundleEntry
  <1> SUFFICES ASSUME NEW p \in dwho[d]
               PROVE  [signer |-> p[1], cover |-> cover[p[1]][p[2]],
                       eml |-> artifact[p[1]]] \in BundleEntry
    BY DEF Evidence
  <1> DEFINE x == [signer |-> p[1], cover |-> cover[p[1]][p[2]],
                   eml |-> artifact[p[1]]]
  <1>1. x.cover # 0 /\ x.eml # 0
    BY DEF EvidenceReady, Evidence
  <1>2. p[1] \in Signer /\ p[2] \in Token
    BY DEF TypeOK, DistTypeOK
  <1>3. artifact[p[1]] \in 1..MaxPdf
    BY <1>1, <1>2 DEF TypeOK, StoreTypeOK
  <1>4. cover[p[1]][p[2]] \in 1..MaxPdf
    BY <1>1, <1>2 DEF TypeOK, StoreTypeOK
  <1> QED
    BY <1>2, <1>3, <1>4 DEF BundleEntry, Version

(* No step of a distributor breaks a type. *)
LEMMA TypeDistributor ==
  ASSUME TypeOK, DistributorNext
  PROVE  TypeOK'
  <1> USE TypeFrames DEF TypeOK
  <1>1. CASE BeginSeal
    <2>1. dpc' \in [Distributor -> DistPcs]
      BY <1>1, TypeMove DEF BeginSeal, Distributor, DistPcs
    <2> QED
      BY <1>1, <2>1 DEF BeginSeal, DistTypeOK
  <1>2. CASE NotifyAwaitingSeal
    <2>1. dpc' \in [Distributor -> DistPcs]
      BY <1>2, TypeMove DEF NotifyAwaitingSeal, Distributor, DistPcs
    <2> QED
      BY <1>2, <2>1 DEF NotifyAwaitingSeal, DistTypeOK
  <1>3. CASE ParkEnvelope
    <2>1. dpc' \in [Distributor -> DistPcs]
      BY <1>3, TypeMove DEF ParkEnvelope, Distributor
    <2>2. EnvelopeTypeOK' /\ StoreTypeOK'
      BY <1>3 DEF ParkEnvelope, EnvelopeTypeOK, StoreTypeOK, Statuses
    <2> QED
      BY <1>3, <2>1, <2>2 DEF ParkEnvelope, DistTypeOK
  <1>4. ASSUME NEW d \in Distributor, BeginDistribution(d)
        PROVE  TypeOK'
    <2>1. dpc' \in [Distributor -> DistPcs]
      BY <1>4, TypeMove DEF BeginDistribution, DistPcs
    <2>2. Snapshot \subseteq Signer \X Token
      BY DEF Snapshot, Present, StoreTypeOK
    <2>3. dwho' \in [Distributor -> SUBSET (Signer \X Token)]
      BY <1>4, <2>2 DEF BeginDistribution, DistTypeOK
    <2> QED
      BY <1>4, <2>1, <2>3 DEF BeginDistribution, DistTypeOK
  <1>5. ASSUME NEW d \in Distributor, AwaitStatements(d)
        PROVE  TypeOK'
    <2>1. dpc' \in [Distributor -> DistPcs]
      BY <1>5, TypeMove DEF AwaitStatements, DistTypeOK, DistPcs
    <2>2. DistTypeOK'
      BY <1>5, <2>1, TypeDrop DEF AwaitStatements, DistTypeOK
    <2> QED
      BY <1>5, <2>2 DEF AwaitStatements
  <1>6. ASSUME NEW d \in Distributor, CompleteEnvelope(d)
        PROVE  TypeOK'
    <2>1. dpc' \in [Distributor -> DistPcs]
      BY <1>6, TypeMove DEF CompleteEnvelope, DistPcs
    <2>2. EnvelopeTypeOK' /\ StoreTypeOK'
      BY <1>6 DEF CompleteEnvelope, EnvelopeTypeOK, StoreTypeOK, Statuses
    <2> QED
      BY <1>6, <2>1, <2>2 DEF CompleteEnvelope, DistTypeOK
  <1>7. ASSUME NEW d \in Distributor, PrepareBundle(d)
        PROVE  TypeOK'
    <2>1. dpc' \in [Distributor -> DistPcs]
      BY <1>7, TypeMove DEF PrepareBundle, DistPcs
    <2>2. dbundle' \in [Distributor -> SUBSET BundleEntry]
      BY <1>7, TypeEvidence DEF PrepareBundle, DistTypeOK
    <2> QED
      BY <1>7, <2>1, <2>2 DEF PrepareBundle, DistTypeOK
  <1>8. ASSUME NEW d \in Distributor, SendBundle(d) \/ SendPartly(d)
        PROVE  TypeOK'
    <2>1. dpc' \in [Distributor -> DistPcs]
      BY <1>8, TypeMove DEF SendBundle, SendPartly, DistPcs
    <2>2. DistTypeOK'
      BY <1>8, <2>1, TypeDrop DEF SendBundle, SendPartly, DistTypeOK
    <2>3. WorldTypeOK'
      BY <1>8 DEF SendBundle, SendPartly, WorldTypeOK, DistTypeOK
    <2> QED
      BY <1>8, <2>2, <2>3 DEF SendBundle, SendPartly
  <1>9. ASSUME NEW d \in Distributor, StampDistributed(d)
        PROVE  TypeOK'
    <2>1. dpc' \in [Distributor -> DistPcs]
      BY <1>9, TypeMove DEF StampDistributed
    <2>2. DistTypeOK'
      BY <1>9, <2>1, TypeDrop DEF StampDistributed, DistTypeOK
    <2>3. EnvelopeTypeOK' /\ StoreTypeOK'
      BY <1>9 DEF StampDistributed, EnvelopeTypeOK, StoreTypeOK
    <2> QED
      BY <1>9, <2>2, <2>3 DEF StampDistributed
  <1>10. ASSUME NEW d \in Distributor, DistributorFails(d)
         PROVE  TypeOK'
    <2>1. dpc' \in [Distributor -> DistPcs]
      BY <1>10, TypeMove DEF DistributorFails
    <2>2. DistTypeOK'
      BY <1>10, <2>1, TypeDrop DEF DistributorFails, DistTypeOK
    <2> QED
      BY <1>10, <2>2 DEF DistributorFails
  <1> QED
    BY <1>1, <1>2, <1>3, <1>4, <1>5, <1>6, <1>7, <1>8, <1>9, <1>10
    DEF DistributorNext

(* Every variable keeps its type in every step of every handler. *)
THEOREM TypeCorrect == Spec => []TypeOK
  <1>1. TypeOK /\ [Next]_vars => TypeOK'
    <2> SUFFICES ASSUME TypeOK, [Next]_vars PROVE TypeOK'
      OBVIOUS
    <2>1. CASE UNCHANGED vars
      BY <2>1, TypeFrames DEF vars, TypeOK
    <2> QED
      BY <2>1, TypeWorker, TypeCreator, TypeExpiry, TypeDistributor DEF Next
  <1> QED
    BY <1>1, InitTypeOK, PTL DEF Spec

(***************************************************************************)
(* The life of the envelope.  What a step does to the status, the delivery *)
(* mark and the refund is found handler by handler, and the invariants and *)
(* the refinement follow from it.                                          *)
(***************************************************************************)

(* Only the distributors advance past the completion step, and only by      *)
(* completing.                                                              *)
LEMMA LifePast ==
  ASSUME TypeOK, WorkerNext \/ ExpiryNext \/ CreatorNext
  PROVE  \A d \in Distributor : PastCompletion(d)' => PastCompletion(d)
  <1>1. CASE UNCHANGED dpc
    BY <1>1 DEF PastCompletion
  <1>2. ASSUME NEW w \in Worker, EnqueueCompletion(w)
        PROVE  \A d \in Distributor : PastCompletion(d)' => PastCompletion(d)
    BY <1>2 DEF EnqueueCompletion, CreateCompletionRun, PastCompletion, TypeOK,
                DistTypeOK
  <1>3. CASE ExpiryNext
    BY <1>1, <1>3 DEF ExpiryNext, ClaimExpired, PurgeExpired, distVars
  <1>4. CASE CreatorNext
    BY <1>1, <1>4 DEF CreatorNext, BeginAdd, BeginInPlaceEdit, BeginDelete,
         BeginRename, BeginEdit, BeginVoid, Request, Reactivate, RefuseEdit,
         RegenerateCover, DocumentMissing, UpdateSigner, DeleteSigner,
         InsertSigner, MailSigner, VoidEnvelope, RefundCredit, PurgeVoided,
         RequestDies, distVars
  <1>5. CASE WorkerNext
    BY <1>1, <1>2, <1>5 DEF WorkerNext, ForwardArrives, WorkerRetries, Verify,
         RecordSignature, AssembleArtifact, WorkerFails, distVars
  <1> QED
    BY <1>3, <1>4, <1>5

(* Forwards and expiry: the status at most goes from active to expired. *)
LEMMA LifeWorker ==
  ASSUME WorkerNext \/ ExpiryNext
  PROVE  /\ UNCHANGED <<distributed, refunded, delivered, cpc>>
         /\ \/ UNCHANGED status
            \/ status = "active" /\ status' = "expired"
  <1>1. CASE ClaimExpired
    BY <1>1 DEF ClaimExpired, creatorVars
  <1>2. CASE PurgeExpired
    BY <1>2 DEF PurgeExpired, creatorVars
  <1>3. ASSUME NEW w \in Worker, NEW e, NEW v, Verify(w, e, v)
        PROVE  UNCHANGED <<status, distributed, refunded, delivered, cpc>>
    BY <1>3 DEF Verify, dbVars, worldVars, creatorVars
  <1>4. ASSUME NEW w \in Worker,
               RecordSignature(w) \/ AssembleArtifact(w) \/ EnqueueCompletion(w)
                 \/ WorkerFails(w)
        PROVE  UNCHANGED <<status, distributed, refunded, delivered, cpc>>
    <2>1. CASE RecordSignature(w)
      BY <2>1 DEF RecordSignature, worldVars, creatorVars
    <2>2. CASE AssembleArtifact(w)
      BY <2>2 DEF AssembleArtifact, worldVars, creatorVars
    <2>3. CASE EnqueueCompletion(w)
      BY <2>3 DEF EnqueueCompletion, dbVars, worldVars, creatorVars
    <2>4. CASE WorkerFails(w)
      BY <2>4 DEF WorkerFails, dbVars, worldVars, creatorVars
    <2> QED
      BY <1>4, <2>1, <2>2, <2>3, <2>4
  <1>5. CASE WorkerNext
    BY <1>3, <1>4, <1>5 DEF WorkerNext, ForwardArrives, WorkerRetries
  <1> QED
    BY <1>1, <1>2, <1>5 DEF ExpiryNext

(* Edits never touch the delivery mark; they take the status from parked to *)
(* active, and a void from active to voided, before it may refund.          *)
LEMMA LifeCreator ==
  ASSUME CreatorNext
  PROVE  /\ UNCHANGED <<distributed, delivered>>
         /\ \/ UNCHANGED <<status, refunded>> /\ cpc' # "refund"
            \/ /\ status = "awaiting_seal" /\ status' = "active"
               /\ UNCHANGED refunded /\ cpc' # "refund"
            \/ /\ status = "active" /\ status' = "voided"
               /\ UNCHANGED refunded /\ cpc' = "refund"
            \/ cpc = "refund" /\ UNCHANGED status /\ cpc' # "refund"
  <1> USE DEF worldVars
  <1>1. ASSUME NEW kind, NEW e, NEW new, BeginEdit(kind, e, new)
        PROVE  UNCHANGED <<distributed, delivered, status, refunded>> /\ cpc' # "refund"
    BY <1>1 DEF BeginEdit, Request, FirstWrite, dbVars
  <1>2. CASE Reactivate
    BY <1>2 DEF Reactivate, Goto, FirstWrite
  <1>3. CASE RefuseEdit \/ DocumentMissing \/ RequestDies
    BY <1>3 DEF RefuseEdit, DocumentMissing, RequestDies, Answer, dbVars
  <1>4. CASE RegenerateCover
    BY <1>4 DEF RegenerateCover, Goto
  <1>5. CASE UpdateSigner
    BY <1>5 DEF UpdateSigner, Goto
  <1>6. CASE DeleteSigner
    BY <1>6 DEF DeleteSigner, Answer
  <1>7. CASE InsertSigner
    BY <1>7 DEF InsertSigner, Goto
  <1>8. CASE MailSigner
    BY <1>8 DEF MailSigner, Answer, dbVars
  <1>9. CASE BeginVoid
    BY <1>9 DEF BeginVoid, Request, dbVars
  <1>10. CASE VoidEnvelope
    BY <1>10 DEF VoidEnvelope, Goto, Answer
  <1>11. CASE RefundCredit
    BY <1>11 DEF RefundCredit, Goto
  <1>12. CASE PurgeVoided
    BY <1>12 DEF PurgeVoided, Answer
  <1> QED
    BY <1>1, <1>2, <1>3, <1>4, <1>5, <1>6, <1>7, <1>8, <1>9, <1>10, <1>11, <1>12
    DEF CreatorNext, BeginAdd, BeginInPlaceEdit, BeginDelete, BeginRename

(* Distributors: into the park, or into completion from anywhere; a bundle  *)
(* is mailed and the mark set only past the completion step.                *)
LEMMA LifeDistributor ==
  ASSUME TypeOK, DistributorNext
  PROVE  /\ UNCHANGED <<refunded, cpc>>
         /\ \/ /\ UNCHANGED <<status, distributed, delivered>>
               /\ \A d \in Distributor : PastCompletion(d)' => PastCompletion(d)
            \/ /\ status = "active" /\ status' = "awaiting_seal"
               /\ UNCHANGED <<distributed, delivered>>
               /\ \A d \in Distributor : PastCompletion(d)' => PastCompletion(d)
            \/ status' = "completed" /\ UNCHANGED <<distributed, delivered>>
            \/ /\ \E d \in Distributor : PastCompletion(d)
               /\ UNCHANGED <<status, distributed>>
            \/ /\ \E d \in Distributor : PastCompletion(d)
               /\ UNCHANGED <<status, delivered>> /\ distributed' = TRUE
  <1> USE DEF worldVars, creatorVars
  <1>1. CASE BeginSeal
    BY <1>1 DEF BeginSeal, Advance, dbVars, PastCompletion, TypeOK, DistTypeOK
  <1>2. CASE NotifyAwaitingSeal
    BY <1>2 DEF NotifyAwaitingSeal, Advance, Finish, dbVars, PastCompletion,
                TypeOK, DistTypeOK
  <1>3. CASE ParkEnvelope
    BY <1>3 DEF ParkEnvelope, Finish, PastCompletion, TypeOK, DistTypeOK
  <1>4. ASSUME NEW d \in Distributor, BeginDistribution(d)
        PROVE  /\ UNCHANGED <<refunded, cpc, status, distributed, delivered>>
               /\ \A c \in Distributor : PastCompletion(c)' => PastCompletion(c)
    BY <1>4 DEF BeginDistribution, Advance, Finish, dbVars, PastCompletion,
                TypeOK, DistTypeOK
  <1>5. ASSUME NEW d \in Distributor, AwaitStatements(d)
        PROVE  /\ UNCHANGED <<refunded, cpc, status, distributed, delivered>>
               /\ \A c \in Distributor : PastCompletion(c)' => PastCompletion(c)
    BY <1>5 DEF AwaitStatements, Finish, dbVars, PastCompletion, TypeOK,
                DistTypeOK
  <1>6. ASSUME NEW d \in Distributor, CompleteEnvelope(d)
        PROVE  status' = "completed" /\ UNCHANGED <<refunded, cpc, distributed, delivered>>
    BY <1>6 DEF CompleteEnvelope
  <1>7. ASSUME NEW d \in Distributor, PrepareBundle(d)
        PROVE  /\ UNCHANGED <<refunded, cpc, status, distributed, delivered>>
               /\ \A c \in Distributor : PastCompletion(c)' => PastCompletion(c)
    BY <1>7 DEF PrepareBundle, Advance, dbVars, PastCompletion, TypeOK, DistTypeOK
  <1>8. ASSUME NEW d \in Distributor, SendBundle(d) \/ SendPartly(d)
        PROVE  UNCHANGED <<refunded, cpc, status, distributed>> /\ PastCompletion(d)
    BY <1>8 DEF SendBundle, SendPartly, dbVars, PastCompletion
  <1>9. ASSUME NEW d \in Distributor, StampDistributed(d)
        PROVE  /\ UNCHANGED <<refunded, cpc, status, delivered>>
               /\ PastCompletion(d) /\ distributed' = TRUE
    BY <1>9 DEF StampDistributed, PastCompletion
  <1>10. ASSUME NEW d \in Distributor, DistributorFails(d)
         PROVE  /\ UNCHANGED <<refunded, cpc, status, distributed, delivered>>
                /\ \A c \in Distributor : PastCompletion(c)' => PastCompletion(c)
    BY <1>10 DEF DistributorFails, Again, dbVars, PastCompletion, TypeOK, DistTypeOK
  <1> QED
    BY <1>1, <1>2, <1>3, <1>4, <1>5, <1>6, <1>7, <1>8, <1>9, <1>10
    DEF DistributorNext

(* Nothing is delivered or refunded at first. *)
LEMMA InitLifecycleInv == Init => LifecycleInv
  BY DEF Init, LifecycleInv, CompletionInv, DeliveredIsCompleted, PastCompletion,
         RefundInv, Distributor

(* Every step keeps what makes delivery and refund consistent. *)
LEMMA NextLifecycleInv ==
  ASSUME TypeOK, LifecycleInv, [Next]_vars
  PROVE  LifecycleInv'
  <1> USE DEF LifecycleInv, CompletionInv, DeliveredIsCompleted, RefundInv
  <1>1. CASE UNCHANGED vars
    BY <1>1 DEF vars, dbVars, worldVars, creatorVars, distVars, PastCompletion
  <1>2. CASE WorkerNext \/ ExpiryNext
    BY <1>2, LifePast, LifeWorker
  <1>3. CASE CreatorNext
    BY <1>3, LifePast, LifeCreator
  <1>4. CASE DistributorNext
    <2>1. CASE status' = "completed"
      BY <1>4, <2>1, LifeDistributor
    <2>2. CASE status' # "completed"
      <3>1. UNCHANGED <<refunded, cpc>>
        BY <1>4, LifeDistributor
      <3>2. CASE /\ UNCHANGED <<status, distributed, delivered>>
                 /\ \A d \in Distributor : PastCompletion(d)' => PastCompletion(d)
        BY <3>1, <3>2
      <3>3. CASE /\ status = "active" /\ status' = "awaiting_seal"
                 /\ UNCHANGED <<distributed, delivered>>
                 /\ \A d \in Distributor : PastCompletion(d)' => PastCompletion(d)
        BY <3>1, <3>3
      <3>4. CASE UNCHANGED status /\ \E d \in Distributor : PastCompletion(d)
        BY <2>2, <3>4
      <3> QED
        BY <1>4, <2>2, <3>2, <3>3, <3>4, LifeDistributor
    <2> QED
      BY <2>1, <2>2
  <1> QED
    BY <1>1, <1>2, <1>3, <1>4 DEF Next

(* The inductive invariant behind the delivery mark and the refund. *)
THEOREM LifecycleCorrect == Spec => []LifecycleInv
  <1>1. Spec => []TypeOK
    BY TypeCorrect
  <1>2. TypeOK /\ LifecycleInv /\ [Next]_vars => LifecycleInv'
    BY NextLifecycleInv
  <1> QED
    BY <1>1, <1>2, InitLifecycleInv, PTL DEF Spec

(* No bundle is mailed, and no envelope marked distributed, unless it is    *)
(* completed and stays so.                                                  *)
THEOREM DeliveryNeedsCompletion == Spec => []DeliveredIsCompleted
  <1>1. LifecycleInv => DeliveredIsCompleted
    BY DEF LifecycleInv, CompletionInv
  <1> QED
    BY <1>1, LifecycleCorrect, PTL

(* Every step of every handler is a step of the abstract life, or none. *)
LEMMA StepLifecycle ==
  ASSUME TypeOK, LifecycleInv, [Next]_vars
  PROVE  [Lifecycle!LifeNext]_(Lifecycle!lifeVars)
  <1> USE DEF Lifecycle!lifeVars, Lifecycle!LifeNext, Lifecycle!Move
  <1>1. CASE UNCHANGED vars
    BY <1>1 DEF vars, dbVars
  <1>2. CASE WorkerNext \/ ExpiryNext
    BY <1>2, LifeWorker DEF Lifecycle!Expire
  <1>3. CASE CreatorNext
    <2>1. CASE UNCHANGED <<status, refunded>>
      BY <1>3, <2>1, LifeCreator
    <2>2. CASE status = "awaiting_seal" /\ status' = "active" /\ UNCHANGED refunded
      BY <1>3, <2>2, LifeCreator DEF Lifecycle!Reopen
    <2>3. CASE status = "active" /\ status' = "voided" /\ UNCHANGED refunded
      BY <1>3, <2>3, LifeCreator DEF Lifecycle!Void
    <2>4. CASE cpc = "refund" /\ UNCHANGED status
      <3>1. refunded = FALSE /\ refunded' \in BOOLEAN
        BY <1>3, <2>4, TypeCreator DEF TypeOK, EnvelopeTypeOK, LifecycleInv, RefundInv
      <3>2. CASE refunded' = TRUE
        BY <1>3, <2>4, <3>1, <3>2, LifeCreator
        DEF Lifecycle!Refund, LifecycleInv, RefundInv
      <3>3. CASE refunded' = FALSE
        BY <1>3, <2>4, <3>1, <3>3, LifeCreator
      <3> QED
        BY <3>1, <3>2, <3>3
    <2> QED
      BY <1>3, <2>1, <2>2, <2>3, <2>4, LifeCreator
  <1>4. CASE DistributorNext
    <2>1. CASE /\ \E d \in Distributor : PastCompletion(d)
               /\ UNCHANGED <<status, delivered>> /\ distributed' = TRUE
      <3>1. status = "completed" /\ UNCHANGED <<status, refunded>>
        BY <1>4, <2>1, LifeDistributor DEF LifecycleInv, CompletionInv
      <3>2. CASE distributed = TRUE
        BY <2>1, <3>1, <3>2
      <3>3. CASE distributed = FALSE
        BY <2>1, <3>1, <3>3 DEF Lifecycle!Deliver
      <3> QED
        BY <3>2, <3>3 DEF TypeOK, EnvelopeTypeOK
    <2> QED
      BY <1>4, <2>1, LifeDistributor DEF Lifecycle!Park, Lifecycle!Complete
  <1> QED
    BY <1>1, <1>2, <1>3, <1>4 DEF Next

(* Envelope implements EnvelopeLifecycle, for every set of signers, of      *)
(* workers and every bound.                                                 *)
THEOREM LifecycleRefinement == Spec => ImplementsLifecycle
  <1>1. Init => Lifecycle!LifeInit
    BY DEF Init, Lifecycle!LifeInit
  <1>2. TypeOK /\ LifecycleInv /\ [Next]_vars
          => [Lifecycle!LifeNext]_(Lifecycle!lifeVars)
    BY StepLifecycle
  <1> QED
    BY <1>1, <1>2, TypeCorrect, LifecycleCorrect, PTL
    DEF Spec, ImplementsLifecycle, Lifecycle!LifeSpec

(* A completed envelope with nothing in flight is never touched again: the  *)
(* status checks are enough, whatever the interleaving.                     *)
LEMMA QuietStep ==
  ASSUME TypeOK, Quiet, [Next]_vars
  PROVE  Quiet' /\ row' = row
  <1> USE DEF Quiet
  <1>1. CASE UNCHANGED vars
    BY <1>1 DEF vars, dbVars, workerVars, creatorVars
  <1>2. CASE CreatorNext
    <2>1. FALSE
      BY <1>2 DEF CreatorNext, BeginAdd, BeginInPlaceEdit, BeginDelete,
           BeginRename, BeginEdit, BeginVoid, Open, Reactivate, RefuseEdit,
           RegenerateCover, DocumentMissing, UpdateSigner, DeleteSigner,
           InsertSigner, MailSigner, VoidEnvelope, RefundCredit, PurgeVoided,
           RequestDies
    <2> QED
      BY <2>1
  <1>3. CASE ExpiryNext
    BY <1>3 DEF ExpiryNext, ClaimExpired, PurgeExpired, workerVars, creatorVars
  <1>4. ASSUME NEW w \in Worker, NEW e \in Signer, NEW v, Verify(w, e, v)
        PROVE  Quiet' /\ row' = row
    BY <1>4 DEF Verify, Acceptable, Open, dbVars, creatorVars, TypeOK, WorkerTypeOK
  <1>5. ASSUME NEW w \in Worker,
               \/ AssembleArtifact(w) \/ EnqueueCompletion(w) \/ WorkerFails(w)
        PROVE  Quiet' /\ row' = row
    BY <1>5 DEF AssembleArtifact, EnqueueCompletion, WorkerFails, dbVars,
                creatorVars, TypeOK, WorkerTypeOK
  <1>6. CASE WorkerNext
    <2>1. ASSUME NEW w \in Worker, WorkerRetries(w)
          PROVE  Quiet' /\ row' = row
      <3>1. wfrom[w] \in Signer
        BY DEF TypeOK, WorkerTypeOK
      <3> QED
        BY <1>4, <2>1, <3>1 DEF WorkerRetries
    <2>2. ASSUME NEW w \in Worker, NEW e \in Signer, NEW v, ForwardArrives(w, e, v)
          PROVE  Quiet' /\ row' = row
      BY <1>4, <2>2 DEF ForwardArrives
    <2>3. \A w \in Worker : ~RecordSignature(w)
      BY DEF RecordSignature
    <2> QED
      BY <1>5, <1>6, <2>1, <2>2, <2>3 DEF WorkerNext
  <1>7. CASE DistributorNext
    <2>1. status' = "completed"
      BY <1>7, LifeDistributor
    <2>2. UNCHANGED <<row, cpc, wpc>>
      BY <1>7 DEF DistributorNext, BeginSeal, NotifyAwaitingSeal, ParkEnvelope,
           BeginDistribution, AwaitStatements, CompleteEnvelope, PrepareBundle,
           SendBundle, SendPartly, StampDistributed, DistributorFails, dbVars,
           workerVars, creatorVars
    <2> QED
      BY <2>1, <2>2
  <1> QED
    BY <1>1, <1>2, <1>3, <1>6, <1>7 DEF Next

(* A sealed envelope with nothing in flight stays as it is (SealedStaysQuiet):
   its signer rows never change again, whatever arrives. *)
THEOREM SealedIsQuiet == Spec => SealedStaysQuiet
  <1>1. TypeOK /\ [Next]_vars => [Quiet => Quiet' /\ row' = row]_vars
    BY QuietStep
  <1> QED
    BY <1>1, TypeCorrect, PTL DEF Spec, SealedStaysQuiet

(***************************************************************************)
(* The last signature is never lost.  Inductive: a worker past the UPDATE  *)
(* holds the address of a signed row, and before it of a row that exists,  *)
(* since only a request of the creator removes rows or unsigns them.       *)
(***************************************************************************)
WorkerKnows(w) ==
  /\ wpc[w] = "verified" => row[wfrom[w]] # "absent"
  /\ wpc[w] \in {"assemble", "enqueue"} => row[wfrom[w]] = "signed"

NotLostInv ==
  requests = 0 => /\ cpc = "idle"
                  /\ \A w \in Worker : WorkerKnows(w)
                  /\ CompletionNotLost

(* Checking a forward cannot lose the completion that it may owe. *)
LEMMA NotLostVerify ==
  ASSUME TypeOK, NotLostInv, NEW w \in Worker, NEW e \in Signer, NEW v,
         Verify(w, e, v), ~OnItsWay(w) \/ row[e] = "signed"
  PROVE  NotLostInv'
  <1> SUFFICES ASSUME requests = 0
               PROVE  /\ cpc = "idle"
                      /\ \A x \in Worker : WorkerKnows(x)'
                      /\ CompletionNotLost'
    BY DEF Verify, NotLostInv, worldVars, creatorVars
  <1> USE DEF NotLostInv, OnItsWay
  <1>1. UNCHANGED <<row, requests, dpc, cpc>>
    BY DEF Verify, dbVars, worldVars, creatorVars, distVars
  <1>2. \A x \in Worker \ {w} : wpc'[x] = wpc[x] /\ wfrom'[x] = wfrom[x]
    BY DEF Verify, TypeOK, WorkerTypeOK
  <1>3. WorkerKnows(w)' /\ (row[e] = "signed" => wpc'[w] = "enqueue")
    BY <1>1 DEF Verify, Acceptable, WorkerKnows, TypeOK, WorkerTypeOK
  <1>4. \A x \in Worker : WorkerKnows(x)'
    BY <1>1, <1>2, <1>3 DEF WorkerKnows
  <1>5. AllSigned' <=> AllSigned
    BY <1>1 DEF AllSigned, Present
  <1>6. \A x \in Worker : OnItsWay(x) => OnItsWay(x)'
    BY <1>1, <1>2, <1>3
  <1> QED
    BY <1>1, <1>4, <1>5, <1>6 DEF CompletionNotLost

(* No step of a worker loses it. *)
LEMMA NotLostWorker ==
  ASSUME TypeOK, NotLostInv, WorkerNext
  PROVE  NotLostInv'
  <1>1. ASSUME NEW w \in Worker, NEW e \in Signer, NEW v, ForwardArrives(w, e, v)
        PROVE  NotLostInv'
    BY <1>1, NotLostVerify DEF ForwardArrives, OnItsWay
  <1>2. ASSUME NEW w \in Worker, WorkerRetries(w)
        PROVE  NotLostInv'
    <2>1. wfrom[w] \in Signer
      BY DEF TypeOK, WorkerTypeOK
    <2> QED
      BY <1>2, <2>1, NotLostVerify DEF WorkerRetries, OnItsWay
  <1>3. ASSUME NEW w \in Worker,
               \/ RecordSignature(w) \/ AssembleArtifact(w)
               \/ EnqueueCompletion(w) \/ WorkerFails(w)
        PROVE  NotLostInv'
    <2> SUFFICES ASSUME requests = 0
                 PROVE  /\ cpc = "idle"
                        /\ \A x \in Worker : WorkerKnows(x)'
                        /\ CompletionNotLost'
      BY <1>3 DEF RecordSignature, AssembleArtifact, EnqueueCompletion,
                  WorkerFails, NotLostInv, worldVars, creatorVars
    <2> USE DEF NotLostInv, OnItsWay, WorkerKnows
    <2>1. \A x \in Worker \ {w} : wpc'[x] = wpc[x] /\ wfrom'[x] = wfrom[x]
      BY <1>3 DEF RecordSignature, AssembleArtifact, EnqueueCompletion,
                  WorkerFails, TypeOK, WorkerTypeOK
    <2>2. CASE RecordSignature(w)
      <3>1. row'[wfrom[w]] = "signed"
        BY <2>2 DEF RecordSignature, TypeOK, StoreTypeOK, WorkerTypeOK, RowStates
      <3>2. \A e \in Signer : row[e] # "absent" => row'[e] \in {row[e], "signed"}
        BY <2>2 DEF RecordSignature, TypeOK, StoreTypeOK
      <3>3. \A x \in Worker : wfrom'[x] = wfrom[x] /\ wfrom[x] \in Signer
        BY <2>2 DEF RecordSignature, TypeOK, WorkerTypeOK
      <3>4. wpc'[w] \in {"assemble", "enqueue"}
        BY <2>2 DEF RecordSignature, TypeOK, WorkerTypeOK
      <3>5. \A x \in Worker : WorkerKnows(x)'
        BY <2>1, <3>1, <3>2, <3>3, <3>4
      <3> QED
        BY <2>2, <3>4, <3>5 DEF CompletionNotLost
    <2>3. CASE AssembleArtifact(w)
      <3>1. wpc'[w] = "enqueue" /\ UNCHANGED <<row, wfrom>>
        BY <2>3 DEF AssembleArtifact, TypeOK, WorkerTypeOK
      <3>2. \A x \in Worker : WorkerKnows(x)'
        BY <2>1, <2>3, <3>1 DEF AssembleArtifact
      <3> QED
        BY <3>1, <3>2 DEF CompletionNotLost
    <2>4. CASE EnqueueCompletion(w)
      <3>1. wpc'[w] = "idle" /\ UNCHANGED <<row, requests>>
        BY <2>4 DEF EnqueueCompletion, dbVars, worldVars, TypeOK, WorkerTypeOK
      <3>2. \A x \in Worker : WorkerKnows(x)'
        BY <2>1, <3>1
      <3>3. AllSigned' => dpc'["run"] # "off"
        BY <2>4, <3>1 DEF EnqueueCompletion, CreateCompletionRun, AllSigned,
                         Present, TypeOK, DistTypeOK, Distributor
      <3> QED
        BY <3>2, <3>3 DEF CompletionNotLost
    <2>5. CASE WorkerFails(w)
      <3>1. wpc'[w] = "retry" /\ UNCHANGED <<row, requests, dpc, wfrom>>
        BY <2>5 DEF WorkerFails, dbVars, worldVars, distVars, TypeOK, WorkerTypeOK
      <3>2. \A x \in Worker : WorkerKnows(x)'
        BY <2>1, <3>1
      <3>3. AllSigned' <=> AllSigned
        BY <3>1 DEF AllSigned, Present
      <3>4. \A x \in Worker : OnItsWay(x) => OnItsWay(x)'
        BY <2>1, <2>5, <3>1 DEF WorkerFails
      <3> QED
        BY <3>1, <3>2, <3>3, <3>4 DEF CompletionNotLost
    <2> QED
      BY <1>3, <2>2, <2>3, <2>4, <2>5
  <1> QED
    BY <1>1, <1>2, <1>3 DEF WorkerNext

(* A step that leaves rows and workers alone, and does not take the         *)
(* completion run away, loses nothing.                                      *)
LEMMA NotLostFrame ==
  ASSUME NotLostInv, UNCHANGED <<row, workerVars, requests, cpc>>,
         dpc["run"] # "off" => dpc'["run"] # "off"
  PROVE  NotLostInv'
  BY DEF NotLostInv, WorkerKnows, CompletionNotLost, OnItsWay, AllSigned,
         Present, workerVars

(* Nor does any other step: a request of the creator ends the premise, and  *)
(* no step of a distributor takes the completion run away.                  *)
LEMMA NotLostOthers ==
  ASSUME TypeOK, NotLostInv,
         CreatorNext \/ ExpiryNext \/ DistributorNext \/ UNCHANGED vars
  PROVE  NotLostInv'
  <1>1. CASE CreatorNext
    <2>1. CASE cpc = "idle"
      <3>1. requests' # 0
        BY <1>1, <2>1 DEF CreatorNext, BeginAdd, BeginInPlaceEdit, BeginDelete,
             BeginRename, BeginEdit, BeginVoid, Request, Reactivate, RefuseEdit,
             RegenerateCover, DocumentMissing, UpdateSigner, DeleteSigner,
             InsertSigner, MailSigner, VoidEnvelope, RefundCredit, PurgeVoided,
             RequestDies, TypeOK, WorldTypeOK
      <3> QED
        BY <3>1 DEF NotLostInv
    <2>2. CASE cpc # "idle"
      <3>1. requests # 0
        BY <2>2 DEF NotLostInv
      <3>2. UNCHANGED requests
        BY <1>1, <2>2 DEF CreatorNext, BeginAdd, BeginInPlaceEdit, BeginDelete,
             BeginRename, BeginEdit, BeginVoid, Request, Reactivate, RefuseEdit,
             RegenerateCover, DocumentMissing, UpdateSigner, DeleteSigner,
             InsertSigner, MailSigner, VoidEnvelope, RefundCredit, PurgeVoided,
             RequestDies, worldVars
      <3> QED
        BY <3>1, <3>2 DEF NotLostInv
    <2> QED
      BY <2>1, <2>2
  <1>2. CASE ExpiryNext
    BY <1>2, NotLostFrame
    DEF ExpiryNext, ClaimExpired, PurgeExpired, creatorVars, distVars
  <1>3. CASE UNCHANGED vars
    BY <1>3, NotLostFrame
    DEF vars, dbVars, worldVars, creatorVars, distVars
  <1>4. CASE DistributorNext
    <2>1. UNCHANGED <<row, workerVars, requests, cpc>>
      BY <1>4 DEF DistributorNext, BeginSeal, NotifyAwaitingSeal, ParkEnvelope,
           BeginDistribution, AwaitStatements, CompleteEnvelope, PrepareBundle,
           SendBundle, SendPartly, StampDistributed, DistributorFails, dbVars,
           worldVars, creatorVars
    <2>2. dpc["run"] # "off" => dpc'["run"] # "off"
      BY <1>4 DEF DistributorNext, BeginSeal, NotifyAwaitingSeal, ParkEnvelope,
           BeginDistribution, AwaitStatements, CompleteEnvelope, PrepareBundle,
           SendBundle, SendPartly, StampDistributed, DistributorFails, Finish,
           Again, Advance, TypeOK, DistTypeOK, Distributor
    <2> QED
      BY <2>1, <2>2, NotLostFrame
  <1> QED
    BY <1>1, <1>2, <1>3, <1>4

(* While the creator has not intervened, an envelope all of whose signers   *)
(* have signed has its completion run or a worker that will create it: for  *)
(* any number of signers and workers, crashes and retries.                  *)
THEOREM LastSignatureCounts == Spec => []CompletionNotLost
  <1>1. Init => NotLostInv
    <2> SUFFICES ASSUME Init PROVE NotLostInv
      OBVIOUS
    <2>1. PICK e \in Invited : TRUE
      BY EnvelopeAssumption
    <2>2. e \in Signer /\ row[e] = "pending"
      BY <2>1, EnvelopeAssumption DEF Init
    <2>3. ~AllSigned
      BY <2>2 DEF AllSigned, Present
    <2> QED
      BY <2>3 DEF Init, NotLostInv, WorkerKnows, CompletionNotLost
  <1>2. TypeOK /\ NotLostInv /\ [Next]_vars => NotLostInv'
    BY NotLostWorker, NotLostOthers DEF Next
  <1>3. TypeOK /\ NotLostInv => CompletionNotLost
    BY DEF NotLostInv, CompletionNotLost
  <1> QED
    BY <1>1, <1>2, <1>3, TypeCorrect, PTL DEF Spec

-----------------------------------------------------------------------------
(***************************************************************************)
(* What an open envelope needs is there.  Inductive: a cover and a PDF are  *)
(* never newer than the last one issued, a request about to write the row   *)
(* of a signer has stored the newest cover under that signer's token, and a *)
(* handler deletes blobs only of an envelope that is closed, for good.      *)
(***************************************************************************)
NoneFromTheFuture ==
  \A e \in Signer : /\ pdf[e] <= issued[e]
                    /\ \A t \in Token : cover[e][t] <= issued[e]

CoverIsStored ==
  Open /\ cpc = "update" => /\ cover[cto][token[cto]] = issued[cto]
                            /\ issued[cto] # 0

PurgesAreClosed ==
  cpc \in {"refund", "purge"} \/ expiry = "purging" => ~Open

ServedInv ==
  NoneFromTheFuture /\ CoverIsStored /\ PurgesAreClosed /\ OpenCanBeServed

(* No step opens a closed envelope, and none starts to delete the blobs of  *)
(* an open one.                                                             *)
LEMMA PurgesStayClosed ==
  ASSUME PurgesAreClosed, [Next]_vars
  PROVE  (Open' => Open) /\ PurgesAreClosed'
  <1> USE DEF PurgesAreClosed, Open
  <1>1. CASE UNCHANGED vars
    BY <1>1 DEF vars, dbVars, worldVars, creatorVars
  <1>2. CASE WorkerNext
    BY <1>2 DEF WorkerNext, ForwardArrives, WorkerRetries, Verify,
         RecordSignature, AssembleArtifact, EnqueueCompletion, WorkerFails,
         dbVars, worldVars, creatorVars
  <1>3. CASE CreatorNext
    <2>1. ASSUME NEW kind \in Kinds, NEW e, NEW new, BeginEdit(kind, e, new)
          PROVE  UNCHANGED <<status, expiry>> /\ cpc' \notin {"refund", "purge"}
      BY <2>1 DEF BeginEdit, Request, FirstWrite, dbVars
    <2>2. CASE \E e \in Signer :
                 BeginAdd(e) \/ BeginInPlaceEdit(e) \/ BeginDelete(e)
      BY <2>1, <2>2 DEF BeginAdd, BeginInPlaceEdit, BeginDelete, Kinds
    <2>3. CASE \E e, new \in Signer : BeginRename(e, new)
      BY <2>1, <2>3 DEF BeginRename, Kinds
    <2>4. CASE Reactivate \/ RefuseEdit \/ RegenerateCover \/ DocumentMissing
      BY <2>4 DEF Reactivate, RefuseEdit, RegenerateCover, DocumentMissing,
           Goto, Answer, FirstWrite, dbVars, worldVars
    <2>5. CASE UpdateSigner \/ DeleteSigner \/ InsertSigner \/ MailSigner
      BY <2>5 DEF UpdateSigner, DeleteSigner, InsertSigner, MailSigner, Goto,
           Answer, dbVars, worldVars
    <2>6. CASE BeginVoid \/ VoidEnvelope
      BY <2>6 DEF BeginVoid, VoidEnvelope, Request, Goto, Answer, dbVars,
           worldVars
    <2>7. CASE RefundCredit \/ PurgeVoided \/ RequestDies
      BY <2>7 DEF RefundCredit, PurgeVoided, RequestDies, Goto, Answer, dbVars,
           worldVars
    <2> QED
      BY <1>3, <2>2, <2>3, <2>4, <2>5, <2>6, <2>7 DEF CreatorNext
  <1>4. CASE ExpiryNext
    BY <1>4 DEF ExpiryNext, ClaimExpired, PurgeExpired, creatorVars
  <1>5. CASE DistributorNext
    BY <1>5 DEF DistributorNext, BeginSeal, NotifyAwaitingSeal, ParkEnvelope,
         BeginDistribution, AwaitStatements, CompleteEnvelope, PrepareBundle,
         SendBundle, SendPartly, StampDistributed, DistributorFails, dbVars,
         worldVars, creatorVars
  <1> QED
    BY <1>1, <1>2, <1>3, <1>4, <1>5 DEF Next

(* A step that leaves PDFs and covers alone and invites nobody.             *)
LEMMA ServedFrame ==
  ASSUME ServedInv, Open' => Open, PurgesAreClosed',
         UNCHANGED <<docStored, token, pdf, cover, issued>>,
         Present' \subseteq Present,
         cpc' = "update" => cpc = "update" /\ UNCHANGED cto
  PROVE  ServedInv'
  BY DEF ServedInv, NoneFromTheFuture, CoverIsStored, OpenCanBeServed

(* Forwards sign rows that are there, and touch no PDF.                     *)
LEMMA ServedWorker ==
  ASSUME ServedInv, [Next]_vars, WorkerNext
  PROVE  ServedInv'
  <1>1. (Open' => Open) /\ PurgesAreClosed'
    BY PurgesStayClosed DEF ServedInv
  <1>2. UNCHANGED <<docStored, token, pdf, cover, issued, cpc, cto>>
    BY DEF WorkerNext, ForwardArrives, WorkerRetries, Verify, RecordSignature,
         AssembleArtifact, EnqueueCompletion, WorkerFails, dbVars, worldVars,
         creatorVars
  <1>3. Present' \subseteq Present
    <2>1. CASE UNCHANGED row
      BY <2>1 DEF Present
    <2>2. ASSUME NEW w \in Worker, RecordSignature(w)
          PROVE  Present' \subseteq Present
      BY <2>2 DEF RecordSignature, Present
    <2> QED
      BY <2>1, <2>2 DEF WorkerNext, ForwardArrives, WorkerRetries, Verify,
         AssembleArtifact, EnqueueCompletion, WorkerFails, dbVars
  <1> QED
    BY <1>1, <1>2, <1>3, ServedFrame

(* Distributors and the expiry run: only a closed envelope loses its blobs. *)
LEMMA ServedOthers ==
  ASSUME TypeOK, ServedInv, [Next]_vars,
         ExpiryNext \/ DistributorNext \/ UNCHANGED vars
  PROVE  ServedInv'
  <1>1. (Open' => Open) /\ PurgesAreClosed'
    BY PurgesStayClosed DEF ServedInv
  <1>2. UNCHANGED <<row, token, pdf, issued, cpc, cto>>
    BY DEF ExpiryNext, ClaimExpired, PurgeExpired, DistributorNext, BeginSeal,
         NotifyAwaitingSeal, ParkEnvelope, BeginDistribution, AwaitStatements,
         CompleteEnvelope, PrepareBundle, SendBundle, SendPartly,
         StampDistributed, DistributorFails, vars, dbVars, worldVars, creatorVars
  <1>3. CASE UNCHANGED <<docStored, cover>>
    BY <1>1, <1>2, <1>3, ServedFrame DEF Present
  <1>4. CASE PurgeExpired /\ PurgeBlobs
    <2>1. ~Open'
      BY <1>4 DEF PurgeExpired, ServedInv, PurgesAreClosed, Open
    <2>2. NoneFromTheFuture'
      <3> SUFFICES ASSUME NEW e \in Signer, NEW t \in Token
                   PROVE  cover'[e][t] <= issued'[e]
        BY <1>2 DEF NoneFromTheFuture, ServedInv
      <3>1. cover'[e][t] \in {0, cover[e][t]}
        BY <1>4 DEF PurgeBlobs
      <3>2. issued[e] \in Nat
        BY EnvelopeAssumption DEF TypeOK, WorldTypeOK
      <3> QED
        BY <1>2, <3>1, <3>2 DEF ServedInv, NoneFromTheFuture
    <2> QED
      BY <1>1, <2>1, <2>2 DEF ServedInv, CoverIsStored, OpenCanBeServed
  <1> QED
    BY <1>3, <1>4 DEF ExpiryNext, ClaimExpired, PurgeExpired, DistributorNext,
         BeginSeal, NotifyAwaitingSeal, ParkEnvelope, BeginDistribution,
         AwaitStatements, CompleteEnvelope, PrepareBundle, SendBundle,
         SendPartly, StampDistributed, DistributorFails, vars, dbVars

(* A PDF is issued: nothing is newer than it.                               *)
LEMMA ServedIssue ==
  ASSUME TypeOK, NoneFromTheFuture, NEW e \in Signer, NEW t \in Token,
         Issue(e, t), pdf' = pdf \/ pdf' = [pdf EXCEPT ![e] = issued[e] + 1]
  PROVE  /\ NoneFromTheFuture'
         /\ cover'[e][t] = issued'[e] /\ issued'[e] = issued[e] + 1
         /\ \A x \in Signer \ {e} : cover'[x] = cover[x]
  <1>1. issued \in [Signer -> Nat] /\ pdf \in [Signer -> Nat]
        /\ cover \in [Signer -> [Token -> Nat]]
    BY EnvelopeAssumption DEF TypeOK, WorldTypeOK, StoreTypeOK
  <1>2. cover' = [cover EXCEPT ![e] = [cover[e] EXCEPT ![t] = issued[e] + 1]]
    BY DEF Issue
  <1>3. issued' = [issued EXCEPT ![e] = issued[e] + 1]
    BY DEF Issue
  <1>4. cover'[e] = [cover[e] EXCEPT ![t] = issued[e] + 1]
    BY <1>1, <1>2
  <1>5. issued'[e] = issued[e] + 1 /\ cover'[e][t] = issued[e] + 1
    BY <1>1, <1>3, <1>4
  <1>6. \A x \in Signer \ {e} : cover'[x] = cover[x] /\ issued'[x] = issued[x]
    BY <1>1, <1>2, <1>3
  <1>7. \A x \in Signer : pdf'[x] <= issued'[x]
    BY <1>1, <1>5, <1>6 DEF NoneFromTheFuture
  <1>8. \A u \in Token : cover'[e][u] <= issued'[e]
    BY <1>1, <1>4, <1>5 DEF NoneFromTheFuture
  <1>9. \A x \in Signer, u \in Token : cover'[x][u] <= issued'[x]
    BY <1>6, <1>8 DEF NoneFromTheFuture
  <1> QED
    BY <1>5, <1>6, <1>7, <1>9 DEF NoneFromTheFuture

(* No request of the creator, wherever it dies, leaves an open envelope     *)
(* without its document or an invited signer without a new enough cover.    *)
LEMMA ServedCreator ==
  ASSUME TypeOK, ServedInv, [Next]_vars, CreatorNext
  PROVE  ServedInv'
  <1>1. (Open' => Open) /\ PurgesAreClosed'
    BY PurgesStayClosed DEF ServedInv
  <1>2. /\ cto \in Signer /\ token \in [Signer -> Token] /\ row \in [Signer -> RowStates]
        /\ issued \in [Signer -> Nat] /\ pdf \in [Signer -> Nat]
        /\ cover \in [Signer -> [Token -> Nat]]
    BY EnvelopeAssumption DEF TypeOK, WorldTypeOK, StoreTypeOK, CreatorTypeOK
  <1>3. ASSUME NEW kind, NEW e, NEW new, NEW pc \in CreatorPcs \ {"update"},
               Request(kind, e, new, pc)
        PROVE  ServedInv'
    BY <1>1, <1>3, ServedFrame DEF Request, dbVars, Present
  <1>4. ASSUME NEW kind \in Kinds \ {"void"}, NEW e, NEW new,
               BeginEdit(kind, e, new)
        PROVE  ServedInv'
    BY <1>3, <1>4 DEF BeginEdit, FirstWrite, Kinds, CreatorPcs
  <1>5. CASE \E e \in Signer : BeginAdd(e) \/ BeginInPlaceEdit(e) \/ BeginDelete(e)
    BY <1>4, <1>5 DEF BeginAdd, BeginInPlaceEdit, BeginDelete, Kinds
  <1>6. CASE \E e, new \in Signer : BeginRename(e, new)
    BY <1>4, <1>6 DEF BeginRename, Kinds
  <1>7. CASE Reactivate
    BY <1>1, <1>7, ServedFrame DEF Reactivate, Goto, FirstWrite, worldVars, Present
  <1>8. CASE RefuseEdit \/ DocumentMissing \/ RequestDies
    BY <1>1, <1>8, ServedFrame
    DEF RefuseEdit, DocumentMissing, RequestDies, Answer, dbVars, worldVars, Present
  <1>9. CASE RegenerateCover
    <2>1. /\ NoneFromTheFuture'
          /\ cover'[cto][token[cto]] = issued'[cto] /\ issued'[cto] = issued[cto] + 1
          /\ \A x \in Signer \ {cto} : cover'[x] = cover[x]
      BY <1>2, <1>9, ServedIssue DEF RegenerateCover, ServedInv
    <2>2. UNCHANGED <<docStored, row, token, pdf, cto>> /\ docStored
      BY <1>9 DEF RegenerateCover, Goto
    <2>3. CoverIsStored'
      BY <1>2, <2>1, <2>2 DEF CoverIsStored
    <2>4. \A e \in Signer :
            cover[e][token[e]] # 0 /\ cover[e][token[e]] >= pdf[e] =>
              cover'[e][token[e]] # 0 /\ cover'[e][token[e]] >= pdf[e]
      BY <1>2, <2>1 DEF ServedInv, NoneFromTheFuture
    <2>5. OpenCanBeServed'
      BY <1>1, <2>2, <2>4 DEF ServedInv, OpenCanBeServed, Present
    <2> QED
      BY <1>1, <2>1, <2>3, <2>5 DEF ServedInv
  <1>10. CASE UpdateSigner
    <2>1. /\ UNCHANGED <<docStored, token, cover, issued, cto>>
          /\ pdf' = [pdf EXCEPT ![cto] = issued[cto]]
          /\ Present' = Present \cup {cto}
          /\ cpc = "update" /\ cpc' = "mail"
      BY <1>2, <1>10 DEF UpdateSigner, Goto, worldVars, Present
    <2>2. NoneFromTheFuture'
      BY <1>2, <2>1 DEF ServedInv, NoneFromTheFuture
    <2>3. Open' => /\ cover[cto][token[cto]] # 0
                   /\ cover[cto][token[cto]] >= pdf'[cto]
      BY <1>1, <1>2, <2>1 DEF ServedInv, CoverIsStored
    <2>4. OpenCanBeServed'
      BY <1>1, <1>2, <2>1, <2>3 DEF ServedInv, OpenCanBeServed, Present
    <2> QED
      BY <1>1, <2>1, <2>2, <2>4 DEF ServedInv, CoverIsStored
  <1>11. CASE DeleteSigner
    <2>1. /\ UNCHANGED <<docStored, issued>>
          /\ pdf' = [pdf EXCEPT ![cto] = 0] /\ token' = [token EXCEPT ![cto] = 0]
          /\ Present' = Present \ {cto}
          /\ cpc' \in {"idle", "insert"}
      BY <1>2, <1>11 DEF DeleteSigner, Answer, worldVars, Present
    <2>2. /\ \A x \in Signer \ {cto} : cover'[x] = cover[x]
          /\ \A t \in Token : cover'[cto][t] \in {0, cover[cto][t]}
      <3>1. CASE UNCHANGED cover
        BY <3>1
      <3>2. CASE cover' = [cover EXCEPT ![cto][token[cto]] = 0]
        <4>1. cover' = [cover EXCEPT ![cto] = [cover[cto] EXCEPT ![token[cto]] = 0]]
          BY <3>2
        <4> QED
          BY <1>2, <4>1
      <3> QED
        BY <1>11, <3>1, <3>2 DEF DeleteSigner
    <2>3. NoneFromTheFuture'
      <3>1. \A x \in Signer : pdf'[x] <= issued'[x]
        BY <1>2, <2>1 DEF ServedInv, NoneFromTheFuture
      <3>2. \A x \in Signer, t \in Token : cover'[x][t] <= issued'[x]
        BY <1>2, <2>1, <2>2 DEF ServedInv, NoneFromTheFuture
      <3> QED
        BY <3>1, <3>2 DEF NoneFromTheFuture
    <2>4. OpenCanBeServed'
      BY <1>1, <1>2, <2>1, <2>2 DEF ServedInv, OpenCanBeServed, Present
    <2> QED
      BY <1>1, <2>1, <2>3, <2>4 DEF ServedInv, CoverIsStored
  <1>12. CASE InsertSigner
    <2>1. /\ UNCHANGED <<docStored, cto>> /\ docStored
          /\ pdf' = [pdf EXCEPT ![cto] = issued[cto] + 1]
          /\ token' = [token EXCEPT ![cto] = issued[cto] + 1]
          /\ Present' \subseteq Present \cup {cto}
          /\ cpc' = "mail"
      BY <1>2, <1>12 DEF InsertSigner, Goto, Present
    <2>2. issued[cto] + 1 \in Token
      BY <1>2, <1>12, TypeIssue DEF InsertSigner, Token
    <2>3. /\ NoneFromTheFuture'
          /\ cover'[cto][issued[cto] + 1] = issued'[cto]
          /\ issued'[cto] = issued[cto] + 1
          /\ \A x \in Signer \ {cto} : cover'[x] = cover[x]
      BY <1>2, <1>12, <2>1, <2>2, ServedIssue DEF InsertSigner, ServedInv
    <2>4. /\ cover'[cto][token'[cto]] # 0
          /\ cover'[cto][token'[cto]] >= pdf'[cto]
      BY <1>2, <2>1, <2>3
    <2>5. OpenCanBeServed'
      BY <1>1, <1>2, <2>1, <2>3, <2>4 DEF ServedInv, OpenCanBeServed, Present
    <2> QED
      BY <1>1, <2>1, <2>3, <2>5 DEF ServedInv, CoverIsStored
  <1>13. CASE MailSigner
    BY <1>1, <1>13, ServedFrame DEF MailSigner, Answer, dbVars, Present
  <1>14. CASE BeginVoid
    BY <1>3, <1>14 DEF BeginVoid, CreatorPcs
  <1>15. CASE VoidEnvelope \/ RefundCredit
    BY <1>1, <1>15, ServedFrame
    DEF VoidEnvelope, RefundCredit, Goto, Answer, worldVars, Present
  <1>16. CASE PurgeVoided
    <2>1. ~Open'
      BY <1>16 DEF PurgeVoided, ServedInv, PurgesAreClosed, Open
    <2>2. UNCHANGED <<pdf, issued>> /\ PurgeBlobs /\ cpc' = "idle"
      BY <1>16 DEF PurgeVoided, Answer, worldVars
    <2>3. \A x \in Signer, t \in Token : cover'[x][t] \in {0, cover[x][t]}
      BY <2>2 DEF PurgeBlobs
    <2>4. NoneFromTheFuture'
      BY <1>2, <2>2, <2>3 DEF ServedInv, NoneFromTheFuture
    <2> QED
      BY <1>1, <2>1, <2>2, <2>4 DEF ServedInv, CoverIsStored, OpenCanBeServed
  <1> QED
    BY <1>5, <1>6, <1>7, <1>8, <1>9, <1>10, <1>11, <1>12, <1>13, <1>14, <1>15,
       <1>16 DEF CreatorNext

(* While an envelope can still be signed its document is stored and every   *)
(* invited signer has a cover as new as the PDF expected back: for any      *)
(* number of signers, edits, renames and voids, cut short anywhere.         *)
THEOREM OpenIsServed == Spec => []OpenCanBeServed
  <1>1. Init => ServedInv
    BY EnvelopeAssumption
    DEF Init, ServedInv, NoneFromTheFuture, CoverIsStored, PurgesAreClosed,
        OpenCanBeServed, Present, Token
  <1>2. TypeOK /\ ServedInv /\ [Next]_vars => ServedInv'
    BY ServedWorker, ServedOthers, ServedCreator DEF Next
  <1>3. ServedInv => OpenCanBeServed
    BY DEF ServedInv
  <1> QED
    BY <1>1, <1>2, <1>3, TypeCorrect, PTL DEF Spec
=============================================================================
