-------------------------- MODULE Distribution_proofs --------------------------
(***************************************************************************)
(* Proofs about Distribution, for any signers, bounds and number of seal   *)
(* requests and failures: its types, that the wait for a statement is      *)
(* honoured and announced once, and that the delivery mark means everyone  *)
(* was mailed.                                                             *)
(***************************************************************************)
EXTENDS Distribution, TLAPS

LocalOK ==
  /\ pc \in [Distributor -> Pcs]
  /\ due \in [Distributor -> Nat]
  /\ seen \in [Distributor -> [waived : BOOLEAN, since : 0..MaxTime, mailed : SUBSET Signer]]
  /\ waited \in [Distributor -> 0..MaxTime]
  /\ todo \in [Distributor -> SUBSET Party]
  /\ ok \in [Distributor -> BOOLEAN]

FlagOK ==
  /\ autoClose \in BOOLEAN /\ completed \in BOOLEAN /\ distributed \in BOOLEAN
  /\ finalizing \in BOOLEAN /\ waived \in BOOLEAN

SharedOK ==
  /\ now \in 1..MaxTime
  /\ since \in 0..MaxTime
  /\ missing \subseteq Signer /\ msgId \subseteq Signer
  /\ webhook \in {"none", "queued", "delivered", "rejected"}
  /\ mails \in [Party -> 0..Many]
  /\ interim \in 0..Many /\ alerts \in 0..Many
  /\ seals \in 0..MaxSeals /\ failures \in 0..MaxFailures

(* A clock that was read is the row's, and never runs ahead of the time.   *)
SeenOK(d) ==
  /\ seen[d].since # 0 => seen[d].since = since
  /\ seen[d].waived => waived

ClockOK == since <= now /\ \A d \in Distributor : SeenOK(d)

LEMMA TypeParts == TypeOK <=> FlagOK /\ SharedOK /\ LocalOK
  BY Zenon DEF TypeOK, FlagOK, SharedOK, LocalOK

LEMMA SlotType ==
  ASSUME NEW w \in 0..MaxTime
  PROVE  Recheck(Slot(w)) \in Distributor
<1>1. MaxTime \in Nat
  BY DistributionAssumption
<1>2. Slot(w) \in Slots
  BY <1>1 DEF Slot, Slots, Half
<1> QED BY <1>2 DEF Distributor

(* Leave keeps the local types. *)
LEMMA LeaveType ==
  ASSUME LocalOK, NEW d \in Distributor, NEW there \in Pcs, Leave(d, there), UNCHANGED due
  PROVE  LocalOK'
<1>1. Unread \in [waived : BOOLEAN, since : 0..MaxTime, mailed : SUBSET Signer]
  BY DistributionAssumption DEF Unread
<1>2. 0 \in 0..MaxTime
  BY DistributionAssumption
<1> QED BY <1>1, <1>2 DEF LocalOK, Leave, Advance

LEMMA InitType == Init => TypeOK /\ ClockOK
<1> SUFFICES ASSUME Init PROVE TypeOK /\ ClockOK
  OBVIOUS
<1>1. Unread \in [waived : BOOLEAN, since : 0..MaxTime, mailed : SUBSET Signer]
  BY DistributionAssumption DEF Unread
<1>2. LocalOK
  BY <1>1, DistributionAssumption DEF Init, LocalOK, Pcs
<1>3. SharedOK
  BY DistributionAssumption DEF Init, SharedOK, Many
<1>4. ClockOK
  BY DEF Init, ClockOK, SeenOK, Unread
<1>5. FlagOK
  BY Zenon DEF Init, FlagOK
<1> QED BY <1>2, <1>3, <1>4, <1>5, TypeParts

(* Each action keeps the types. *)
LEMMA FlagStep == FlagOK /\ [Next]_vars => FlagOK'
<1> SUFFICES ASSUME FlagOK, [Next]_vars PROVE FlagOK'
  OBVIOUS
<1> USE DEF FlagOK
<1>1. CASE UNCHANGED vars
  BY <1>1, Zenon DEF vars, envelopeVars
<1>2. CASE RequestSeal \/ DeliverWebhook \/ Tick
  BY <1>2, Zenon DEF RequestSeal, DeliverWebhook, Tick, envelopeVars
<1>3. ASSUME NEW d \in Distributor, Step(d) PROVE FlagOK'
  <2>1. CASE ReadEnvelope(d) \/ ReadSigners(d) \/ TryStatements(d) \/ ReadClock(d)
    BY <2>1, Zenon DEF ReadEnvelope, ReadSigners, TryStatements, ReadClock, envelopeVars
  <2>2. CASE Waive(d) \/ ClaimInterimMail(d) \/ ScheduleRecheck(d) \/ Complete(d)
    BY <2>2, Zenon DEF Waive, ClaimInterimMail, ScheduleRecheck, Complete, envelopeVars
  <2>3. CASE Prepare(d) \/ Stamp(d) \/ ScheduleWebhook(d)
    BY <2>3, Zenon DEF Prepare, Stamp, ScheduleWebhook, envelopeVars
  <2>4. CASE \E p \in Party : SendTo(d, p)
    BY <2>4, Zenon DEF SendTo, envelopeVars
  <2> QED BY <1>3, <2>1, <2>2, <2>3, <2>4, Zenon DEF Step
<1>4. ASSUME NEW d \in Distributor, Fail(d) PROVE FlagOK'
  BY <1>4, Zenon DEF Fail, envelopeVars
<1>5. ASSUME NEW d \in Distributor, NEW p \in Party, MailFails(d, p) PROVE FlagOK'
  BY <1>5, Zenon DEF MailFails, envelopeVars
<1> QED BY <1>1, <1>2, <1>3, <1>4, <1>5, Zenon DEF Next

LEMMA BumpType == \A n \in 0..Many : Bump(n) \in 0..Many /\ Bump(n) > 0
  BY DEF Bump, Many

LEMMA SharedStep == SharedOK /\ LocalOK /\ ClockOK /\ [Next]_vars => SharedOK'
<1> SUFFICES ASSUME SharedOK, LocalOK, ClockOK, [Next]_vars PROVE SharedOK'
  OBVIOUS
<1> USE DistributionAssumption, BumpType DEF SharedOK, envelopeVars, rowVars, worldVars
<1>1. CASE UNCHANGED vars
  BY <1>1 DEF vars
<1>2. CASE RequestSeal
  BY <1>2 DEF RequestSeal
<1>3. CASE DeliverWebhook
  BY <1>3 DEF DeliverWebhook
<1>4. CASE Tick
  BY <1>4 DEF Tick
<1>5. ASSUME NEW d \in Distributor, Step(d) PROVE SharedOK'
  <2>1. CASE ReadEnvelope(d)
    BY <2>1 DEF ReadEnvelope
  <2>2. CASE ReadSigners(d)
    BY <2>2 DEF ReadSigners
  <2>3. CASE TryStatements(d)
    BY <2>3 DEF TryStatements
  <2>4. CASE ReadClock(d)
    BY <2>4 DEF ReadClock
  <2>5. CASE Waive(d)
    BY <2>5 DEF Waive
  <2>6. CASE ClaimInterimMail(d)
    BY <2>6 DEF ClaimInterimMail
  <2>7. CASE ScheduleRecheck(d)
    BY <2>7 DEF ScheduleRecheck, Failure
  <2>8. CASE Complete(d)
    BY <2>8 DEF Complete
  <2>9. CASE Prepare(d)
    BY <2>9 DEF Prepare
  <2>10. CASE Stamp(d)
    BY <2>10 DEF Stamp
  <2>11. CASE ScheduleWebhook(d)
    BY <2>11 DEF ScheduleWebhook, Failure
  <2>12. CASE \E p \in Party : SendTo(d, p)
    <3>1. PICK p \in Party : SendTo(d, p)
      BY <2>12
    <3>2. mails' \in [Party -> 0..Many]
      BY <3>1 DEF SendTo
    <3> QED BY <3>1, <3>2 DEF SendTo, Failure
  <2> QED BY <1>5, <2>1, <2>2, <2>3, <2>4, <2>5, <2>6, <2>7, <2>8, <2>9, <2>10, <2>11, <2>12
        DEF Step
<1>6. ASSUME NEW d \in Distributor, Fail(d) PROVE SharedOK'
  BY <1>6 DEF Fail, Failure
<1>7. ASSUME NEW d \in Distributor, NEW p \in Party, MailFails(d, p) PROVE SharedOK'
  BY <1>7 DEF MailFails, Failure
<1> QED BY <1>1, <1>2, <1>3, <1>4, <1>5, <1>6, <1>7 DEF Next

LEMMA LocalStep == FlagOK /\ SharedOK /\ LocalOK /\ ClockOK /\ [Next]_vars => LocalOK'
<1> SUFFICES ASSUME FlagOK, SharedOK, LocalOK, ClockOK, [Next]_vars PROVE LocalOK'
  OBVIOUS
<1> USE DEF localVars
<1>1. CASE UNCHANGED vars
  BY <1>1 DEF vars, LocalOK
<1>2. CASE RequestSeal
  BY <1>2 DEF RequestSeal, LocalOK, Advance, Pcs
<1>3. CASE DeliverWebhook \/ Tick
  BY <1>3 DEF DeliverWebhook, Tick, LocalOK
<1>4. ASSUME NEW d \in Distributor, Step(d) PROVE LocalOK'
  <2>0. /\ "off" \in Pcs /\ "queued" \in Pcs /\ "signers" \in Pcs /\ "gate" \in Pcs
        /\ "clock" \in Pcs /\ "waive" \in Pcs /\ "claim" \in Pcs /\ "schedule" \in Pcs
        /\ "complete" \in Pcs /\ "prepare" \in Pcs /\ "send" \in Pcs /\ "follow" \in Pcs
        /\ "done" \in Pcs
    BY DEF Pcs
  <2>1. CASE ReadEnvelope(d)
    <3>1. CASE distributed
      BY <2>0, <2>1, <3>1, LeaveType DEF ReadEnvelope, Finish
    <3>2. CASE ~distributed
      <4>1. [waived |-> waived, since |-> since, mailed |-> {}]
              \in [waived : BOOLEAN, since : 0..MaxTime, mailed : SUBSET Signer]
        BY DEF FlagOK, SharedOK
      <4> QED BY <2>0, <2>1, <3>2, <4>1 DEF ReadEnvelope, LocalOK, Advance
    <3> QED BY <3>1, <3>2
  <2>2. CASE ReadSigners(d)
    <3>1. seen' = [seen EXCEPT ![d].mailed = msgId] /\ msgId \subseteq Signer
      BY <2>2 DEF ReadSigners, SharedOK
    <3>2. seen' \in [Distributor ->
                       [waived : BOOLEAN, since : 0..MaxTime, mailed : SUBSET Signer]]
      BY <3>1 DEF LocalOK
    <3> QED BY <2>0, <2>2, <3>2 DEF ReadSigners, LocalOK, Advance
  <2>3. CASE TryStatements(d)
    BY <2>0, <2>3 DEF TryStatements, LocalOK, Advance
  <2>4. CASE ReadClock(d)
    <3>1. waited' \in [Distributor -> 0..MaxTime]
      BY <2>4, DistributionAssumption DEF ReadClock, LocalOK, SharedOK, ClockOK, SeenOK
    <3> QED BY <2>0, <2>4, <3>1 DEF ReadClock, LocalOK, Advance
  <2>5. CASE Waive(d) \/ ClaimInterimMail(d) \/ Complete(d)
    BY <2>0, <2>5 DEF Waive, ClaimInterimMail, Complete, LocalOK, Advance
  <2>7. CASE ScheduleRecheck(d)
    <3>1. Recheck(Slot(waited[d])) \in Distributor
      BY SlotType DEF LocalOK
    <3>2. now + Delay(waited[d]) \in Nat
      BY DistributionAssumption DEF SharedOK, Delay, Half, LocalOK
    <3>3. Unread \in [waived : BOOLEAN, since : 0..MaxTime, mailed : SUBSET Signer]
      BY DistributionAssumption DEF Unread
    <3>4. 0 \in 0..MaxTime
      BY DistributionAssumption
    <3>5. pc' \in [Distributor -> Pcs] /\ due' \in [Distributor -> Nat]
      BY <2>0, <2>7, <3>1, <3>2 DEF ScheduleRecheck, LocalOK
    <3>6. seen' \in [Distributor ->
                       [waived : BOOLEAN, since : 0..MaxTime, mailed : SUBSET Signer]]
      BY <2>7, <3>3 DEF ScheduleRecheck, LocalOK
    <3> QED BY <2>7, <3>4, <3>5, <3>6 DEF ScheduleRecheck, LocalOK
  <2>9. CASE Prepare(d)
    BY <2>0, <2>9 DEF Prepare, LocalOK, Advance
  <2>10. CASE Stamp(d)
    <3>1. CASE ok[d]
      BY <2>0, <2>10, <3>1 DEF Stamp, LocalOK, Advance
    <3>2. CASE ~ok[d]
      BY <2>0, <2>10, <3>2, LeaveType DEF Stamp, Again
    <3> QED BY <3>1, <3>2
  <2>11. CASE ScheduleWebhook(d)
    BY <2>0, <2>11, LeaveType DEF ScheduleWebhook, Finish
  <2>12. CASE \E p \in Party : SendTo(d, p)
    <3>1. PICK p \in Party : SendTo(d, p)
      BY <2>12
    <3>2. ok' \in [Distributor -> BOOLEAN]
      BY <3>1 DEF SendTo, LocalOK
    <3> QED BY <3>1, <3>2 DEF SendTo, Turn, LocalOK
  <2> QED BY <1>4, <2>1, <2>2, <2>3, <2>4, <2>5, <2>7, <2>9, <2>10, <2>11, <2>12
        DEF Step
<1>5. ASSUME NEW d \in Distributor, Fail(d) PROVE LocalOK'
  <2>1. "off" \in Pcs /\ "queued" \in Pcs
    BY DEF Pcs
  <2> QED BY <1>5, <2>1, LeaveType DEF Fail, Again
<1>6. ASSUME NEW d \in Distributor, NEW p \in Party, MailFails(d, p) PROVE LocalOK'
  <2>1. ok' \in [Distributor -> BOOLEAN]
    BY <1>6 DEF MailFails, LocalOK
  <2> QED BY <1>6, <2>1 DEF MailFails, Turn, LocalOK
<1> QED BY <1>1, <1>2, <1>3, <1>4, <1>5, <1>6 DEF Next

(* What no step takes back: a statement that is there, the waiver, the     *)
(* start of the wait, the time, a mail.                                    *)
Lasts ==
  /\ missing' \subseteq missing
  /\ waived => waived'
  /\ since # 0 => since' = since
  /\ now <= now'
  /\ \A p \in Party : mails[p] > 0 => mails'[p] > 0

LEMMA KeepsLasts ==
  ASSUME SharedOK, UNCHANGED <<missing, waived, since, now, mails>>
  PROVE  Lasts
  BY DEF Lasts, SharedOK

LEMMA StepLasts == SharedOK /\ LocalOK /\ ClockOK /\ [Next]_vars => Lasts
<1> SUFFICES ASSUME SharedOK, LocalOK, ClockOK, [Next]_vars PROVE Lasts
  OBVIOUS
<1> USE DEF envelopeVars, rowVars, worldVars
<1>1. CASE UNCHANGED vars
  BY <1>1, KeepsLasts DEF vars
<1>2. CASE RequestSeal \/ DeliverWebhook
  BY <1>2, KeepsLasts DEF RequestSeal, DeliverWebhook
<1>3. CASE Tick
  BY <1>3, DistributionAssumption DEF Tick, Lasts, SharedOK
<1>4. ASSUME NEW d \in Distributor, Step(d) PROVE Lasts
  <2>1. CASE ReadEnvelope(d)
    BY <2>1, KeepsLasts DEF ReadEnvelope
  <2>2. CASE ReadSigners(d)
    BY <2>2, KeepsLasts DEF ReadSigners
  <2>3. CASE TryStatements(d)
    BY <2>3 DEF TryStatements, Lasts, SharedOK
  <2>4. CASE ReadClock(d)
    BY <2>4 DEF ReadClock, Lasts, SharedOK
  <2>5. CASE Waive(d)
    BY <2>5 DEF Waive, Lasts, SharedOK
  <2>6. CASE ClaimInterimMail(d)
    BY <2>6, KeepsLasts DEF ClaimInterimMail
  <2>7. CASE ScheduleRecheck(d)
    BY <2>7, KeepsLasts DEF ScheduleRecheck
  <2>8. CASE Complete(d) \/ Prepare(d)
    BY <2>8, KeepsLasts DEF Complete, Prepare
  <2>9. CASE Stamp(d)
    BY <2>9, KeepsLasts DEF Stamp
  <2>10. CASE ScheduleWebhook(d)
    BY <2>10, KeepsLasts DEF ScheduleWebhook
  <2>11. CASE \E p \in Party : SendTo(d, p)
    <3>1. PICK p \in Party : SendTo(d, p)
      BY <2>11
    <3>2. \A q \in Party : mails[q] > 0 => mails'[q] > 0
      BY <3>1, BumpType DEF SendTo, SharedOK
    <3> QED BY <3>1, <3>2 DEF SendTo, Lasts, SharedOK
  <2> QED BY <1>4, <2>1, <2>2, <2>3, <2>4, <2>5, <2>6, <2>7, <2>8, <2>9, <2>10, <2>11
        DEF Step
<1>5. ASSUME NEW d \in Distributor, Fail(d) PROVE Lasts
  BY <1>5, KeepsLasts DEF Fail
<1>6. ASSUME NEW d \in Distributor, NEW p \in Party, MailFails(d, p) PROVE Lasts
  BY <1>6, KeepsLasts DEF MailFails
<1> QED BY <1>1, <1>2, <1>3, <1>4, <1>5, <1>6 DEF Next

(* What a distributor has read stays true of the row. *)
LEMMA SeenStep ==
  ASSUME ClockOK, SharedOK, LocalOK, Lasts, NEW d \in Distributor,
         \/ seen'[d] = seen[d]
         \/ seen'[d] = Unread
         \/ seen'[d] = [seen[d] EXCEPT !.mailed = msgId]
         \/ seen'[d] = [waived |-> waived, since |-> since, mailed |-> {}] /\ since' = since
  PROVE  SeenOK(d)'
<1>1. CASE seen'[d] = seen[d]
  BY <1>1 DEF ClockOK, SeenOK, Lasts, SharedOK, LocalOK
<1>2. CASE seen'[d] = Unread
  BY <1>2 DEF SeenOK, Unread
<1>3. CASE seen'[d] = [seen[d] EXCEPT !.mailed = msgId]
  <2>1. seen'[d].since = seen[d].since /\ seen'[d].waived = seen[d].waived
    BY <1>3 DEF LocalOK
  <2> QED BY <2>1 DEF ClockOK, SeenOK, Lasts, SharedOK, LocalOK
<1>4. CASE seen'[d] = [waived |-> waived, since |-> since, mailed |-> {}] /\ since' = since
  <2>1. seen'[d].since = since /\ seen'[d].waived = waived
    BY <1>4
  <2> QED BY <1>4, <2>1 DEF SeenOK, Lasts
<1> QED BY <1>1, <1>2, <1>3, <1>4

-----------------------------------------------------------------------------
(* The inductive invariant.  A distributor past the gate holds one of the  *)
(* two reasons to pass, and both last; what it takes for mailed was mailed. *)
Passed == {"complete", "prepare", "send", "follow"}
Over   == since # 0 /\ now - since >= WaitBound
MailedAll(S) == \A p \in S : mails[p] > 0

WaitOver(d) ==
  /\ pc[d] = "waive" => Over
  /\ pc[d] \in Passed => missing = {} \/ waived

WaitInv ==
  /\ WaitIsHonoured
  /\ \A d \in Distributor : WaitOver(d)

MailsInv ==
  /\ interim <= 1 /\ (interim # 0 => finalizing)
  /\ alerts <= 1 /\ (alerts # 0 => waived)

MailedOK(d) ==
  /\ MailedAll(seen[d].mailed)
  /\ pc[d] = "send" /\ ok[d] => MailedAll(Party \ todo[d])
  /\ pc[d] = "follow" => MailedAll(Party)

StampInv ==
  /\ StampMeansMailed
  /\ MailedAll(msgId)
  /\ \A d \in Distributor : MailedOK(d)

Inv == TypeOK /\ ClockOK /\ WaitInv /\ MailsInv /\ StampInv

(* What touches only one distributor d. *)
OnlyMoves(d) ==
  \A e \in Distributor \ {d} :
    /\ pc'[e] = pc[e] \/ pc'[e] = "queued"
    /\ seen'[e] = seen[e] /\ todo'[e] = todo[e] /\ ok'[e] = ok[e]

LEMMA AdvanceMoves ==
  ASSUME LocalOK, NEW d \in Distributor, NEW there, Advance(d, there),
         \A e \in Distributor \ {d} : seen'[e] = seen[e] /\ todo'[e] = todo[e] /\ ok'[e] = ok[e]
  PROVE  OnlyMoves(d) /\ pc'[d] = there
  BY DEF OnlyMoves, Advance, LocalOK

LEMMA LeaveMoves ==
  ASSUME LocalOK, NEW d \in Distributor, NEW there, Leave(d, there)
  PROVE  OnlyMoves(d) /\ pc'[d] = there /\ seen'[d] = Unread
  BY DEF OnlyMoves, Leave, Advance, LocalOK

LEMMA StepMoves ==
  ASSUME LocalOK, NEW d \in Distributor,
         Step(d) \/ Fail(d) \/ \E p \in Party : MailFails(d, p)
  PROVE  OnlyMoves(d)
<1> USE DEF localVars
<1>1. CASE ReadEnvelope(d)
  <2>1. CASE distributed
    BY <1>1, <2>1, LeaveMoves DEF ReadEnvelope, Finish
  <2>2. CASE ~distributed
    BY <1>1, <2>2 DEF ReadEnvelope, OnlyMoves, Advance, LocalOK
  <2> QED BY <2>1, <2>2
<1>2. CASE ReadSigners(d)
  <2>1. seen' = [seen EXCEPT ![d].mailed = msgId]
    BY <1>2 DEF ReadSigners
  <2>2. \A e \in Distributor \ {d} : seen'[e] = seen[e]
    BY <2>1 DEF LocalOK
  <2> QED BY <1>2, <2>2 DEF ReadSigners, OnlyMoves, Advance, LocalOK
<1>3. CASE TryStatements(d)
  BY <1>3 DEF TryStatements, OnlyMoves, Advance, LocalOK
<1>4. CASE ReadClock(d)
  BY <1>4 DEF ReadClock, OnlyMoves, Advance, LocalOK
<1>5. CASE Waive(d) \/ ClaimInterimMail(d) \/ Complete(d)
  BY <1>5 DEF Waive, ClaimInterimMail, Complete, OnlyMoves, Advance, LocalOK
<1>6. CASE ScheduleRecheck(d)
  <2>1. \A e \in Distributor \ {d} : pc'[e] = pc[e] \/ pc'[e] = "queued"
    BY <1>6 DEF ScheduleRecheck, LocalOK
  <2>2. \A e \in Distributor \ {d} : seen'[e] = seen[e]
    BY <1>6 DEF ScheduleRecheck, LocalOK
  <2>3. UNCHANGED <<todo, ok>>
    BY <1>6 DEF ScheduleRecheck
  <2> QED BY <2>1, <2>2, <2>3 DEF OnlyMoves
<1>7. CASE Prepare(d)
  BY <1>7 DEF Prepare, OnlyMoves, Advance, LocalOK
<1>8. CASE Stamp(d)
  <2>1. CASE ok[d]
    BY <1>8, <2>1 DEF Stamp, OnlyMoves, Advance, LocalOK
  <2>2. CASE ~ok[d]
    BY <1>8, <2>2, LeaveMoves DEF Stamp, Again
  <2> QED BY <2>1, <2>2
<1>9. CASE ScheduleWebhook(d)
  BY <1>9, LeaveMoves DEF ScheduleWebhook, Finish
<1>10. CASE \E p \in Party : SendTo(d, p)
  <2>1. PICK p \in Party : SendTo(d, p)
    BY <1>10
  <2>2. \A e \in Distributor \ {d} : ok'[e] = ok[e]
    BY <2>1 DEF SendTo, LocalOK
  <2> QED BY <2>1, <2>2 DEF SendTo, Turn, OnlyMoves, LocalOK
<1>11. CASE Fail(d)
  BY <1>11, LeaveMoves DEF Fail, Again
<1>12. CASE \E p \in Party : MailFails(d, p)
  <2>1. PICK p \in Party : MailFails(d, p)
    BY <1>12
  <2>2. \A e \in Distributor \ {d} : ok'[e] = ok[e]
    BY <2>1 DEF MailFails, LocalOK
  <2> QED BY <2>1, <2>2 DEF MailFails, Turn, OnlyMoves, LocalOK
<1> QED BY <1>1, <1>2, <1>3, <1>4, <1>5, <1>6, <1>7, <1>8, <1>9, <1>10, <1>11, <1>12 DEF Step

(* The clocks that were read, along every step. *)
LEMMA ClockStep == FlagOK /\ SharedOK /\ LocalOK /\ ClockOK /\ [Next]_vars => ClockOK'
<1> SUFFICES ASSUME FlagOK, SharedOK, LocalOK, ClockOK, [Next]_vars PROVE ClockOK'
  OBVIOUS
<1>0. Lasts
  BY StepLasts
<1>1. CASE UNCHANGED vars
  BY <1>1 DEF vars, envelopeVars, localVars, ClockOK, SeenOK
<1>2. CASE RequestSeal \/ DeliverWebhook \/ Tick
  <2>1. UNCHANGED seen /\ since' <= now'
    BY <1>2 DEF RequestSeal, DeliverWebhook, Tick, envelopeVars, localVars, ClockOK, SharedOK
  <2>2. \A d \in Distributor : SeenOK(d)'
    BY <1>0, <2>1, SeenStep
  <2> QED BY <2>1, <2>2 DEF ClockOK
<1>3. ASSUME NEW d \in Distributor, Step(d) \/ Fail(d) \/ \E p \in Party : MailFails(d, p)
      PROVE  ClockOK'
  <2>1. OnlyMoves(d)
    BY <1>3, StepMoves
  <2>2. \A e \in Distributor \ {d} : SeenOK(e)'
    BY <1>0, <2>1, SeenStep DEF OnlyMoves
  <2>3. since' <= now'
    <3>1. CASE ReadClock(d)
      BY <3>1 DEF ReadClock, ClockOK, SharedOK
    <3>2. CASE ~ReadClock(d)
      BY <1>3, <3>2 DEF Step, ReadEnvelope, ReadSigners, TryStatements, Waive, ClaimInterimMail,
            ScheduleRecheck, Complete, Prepare, Stamp, ScheduleWebhook, SendTo, Fail, MailFails,
            envelopeVars, ClockOK
    <3> QED BY <3>1, <3>2
  <2>4. \/ seen'[d] = seen[d] \/ seen'[d] = Unread
        \/ seen'[d] = [seen[d] EXCEPT !.mailed = msgId]
        \/ seen'[d] = [waived |-> waived, since |-> since, mailed |-> {}] /\ since' = since
    <3>1. CASE ReadEnvelope(d)
      <4>1. CASE distributed
        BY <3>1, <4>1, LeaveMoves DEF ReadEnvelope, Finish
      <4>2. CASE ~distributed
        BY <3>1, <4>2 DEF ReadEnvelope, LocalOK, envelopeVars
      <4> QED BY <4>1, <4>2
    <3>2. CASE ReadSigners(d)
      <4>1. seen' = [seen EXCEPT ![d].mailed = msgId]
        BY <3>2 DEF ReadSigners
      <4> QED BY <4>1, Zenon DEF LocalOK
    <3>3. CASE Stamp(d)
      BY <3>3, LeaveMoves DEF Stamp, Again
    <3>4. CASE ScheduleWebhook(d) \/ Fail(d)
      BY <3>4, LeaveMoves DEF ScheduleWebhook, Fail, Finish, Again
    <3>5. CASE ScheduleRecheck(d)
      BY <3>5 DEF ScheduleRecheck, LocalOK
    <3>6. CASE UNCHANGED seen
      BY <3>6
    <3> QED BY <1>3, <3>1, <3>2, <3>3, <3>4, <3>5, <3>6, Zenon
          DEF Step, TryStatements, ReadClock, Waive, ClaimInterimMail, Complete, Prepare,
              SendTo, MailFails, localVars
  <2>5. SeenOK(d)'
    BY <1>0, <2>4, SeenStep
  <2> QED BY <2>2, <2>3, <2>5 DEF ClockOK
<1> QED BY <1>1, <1>2, <1>3 DEF Next

Types == FlagOK /\ SharedOK /\ LocalOK /\ ClockOK

(* The wait.  What let a distributor pass the gate lasts.                  *)
LEMMA Longer ==
  ASSUME NEW m \in Int, NEW n \in Int, NEW s \in Int, NEW w \in Int, m <= n, m - s >= w
  PROVE  n - s >= w
  BY SMT

LEMMA OverLasts == SharedOK /\ Lasts /\ Over /\ SharedOK' => Over'
<1> SUFFICES ASSUME SharedOK, Lasts, Over, SharedOK' PROVE Over'
  OBVIOUS
<1>1. now \in Int /\ now' \in Int /\ since \in Int /\ WaitBound \in Int
  BY DistributionAssumption DEF SharedOK
<1>2. since' = since /\ since # 0 /\ now <= now' /\ now - since >= WaitBound
  BY DEF Lasts, Over
<1>3. now' - since >= WaitBound
  BY <1>1, <1>2, Longer
<1> QED BY <1>2, <1>3, Zenon DEF Over

LEMMA WaitStill ==
  ASSUME Types, Types', Lasts, NEW d \in Distributor, WaitOver(d),
         pc'[d] = pc[d] \/ pc'[d] \notin Passed \cup {"waive"}
  PROVE  WaitOver(d)'
<1>1. ASSUME pc'[d] = "waive" PROVE Over'
  BY <1>1, OverLasts DEF WaitOver, Types
<1>2. ASSUME pc'[d] \in Passed PROVE missing' = {} \/ waived'
  BY <1>2 DEF WaitOver, Lasts
<1> QED BY <1>1, <1>2 DEF WaitOver

LEMMA WaitStep ==
  ASSUME Types, Types', WaitInv, [Next]_vars
  PROVE  WaitInv'
<1>0. Lasts
  BY StepLasts DEF Types
<1>1. CASE UNCHANGED vars \/ RequestSeal \/ DeliverWebhook \/ Tick
  <2>1. \A d \in Distributor : pc'[d] = pc[d] \/ pc'[d] = "queued"
    BY <1>1 DEF vars, RequestSeal, DeliverWebhook, Tick, Advance, Types, LocalOK
  <2>2. \A d \in Distributor : WaitOver(d)'
    BY <1>0, <2>1, WaitStill DEF WaitInv, Passed
  <2>3. waived' = waived /\ mails' = mails
    BY <1>1 DEF vars, RequestSeal, DeliverWebhook, Tick, envelopeVars, worldVars
  <2>4. waived' => Over'
    BY <1>0, <2>3, OverLasts DEF WaitInv, WaitIsHonoured, Over, Types
  <2>5. (\E p \in Party : mails'[p] > 0) => missing' = {} \/ waived'
    BY <1>0, <2>3 DEF WaitInv, WaitIsHonoured, Lasts
  <2> QED BY <2>2, <2>4, <2>5 DEF WaitInv, WaitIsHonoured, Over
<1>2. ASSUME NEW d \in Distributor, Step(d) \/ Fail(d) \/ \E p \in Party : MailFails(d, p)
      PROVE  WaitInv'
  <2>1. OnlyMoves(d)
    BY <1>2, StepMoves DEF Types
  <2>2. \A e \in Distributor \ {d} : WaitOver(e)'
    BY <1>0, <2>1, WaitStill DEF OnlyMoves, WaitInv, Passed
  <2>3. waived' => Over'
    <3>1. CASE Waive(d)
      <4>1. Over
        BY <3>1 DEF Waive, WaitInv, WaitOver
      <4> QED BY <1>0, <4>1, OverLasts DEF Types
    <3>2. CASE ~Waive(d)
      <4>1. waived' = waived
        BY <1>2, <3>2 DEF Step, ReadEnvelope, ReadSigners, TryStatements, ReadClock,
              ClaimInterimMail, ScheduleRecheck, Complete, Prepare, Stamp, ScheduleWebhook,
              SendTo, Fail, MailFails, envelopeVars
      <4> QED BY <1>0, <4>1, OverLasts DEF WaitInv, WaitIsHonoured, Over, Types
    <3> QED BY <3>1, <3>2
  <2>4. (\E p \in Party : mails'[p] > 0) => missing' = {} \/ waived'
    <3>1. CASE \E p \in Party : SendTo(d, p)
      <4>1. pc[d] = "send"
        BY <3>1 DEF SendTo, Turn
      <4> QED BY <1>0, <4>1 DEF WaitInv, WaitOver, Passed, Lasts
    <3>2. CASE ~\E p \in Party : SendTo(d, p)
      <4>1. mails' = mails
        BY <1>2, <3>2 DEF Step, ReadEnvelope, ReadSigners, TryStatements, ReadClock, Waive,
              ClaimInterimMail, ScheduleRecheck, Complete, Prepare, Stamp, ScheduleWebhook,
              Fail, MailFails, worldVars
      <4> QED BY <1>0, <4>1 DEF WaitInv, WaitIsHonoured, Lasts
    <3> QED BY <3>1, <3>2
  <2>5. WaitOver(d)'
    <3>1. CASE TryStatements(d)
      <4>1. CASE seen[d].waived
        <5>1. waived'
          BY <1>0, <4>1 DEF Types, ClockOK, SeenOK, Lasts
        <5>2. pc'[d] = "complete"
          BY <3>1, <4>1 DEF TryStatements, Advance, Types, LocalOK
        <5> QED BY <5>1, <5>2 DEF WaitOver
      <4>2. CASE ~seen[d].waived
        <5>1. pc'[d] = (IF missing' = {} THEN "complete" ELSE "clock")
          BY <3>1, <4>2 DEF TryStatements, Advance, Types, LocalOK
        <5> QED BY <5>1 DEF WaitOver, Passed
      <4> QED BY <4>1, <4>2
    <3>2. CASE ReadClock(d)
      <4> DEFINE start == IF seen[d].since # 0 THEN seen[d].since ELSE since'
      <4>1. pc'[d] = IF now - start >= WaitBound THEN "waive" ELSE "claim"
        BY <3>2 DEF ReadClock, Advance, Types, LocalOK
      <4>2. start = since' /\ since' # 0 /\ now' = now
        BY <3>2, DistributionAssumption DEF ReadClock, Types, ClockOK, SeenOK, SharedOK
      <4> QED BY <4>1, <4>2 DEF WaitOver, Over, Passed
    <3>3. CASE Waive(d)
      <4>1. waived' /\ pc'[d] = "complete"
        BY <3>3 DEF Waive, Advance, Types, LocalOK
      <4> QED BY <4>1 DEF WaitOver
    <3>4. CASE Complete(d) \/ Prepare(d)
      <4>1. missing = {} \/ waived
        BY <3>4 DEF Complete, Prepare, WaitInv, WaitOver, Passed
      <4>2. pc'[d] # "waive"
        BY <3>4 DEF Complete, Prepare, Advance, Types, LocalOK
      <4> QED BY <1>0, <4>1, <4>2 DEF WaitOver, Lasts
    <3>5. CASE Stamp(d)
      <4>1. missing = {} \/ waived
        BY <3>5 DEF Stamp, WaitInv, WaitOver, Passed
      <4>2. pc'[d] # "waive"
        BY <3>5 DEF Stamp, Again, Leave, Advance, Types, LocalOK
      <4> QED BY <1>0, <4>1, <4>2 DEF WaitOver, Lasts
    <3>6. CASE (\E p \in Party : SendTo(d, p)) \/ (\E p \in Party : MailFails(d, p))
      <4>1. pc' = pc
        BY <3>6 DEF SendTo, MailFails
      <4> QED BY <1>0, <4>1, WaitStill DEF WaitInv
    <3>7. CASE ReadEnvelope(d) \/ ReadSigners(d) \/ ClaimInterimMail(d) \/ ScheduleRecheck(d)
               \/ ScheduleWebhook(d) \/ Fail(d)
      <4>1. pc'[d] \in {"off", "done", "queued", "signers", "gate", "schedule"}
        BY <3>7 DEF ReadEnvelope, ReadSigners, ClaimInterimMail, ScheduleRecheck,
              ScheduleWebhook, Fail, Finish, Again, Leave, Advance, Types, LocalOK
      <4> QED BY <1>0, <4>1, WaitStill DEF WaitInv, Passed
    <3> QED BY <1>2, <3>1, <3>2, <3>3, <3>4, <3>5, <3>6, <3>7 DEF Step
  <2> QED BY <2>2, <2>3, <2>4, <2>5 DEF WaitInv, WaitIsHonoured, Over
<1> QED BY <1>1, <1>2 DEF Next

(* The two mails of the wait: each is sent by the step that stamps it.     *)
LEMMA MailsStep ==
  ASSUME Types, MailsInv, [Next]_vars
  PROVE  MailsInv'
<1> USE DEF envelopeVars, worldVars
<1>1. CASE UNCHANGED <<interim, alerts, finalizing, waived>>
  BY <1>1 DEF MailsInv
<1>2. ASSUME NEW d \in Distributor, Waive(d) PROVE MailsInv'
  BY <1>2 DEF Waive, MailsInv, Bump, Many
<1>3. ASSUME NEW d \in Distributor, ClaimInterimMail(d) PROVE MailsInv'
  BY <1>3 DEF ClaimInterimMail, MailsInv, Bump, Many
<1>4. CASE RequestSeal \/ DeliverWebhook \/ Tick \/ UNCHANGED vars
  BY <1>1, <1>4 DEF RequestSeal, DeliverWebhook, Tick, vars
<1>5. ASSUME NEW d \in Distributor, Step(d) \/ Fail(d) \/ \E p \in Party : MailFails(d, p),
             ~Waive(d), ~ClaimInterimMail(d)
      PROVE  MailsInv'
  BY <1>1, <1>5 DEF Step, ReadEnvelope, ReadSigners, TryStatements, ReadClock, ScheduleRecheck,
        Complete, Prepare, Stamp, ScheduleWebhook, SendTo, Fail, MailFails
<1> QED BY <1>2, <1>3, <1>4, <1>5 DEF Next, Step

(* The mails.  Whoever a distributor takes for mailed, was.                *)
LEMMA MailedLasts == ASSUME Lasts, NEW S \in SUBSET Party, MailedAll(S) PROVE MailedAll(S)'
  BY DEF Lasts, MailedAll

LEMMA MailedStill ==
  ASSUME Types, Lasts, NEW d \in Distributor, MailedOK(d),
         (pc'[d] = pc[d] /\ todo'[d] = todo[d] /\ ok'[d] = ok[d]) \/ pc'[d] \notin {"send", "follow"},
         seen'[d] = seen[d] \/ seen'[d] = Unread
  PROVE  MailedOK(d)'
<1>1. MailedAll(seen[d].mailed)'
  BY DEF MailedOK, MailedAll, Lasts, Types, LocalOK, Party, Unread
<1>2. ASSUME pc'[d] = "send", ok'[d] PROVE MailedAll(Party \ todo[d])'
  BY <1>2, Zenon DEF MailedOK, MailedAll, Lasts
<1>3. ASSUME pc'[d] = "follow" PROVE MailedAll(Party)'
  BY <1>3 DEF MailedOK, MailedAll, Lasts
<1> QED BY <1>1, <1>2, <1>3 DEF MailedOK

LEMMA StampStep ==
  ASSUME Types, Types', StampInv, [Next]_vars
  PROVE  StampInv'
<1>0. Lasts
  BY StepLasts DEF Types
<1>a. msgId \in SUBSET Party /\ Party \in SUBSET Party
  BY DEF Types, SharedOK, Party
<1>b. \A d \in Distributor : MailedOK(d)
  BY DEF StampInv
<1>c. MailedAll(msgId)'
  <2>1. CASE \E d \in Distributor : \E p \in Party : SendTo(d, p)
    <3>1. PICK d \in Distributor, p \in Party : SendTo(d, p)
      BY <2>1
    <3>2. mails'[p] > 0 /\ msgId' \subseteq msgId \cup {p}
      BY <3>1, BumpType DEF SendTo, Types, SharedOK
    <3> QED BY <1>0, <1>a, <3>2 DEF StampInv, MailedAll, Lasts
  <2>2. CASE msgId' = msgId
    BY <1>0, <1>a, <2>2, MailedLasts DEF StampInv, MailedAll
  <2> QED BY <2>1, <2>2 DEF Next, vars, RequestSeal, DeliverWebhook, Tick, Step, ReadEnvelope,
        ReadSigners, TryStatements, ReadClock, Waive, ClaimInterimMail, ScheduleRecheck,
        Complete, Prepare, Stamp, ScheduleWebhook, Fail, MailFails, rowVars
<1>1. CASE UNCHANGED vars \/ RequestSeal \/ DeliverWebhook \/ Tick
  <2>1. \A d \in Distributor :
          /\ seen'[d] = seen[d]
          /\ (pc'[d] = pc[d] /\ todo'[d] = todo[d] /\ ok'[d] = ok[d]) \/ pc'[d] = "queued"
    BY <1>1 DEF vars, localVars, RequestSeal, DeliverWebhook, Tick, Advance, Types, LocalOK
  <2>2. \A d \in Distributor : MailedOK(d)'
    BY <1>0, <1>b, <2>1, MailedStill
  <2>3. distributed' = distributed /\ (webhook' = webhook \/ webhook = "queued")
    BY <1>1 DEF vars, RequestSeal, DeliverWebhook, Tick, envelopeVars, rowVars
  <2>4. StampMeansMailed'
    BY <1>0, <2>3 DEF StampInv, StampMeansMailed, Lasts
  <2> QED BY <1>c, <2>2, <2>4 DEF StampInv
<1>2. ASSUME NEW d \in Distributor, Step(d) \/ Fail(d) \/ \E p \in Party : MailFails(d, p)
      PROVE  StampInv'
  <2>1. OnlyMoves(d)
    BY <1>2, StepMoves DEF Types
  <2>2. \A e \in Distributor \ {d} : MailedOK(e)'
    <3> TAKE e \in Distributor \ {d}
    <3>1. (pc'[e] = pc[e] /\ todo'[e] = todo[e] /\ ok'[e] = ok[e]) \/ pc'[e] = "queued"
      BY <2>1 DEF OnlyMoves
    <3>2. seen'[e] = seen[e]
      BY <2>1 DEF OnlyMoves
    <3> QED BY <1>0, <1>b, <3>1, <3>2, MailedStill
  <2>3. StampMeansMailed'
    <3>1. CASE Stamp(d) /\ ok[d]
      <4>1. MailedAll(Party)
        BY <1>b, <3>1 DEF Stamp, MailedOK, MailedAll
      <4> QED BY <1>0, <4>1 DEF StampMeansMailed, MailedAll, Lasts
    <3>2. CASE ScheduleWebhook(d)
      <4>1. MailedAll(Party)
        BY <1>b, <3>2 DEF ScheduleWebhook, MailedOK, MailedAll
      <4> QED BY <1>0, <4>1 DEF StampMeansMailed, MailedAll, Lasts
    <3>3. CASE distributed' = distributed /\ webhook' = webhook
      BY <1>0, <3>3 DEF StampInv, StampMeansMailed, Lasts
    <3> QED BY <1>2, <3>1, <3>2, <3>3, Zenon DEF Step, ReadEnvelope, ReadSigners, TryStatements,
          ReadClock, Waive, ClaimInterimMail, ScheduleRecheck, Complete, Prepare, Stamp,
          SendTo, Fail, MailFails, envelopeVars, rowVars
  <2>4. MailedOK(d)'
    <3>1. CASE ReadEnvelope(d)
      <4>1. CASE distributed
        <5>1. pc'[d] \in {"off", "done"} /\ seen'[d] = Unread
          BY <3>1, <4>1, LeaveMoves DEF ReadEnvelope, Finish, Types
        <5> QED BY <1>0, <1>b, <5>1, MailedStill
      <4>2. CASE ~distributed
        <5>1. pc'[d] = "signers" /\ seen'[d].mailed = {}
          BY <3>1, <4>2 DEF ReadEnvelope, Advance, Types, LocalOK
        <5> QED BY <5>1 DEF MailedOK, MailedAll
      <4> QED BY <4>1, <4>2
    <3>2. CASE ReadSigners(d)
      <4>1. seen' = [seen EXCEPT ![d].mailed = msgId]
        BY <3>2 DEF ReadSigners
      <4>2. seen'[d].mailed = msgId
        BY <4>1 DEF Types, LocalOK
      <4>3. pc'[d] = "gate" /\ msgId' = msgId
        BY <3>2 DEF ReadSigners, Advance, Types, LocalOK, rowVars
      <4> QED BY <1>c, <4>2, <4>3 DEF MailedOK, MailedAll
    <3>3. CASE TryStatements(d) \/ ReadClock(d) \/ Waive(d) \/ ClaimInterimMail(d) \/ Complete(d)
      <4>1. pc'[d] \notin {"send", "follow"} /\ seen' = seen
        BY <3>3 DEF TryStatements, ReadClock, Waive, ClaimInterimMail, Complete, Advance, Types,
              LocalOK, localVars
      <4> QED BY <1>0, <1>b, <4>1, MailedStill
    <3>4. CASE ScheduleRecheck(d)
      <4>1. pc'[d] \notin {"send", "follow"} /\ seen'[d] = Unread
        BY <3>4 DEF ScheduleRecheck, Types, LocalOK
      <4> QED BY <1>0, <1>b, <4>1, MailedStill
    <3>5. CASE Prepare(d)
      <4>1. /\ pc'[d] = "send" /\ seen' = seen
            /\ todo'[d] = Party \ seen[d].mailed
        BY <3>5 DEF Prepare, Advance, Types, LocalOK
      <4>2. \A p \in seen[d].mailed : mails[p] > 0 /\ p \in Party
        BY <1>b DEF MailedOK, MailedAll, Types, LocalOK, Party
      <4> QED BY <1>0, <4>1, <4>2 DEF MailedOK, MailedAll, Lasts
    <3>6. CASE Stamp(d)
      <4>1. CASE ok[d]
        <5>1. pc'[d] = "follow" /\ seen' = seen
          BY <3>6, <4>1 DEF Stamp, Advance, Types, LocalOK
        <5>2. MailedAll(Party) /\ MailedAll(seen[d].mailed)
          BY <1>b, <3>6, <4>1 DEF Stamp, MailedOK, MailedAll
        <5>3. MailedAll(Party)'
          BY <1>0, <5>2 DEF MailedAll, Lasts
        <5>4. seen[d].mailed \in SUBSET Party
          BY DEF Types, LocalOK, Party
        <5> QED BY <5>1, <5>3, <5>4 DEF MailedOK, MailedAll
      <4>2. CASE ~ok[d]
        <5>1. pc'[d] \in {"off", "queued"} /\ seen'[d] = Unread
          BY <3>6, <4>2, LeaveMoves DEF Stamp, Again, Types
        <5> QED BY <1>0, <1>b, <5>1, MailedStill
      <4> QED BY <4>1, <4>2
    <3>7. CASE ScheduleWebhook(d) \/ Fail(d)
      <4>1. pc'[d] \in {"off", "queued", "done"} /\ seen'[d] = Unread
        BY <3>7, LeaveMoves DEF ScheduleWebhook, Fail, Finish, Again, Types
      <4> QED BY <1>0, <1>b, <4>1, MailedStill
    <3>8. ASSUME NEW p \in Party, SendTo(d, p) PROVE MailedOK(d)'
      <4>1. pc'[d] = "send" /\ seen' = seen /\ todo'[d] = todo[d] \ {p}
        BY <3>8 DEF SendTo, Turn, Types, LocalOK
      <4>2. mails'[p] > 0
        BY <3>8, BumpType DEF SendTo, Types, SharedOK
      <4>3. ok'[d] => ok[d]
        BY <3>8 DEF SendTo, Types, LocalOK
      <4>4. MailedAll(seen[d].mailed)'
        BY <1>0, <1>b, <4>1 DEF MailedOK, MailedAll, Lasts, Types, LocalOK, Party
      <4>5. ASSUME ok[d] PROVE MailedAll(Party \ todo[d])
        BY <1>b, <3>8, <4>5, Zenon DEF MailedOK, SendTo, Turn
      <4>6. ASSUME ok'[d] PROVE \A q \in Party \ todo'[d] : mails'[q] > 0
        BY <1>0, <4>1, <4>2, <4>3, <4>5, <4>6 DEF MailedAll, Lasts
      <4> QED BY <4>1, <4>4, <4>6 DEF MailedOK, MailedAll
    <3>9. ASSUME NEW p \in Party, MailFails(d, p) PROVE MailedOK(d)'
      <4>1. pc'[d] = "send" /\ seen' = seen
        BY <3>9 DEF MailFails, Turn, Types, LocalOK
      <4>2. ~ok'[d]
        BY <3>9 DEF MailFails, Types, LocalOK
      <4>3. MailedAll(seen[d].mailed)'
        BY <1>0, <1>b, <4>1 DEF MailedOK, MailedAll, Lasts, Types, LocalOK, Party
      <4> QED BY <4>1, <4>2, <4>3 DEF MailedOK, MailedAll
    <3> QED BY <1>2, <3>1, <3>2, <3>3, <3>4, <3>5, <3>6, <3>7, <3>8, <3>9 DEF Step
  <2> QED BY <1>c, <2>2, <2>3, <2>4 DEF StampInv
<1> QED BY <1>1, <1>2 DEF Next

LEMMA InitInv == Init => Inv
<1> SUFFICES ASSUME Init PROVE Inv
  OBVIOUS
<1>1. TypeOK /\ ClockOK
  BY InitType
<1>2. WaitInv
  <2>1. \A d \in Distributor : pc[d] \in {"queued", "off"}
    BY DEF Init
  <2>2. \A d \in Distributor : WaitOver(d)
    BY <2>1 DEF WaitOver, Passed
  <2> QED BY <2>2 DEF Init, WaitInv, WaitIsHonoured
<1>3. MailsInv
  BY DEF Init, MailsInv
<1>4. StampInv
  <2>1. \A d \in Distributor : pc[d] \in {"queued", "off"} /\ seen[d].mailed = {}
    BY DEF Init, Unread
  <2>2. \A d \in Distributor : MailedOK(d)
    BY <2>1 DEF MailedOK, MailedAll
  <2> QED BY <2>2 DEF Init, StampInv, StampMeansMailed, MailedAll
<1> QED BY <1>1, <1>2, <1>3, <1>4 DEF Inv

(* Inv is an invariant: every distributor's reading of the shared rows,    *)
(* however old, supports what it does next.                                *)
THEOREM Invariant == Spec => []Inv
<1>1. Inv /\ [Next]_vars => Inv'
  <2> SUFFICES ASSUME Inv, [Next]_vars PROVE Inv'
    OBVIOUS
  <2>1. Types
    BY TypeParts DEF Inv, Types
  <2>2. FlagOK' /\ SharedOK' /\ LocalOK' /\ ClockOK'
    BY <2>1, FlagStep, SharedStep, LocalStep, ClockStep DEF Types
  <2>3. Types'
    BY <2>2 DEF Types
  <2>4. TypeOK'
    BY <2>2, Zenon DEF TypeOK, FlagOK, SharedOK, LocalOK
  <2>5. WaitInv' /\ MailsInv' /\ StampInv'
    BY <2>1, <2>3, WaitStep, MailsStep, StampStep DEF Inv
  <2> QED BY <2>2, <2>4, <2>5 DEF Inv
<1> QED BY <1>1, InitInv, PTL DEF Spec

(* Every variable keeps its type. *)
THEOREM TypeCorrect == Spec => []TypeOK
<1>1. Inv => TypeOK
  BY DEF Inv
<1> QED BY <1>1, Invariant, PTL

(* However many distributors overlap and however old their reading of the  *)
(* envelope is, nobody gets a bundle that lacks a statement before the     *)
(* wait, counted from the first of them, has lasted its bound.             *)
THEOREM WaitHonoured == Spec => []WaitIsHonoured
<1>1. Inv => WaitIsHonoured
  BY DEF Inv, WaitInv
<1> QED BY <1>1, Invariant, PTL

(* The creator is told at most once that the envelope is being finalized,  *)
(* the operator at most once that it was sealed without a statement.       *)
THEOREM MailsOnce == Spec => []WaitMailsOnce
<1>1. Inv => WaitMailsOnce
  BY DEF Inv, MailsInv, WaitMailsOnce
<1> QED BY <1>1, Invariant, PTL

(* An envelope marked distributed, or whose webhook is scheduled, has been *)
(* mailed to its creator and to every signer.                              *)
THEOREM StampedMeansMailed == Spec => []StampMeansMailed
<1>1. Inv => StampMeansMailed
  BY DEF Inv, StampInv
<1> QED BY <1>1, Invariant, PTL
=============================================================================
