---------------------------- MODULE Distribution ----------------------------
(***************************************************************************)
(* How one fully signed envelope becomes mails: the statement gate and     *)
(* distributeEnvelopeBundle, at the grain of single awaits.                *)
(*                                                                         *)
(* The same code is run by several distributors: the completion run, the   *)
(* creator's seal requests and the statement_wait_recheck runs, one per    *)
(* hour slot of the wait.  They share the envelope row and the signer      *)
(* rows, and nothing keeps two of them apart.  Every signer has signed and *)
(* nobody edits: the rest of the envelope's life is module Envelope.       *)
(*                                                                         *)
(* Time is counted in half-hours, the first delay of the recheck chain.    *)
(***************************************************************************)
EXTENDS Integers, FiniteSets

CONSTANTS
  Signer,     \* the envelope's signers
  Creator,    \* the creator, who may be one of them
  WaitBound,  \* half-hours a missing statement may hold the bundle back
  MaxTime,    \* bound: the clock stops
  MaxSeals,   \* bound: seal requests of the creator
  MaxFailures \* bound: processes, queries, mails and run creations that fail

Half == 2     \* half-hours in an hour slot
Slots == 1..((MaxTime \div Half) + 1)

ASSUME DistributionAssumption ==
  /\ Signer # {}
  /\ WaitBound \in Nat \ {0}
  /\ MaxTime \in Nat \ {0}
  /\ MaxSeals \in Nat
  /\ MaxFailures \in Nat

VARIABLES
  now,          \* the clock
  \* the envelope row
  autoClose,    \* auto_close
  completed,    \* status = 'completed'
  distributed,  \* completion_distributed_at is set
  since,        \* finalizing_since, 0 = null
  finalizing,   \* finalizing_email_sent_at is set
  waived,       \* statement_waived_at is set
  \* the other rows
  missing,      \* signers whose artifact still lacks its statement
  msgId,        \* signers whose completion_email_provider_msg_id is set
  webhook,      \* the webhook_deliver run
  \* the world
  mails,        \* completion mails each party got, counted up to Many
  interim,      \* finalizing mails sent, counted up to Many
  alerts,       \* operator alerts sent, counted up to Many
  seals,        \* seal requests made
  failures,     \* failures so far
  \* distributors
  pc, due,      \* where each one is; when a queued one may start
  seen,         \* what it read of the envelope and the signers
  waited,       \* half-hours it found the wait to have lasted
  todo, ok      \* parties left to mail, and whether no mail failed

envelopeVars == <<autoClose, completed, distributed, since, finalizing, waived>>
rowVars   == <<missing, msgId, webhook>>
worldVars == <<mails, interim, alerts, seals, failures>>
localVars == <<due, seen, waited, todo, ok>>
vars == <<now, envelopeVars, rowVars, worldVars, pc, localVars>>

Many == 2
Bump(n) == IF n < Many THEN n + 1 ELSE Many

Party == Signer \cup {Creator}

Run     == <<"run", 0>>
Seal    == <<"seal", 0>>
Recheck(slot) == <<"recheck", slot>>
Distributor == {Run, Seal} \cup {Recheck(s) : s \in Slots}

Pcs == {"off", "queued", "signers", "gate", "clock", "waive", "claim",
        "schedule", "complete", "prepare", "send", "follow", "done"}

Unread == [waived |-> FALSE, since |-> 0, mailed |-> {}]

Init ==
  /\ now = 1
  /\ autoClose \in BOOLEAN
  /\ completed = FALSE /\ distributed = FALSE
  /\ since = 0 /\ finalizing = FALSE /\ waived = FALSE
  /\ missing \in SUBSET Signer
  /\ msgId = {} /\ webhook = "none"
  /\ mails = [p \in Party |-> 0]
  /\ interim = 0 /\ alerts = 0 /\ seals = 0 /\ failures = 0
  /\ pc = [d \in Distributor |-> IF d = Run /\ autoClose THEN "queued" ELSE "off"]
  /\ due = [d \in Distributor |-> 0]
  /\ seen = [d \in Distributor |-> Unread]
  /\ waited = [d \in Distributor |-> 0]
  /\ todo = [d \in Distributor |-> {}]
  /\ ok = [d \in Distributor |-> TRUE]

-----------------------------------------------------------------------------
(* Something fails. *)
Failure == failures < MaxFailures /\ failures' = failures + 1

Advance(d, there) == pc' = [pc EXCEPT ![d] = there]

(* A distributor that leaves its handler forgets its local values. *)
Leave(d, there) ==
  /\ Advance(d, there)
  /\ seen' = [seen EXCEPT ![d] = Unread]
  /\ waited' = [waited EXCEPT ![d] = 0]
  /\ todo' = [todo EXCEPT ![d] = {}]
  /\ ok' = [ok EXCEPT ![d] = TRUE]

(* A run that returns is over for good, one that throws is run again; a    *)
(* seal request is over either way.                                        *)
Finish(d) == Leave(d, IF d = Seal THEN "off" ELSE "done")
Again(d)  == Leave(d, IF d = Seal THEN "off" ELSE "queued")

(* handleSealEnvelope *)
RequestSeal ==
  /\ pc[Seal] = "off"
  /\ seals < MaxSeals
  /\ ~distributed
  /\ seals' = seals + 1
  /\ Advance(Seal, "queued")
  /\ UNCHANGED <<now, envelopeVars, rowVars, mails, interim, alerts, failures, localVars>>

(* distributeEnvelopeBundle reads the envelope, then its signers. *)
ReadEnvelope(d) ==
  /\ pc[d] = "queued"
  /\ due[d] <= now
  /\ IF distributed
     THEN Finish(d)
     ELSE /\ Advance(d, "signers")
          /\ seen' = [seen EXCEPT ![d] = [waived |-> waived, since |-> since,
                                          mailed |-> {}]]
          /\ UNCHANGED <<waited, todo, ok>>
  /\ UNCHANGED <<now, envelopeVars, rowVars, worldVars, due>>

ReadSigners(d) ==
  /\ pc[d] = "signers"
  /\ Advance(d, "gate")
  /\ seen' = [seen EXCEPT ![d].mailed = msgId]
  /\ UNCHANGED <<now, envelopeVars, rowVars, worldVars, due, waited, todo, ok>>

(* evaluateStatementGate: a waived envelope passes; else every missing     *)
(* statement is tried again, and each one that is there now is stored.     *)
TryStatements(d) ==
  /\ pc[d] = "gate"
  /\ IF seen[d].waived
     THEN Advance(d, "complete") /\ UNCHANGED missing
     ELSE /\ missing' \in SUBSET missing
          /\ Advance(d, IF missing' = {} THEN "complete" ELSE "clock")
  /\ UNCHANGED <<now, envelopeVars, msgId, webhook, worldVars, localVars>>

(* Mutant: a wait that this distributor did not see begin begins again. *)
RestartClock(d) ==
  /\ pc[d] = "clock"
  /\ LET start == IF seen[d].since # 0 THEN seen[d].since ELSE now IN
     /\ since' = IF seen[d].since # 0 THEN since ELSE now
     /\ waited' = [waited EXCEPT ![d] = now - start]
     /\ Advance(d, IF now - start >= WaitBound THEN "waive" ELSE "claim")
  /\ UNCHANGED <<now, autoClose, completed, distributed, finalizing, waived,
                 rowVars, worldVars, due, seen, todo, ok>>

(* setFinalizingSince keeps the first value; a value already read is used. *)
ReadClock(d) ==
  /\ pc[d] = "clock"
  /\ since' = IF since = 0 THEN now ELSE since
  /\ LET start == IF seen[d].since # 0 THEN seen[d].since ELSE since' IN
     /\ waited' = [waited EXCEPT ![d] = now - start]
     /\ Advance(d, IF now - start >= WaitBound THEN "waive" ELSE "claim")
  /\ UNCHANGED <<now, autoClose, completed, distributed, finalizing, waived,
                 rowVars, worldVars, due, seen, todo, ok>>

(* markStatementWaived: whoever stamps it sends the operator's alert, if   *)
(* the provider takes it.                                                  *)
Waive(d) ==
  /\ pc[d] = "waive"
  /\ waived' = TRUE
  /\ alerts' \in IF waived THEN {alerts} ELSE {alerts, Bump(alerts)}
  /\ Advance(d, "complete")
  /\ UNCHANGED <<now, autoClose, completed, distributed, since, finalizing,
                 rowVars, mails, interim, seals, failures, localVars>>

(* Mutant: the claim is decided from the envelope row read at the start. *)
ClaimIfSeenFirst(d) ==
  /\ pc[d] = "claim"
  /\ finalizing' = TRUE
  /\ interim' \in IF seen[d].since # 0 THEN {interim} ELSE {interim, Bump(interim)}
  /\ Advance(d, "schedule")
  /\ UNCHANGED <<now, autoClose, completed, distributed, since, waived, rowVars,
                 mails, alerts, seals, failures, localVars>>

(* markFinalizingEmailSent: whoever stamps it mails the creator. *)
ClaimInterimMail(d) ==
  /\ pc[d] = "claim"
  /\ finalizing' = TRUE
  /\ interim' \in IF finalizing THEN {interim} ELSE {interim, Bump(interim)}
  /\ Advance(d, "schedule")
  /\ UNCHANGED <<now, autoClose, completed, distributed, since, waived, rowVars,
                 mails, alerts, seals, failures, localVars>>

(* scheduleStatementRecheck: one run per hour slot, ever; a failure to     *)
(* create it is logged.  The distributor is through: 'waiting' is success. *)
Slot(w)  == (w \div Half) + 1
Delay(w) == IF w < 1 THEN 1 ELSE Half

ScheduleRecheck(d) ==
  /\ pc[d] = "schedule"
  /\ LET r == Recheck(Slot(waited[d]))
         after == IF d = Seal THEN "off" ELSE "done" IN
     \/ /\ pc[r] = "off"
        /\ pc' = [pc EXCEPT ![d] = after, ![r] = "queued"]
        /\ due' = [due EXCEPT ![r] = now + Delay(waited[d])]
        /\ UNCHANGED failures
     \/ /\ IF pc[r] = "off" THEN Failure ELSE UNCHANGED failures
        /\ pc' = [pc EXCEPT ![d] = after]
        /\ UNCHANGED due
  /\ seen' = [seen EXCEPT ![d] = Unread]
  /\ waited' = [waited EXCEPT ![d] = 0]
  /\ UNCHANGED <<now, envelopeVars, rowVars, mails, interim, alerts, seals, todo,
                 ok>>

(* completeEnvelopeForBundle *)
Complete(d) ==
  /\ pc[d] = "complete"
  /\ completed' = TRUE
  /\ Advance(d, "prepare")
  /\ UNCHANGED <<now, autoClose, distributed, since, finalizing, waived, rowVars,
                 worldVars, localVars>>

(* prepareBundle, and the parties to mail: those without a message id. The *)
(* creator has none unless a signer.                                       *)
Prepare(d) ==
  /\ pc[d] = "prepare"
  /\ Advance(d, "send")
  /\ todo' = [todo EXCEPT ![d] = Party \ seen[d].mailed]
  /\ UNCHANGED <<now, envelopeVars, rowVars, worldVars, due, seen, waited, ok>>

(* One mail; a creator who does not sign comes last.  The message id of a  *)
(* signer is stored after it (markCompletionEmailSent): when that fails,   *)
(* the mail that went out counts as failed.                                *)
Turn(d, p) ==
  /\ pc[d] = "send"
  /\ p \in todo[d]
  /\ p \notin Signer => todo[d] = {p}
  /\ todo' = [todo EXCEPT ![d] = @ \ {p}]

(* Mutant: the party is not asked for its signer row. *)
SendToAnyone(d, p) ==
  /\ Turn(d, p)
  /\ mails' = [mails EXCEPT ![p] = Bump(@)]
  /\ msgId' = msgId \cup {p}
  /\ UNCHANGED <<now, envelopeVars, missing, webhook, interim, alerts, seals,
                 failures, pc, due, seen, waited, ok>>

SendTo(d, p) ==
  /\ Turn(d, p)
  /\ mails' = [mails EXCEPT ![p] = Bump(@)]
  /\ \/ msgId' = msgId \cup ({p} \cap Signer) /\ UNCHANGED <<ok, failures>>
     \/ /\ p \in Signer
        /\ Failure
        /\ ok' = [ok EXCEPT ![d] = FALSE]
        /\ UNCHANGED msgId
  /\ UNCHANGED <<now, envelopeVars, missing, webhook, interim, alerts, seals, pc,
                 due, seen, waited>>

MailFails(d, p) ==
  /\ Turn(d, p)
  /\ Failure
  /\ ok' = [ok EXCEPT ![d] = FALSE]
  /\ UNCHANGED <<now, envelopeVars, rowVars, mails, interim, alerts, seals, pc,
                 due, seen, waited>>

(* Mutant: the stamp does not wait for the mails that failed. *)
StampRegardless(d) ==
  /\ pc[d] = "send"
  /\ todo[d] = {}
  /\ distributed' = TRUE
  /\ Advance(d, "follow")
  /\ UNCHANGED <<now, autoClose, completed, since, finalizing, waived, rowVars,
                 worldVars, localVars>>

(* Mutant: a partial distribution is taken for a result. *)
StampOrGiveUp(d) ==
  /\ pc[d] = "send"
  /\ todo[d] = {}
  /\ IF ok[d]
     THEN /\ distributed' = TRUE
          /\ Advance(d, "follow")
          /\ UNCHANGED <<seen, waited, todo, ok>>
     ELSE Finish(d) /\ UNCHANGED distributed
  /\ UNCHANGED <<now, autoClose, completed, since, finalizing, waived, rowVars,
                 worldVars, due>>

(* markCompletionDistributed when every mail went out, else the partial    *)
(* result that makes a run retry.                                          *)
Stamp(d) ==
  /\ pc[d] = "send"
  /\ todo[d] = {}
  /\ IF ok[d]
     THEN /\ distributed' = TRUE
          /\ Advance(d, "follow")
          /\ UNCHANGED <<seen, waited, todo, ok>>
     ELSE Again(d) /\ UNCHANGED distributed
  /\ UNCHANGED <<now, autoClose, completed, since, finalizing, waived, rowVars,
                 worldVars, due>>

(* scheduleCompletionWebhook: a run keyed by the envelope, best effort. *)
ScheduleWebhook(d) ==
  /\ pc[d] = "follow"
  /\ \/ /\ webhook' = IF webhook = "none" THEN "queued" ELSE webhook
        /\ UNCHANGED failures
     \/ Failure /\ UNCHANGED webhook
  /\ Finish(d)
  /\ UNCHANGED <<now, envelopeVars, missing, msgId, mails, interim, alerts, seals,
                 due>>

(* deliverEnvelopeWebhook: 2xx and 4xx end it, 5xx and the network do not. *)
DeliverWebhook ==
  /\ webhook = "queued"
  /\ webhook' \in {"delivered", "rejected"}
  /\ UNCHANGED <<now, envelopeVars, missing, msgId, worldVars, pc, localVars>>

(* The process dies, a statement throws, or the bundle is not ready. *)
Fail(d) ==
  /\ pc[d] \notin {"off", "queued", "done"}
  /\ Failure
  /\ Again(d)
  /\ UNCHANGED <<now, envelopeVars, rowVars, mails, interim, alerts, seals, due>>

Tick ==
  /\ now < MaxTime
  /\ now' = now + 1
  /\ UNCHANGED <<envelopeVars, rowVars, worldVars, pc, localVars>>

Step(d) ==
  \/ ReadEnvelope(d) \/ ReadSigners(d) \/ TryStatements(d) \/ ReadClock(d)
  \/ Waive(d) \/ ClaimInterimMail(d) \/ ScheduleRecheck(d) \/ Complete(d)
  \/ Prepare(d) \/ Stamp(d) \/ ScheduleWebhook(d)
  \/ \E p \in Party : SendTo(d, p)

Next ==
  \/ RequestSeal \/ DeliverWebhook \/ Tick
  \/ \E d \in Distributor :
       \/ Step(d) \/ Fail(d)
       \/ \E p \in Party : MailFails(d, p)

Spec == Init /\ [][Next]_vars

(* Time passes, and the platform runs every queued run, again after a       *)
(* failure, until it returns.  Nothing makes the creator seal, and nothing  *)
(* makes a missing statement appear.                                        *)
Fairness ==
  /\ WF_vars(Tick)
  /\ \A d \in Distributor \ {Seal} : WF_vars(Step(d))

FairSpec == Spec /\ Fairness

-----------------------------------------------------------------------------
(* Every variable has the type its comment gives. *)
TypeOK ==
  /\ now \in 1..MaxTime
  /\ autoClose \in BOOLEAN /\ completed \in BOOLEAN /\ distributed \in BOOLEAN
  /\ since \in 0..MaxTime
  /\ finalizing \in BOOLEAN /\ waived \in BOOLEAN
  /\ missing \subseteq Signer /\ msgId \subseteq Signer
  /\ webhook \in {"none", "queued", "delivered", "rejected"}
  /\ mails \in [Party -> 0..Many]
  /\ interim \in 0..Many /\ alerts \in 0..Many
  /\ seals \in 0..MaxSeals /\ failures \in 0..MaxFailures
  /\ pc \in [Distributor -> Pcs]
  /\ due \in [Distributor -> Nat]
  /\ seen \in [Distributor -> [waived : BOOLEAN, since : 0..MaxTime,
                               mailed : SUBSET Signer]]
  /\ waited \in [Distributor -> 0..MaxTime]
  /\ todo \in [Distributor -> SUBSET Party]
  /\ ok \in [Distributor -> BOOLEAN]

(* No party gets a bundle that lacks a statement unless the wait was given  *)
(* up, and it is given up only when it has lasted its bound, counted from   *)
(* the first distributor that found a statement missing: however the        *)
(* distributors overlap, no one's stale clock shortens the wait.            *)
WaitIsHonoured ==
  /\ (\E p \in Party : mails[p] > 0) => missing = {} \/ waived
  /\ waived => since # 0 /\ now - since >= WaitBound

(* The creator hears at most once that the envelope is being finalized, and *)
(* the operator at most once that it was sealed without a statement.        *)
WaitMailsOnce == interim <= 1 /\ alerts <= 1

(* The envelope is marked distributed, and its webhook fired, only when     *)
(* every signer and the creator have been mailed: the parties that a        *)
(* distributor skips were mailed by an earlier or a concurrent one.         *)
StampMeansMailed ==
  distributed \/ webhook # "none" => \A p \in Party : mails[p] > 0

(* Once a run has passed the gate the bundle goes out, whatever fails in    *)
(* between: what let it pass (no statement missing, or the stamped waiver)  *)
(* lets its retries pass too.                                               *)
GateOpenDelivers ==
  (\E d \in Distributor \ {Seal} : pc[d] = "complete") ~> distributed

(* Statement of the repository that the code does not keep: at the end of   *)
(* the bound the envelope seals WITHOUT the missing statements.             *)
WaitEnds == autoClose /\ since # 0 ~> distributed
=============================================================================
