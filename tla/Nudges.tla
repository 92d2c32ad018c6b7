------------------------------- MODULE Nudges -------------------------------
(***************************************************************************)
(* What keeps a signing request moving: the request mail and its outcome,  *)
(* the deferred runs scheduled with it (the delivery backstop, the two     *)
(* automated reminders), the creator's manual reminders and edits, and the *)
(* bounces the mail provider reports. One envelope, one signer address.    *)
(***************************************************************************)
EXTENDS Naturals, FiniteSets

CONSTANTS
    MaxRows,        \* bound: rows the address has had (delete and add make a new one)
    MaxReminders,   \* bound: reminders counted on a row
    MaxNudgeFaults  \* bound: refused schedules, processes that die

ASSUME NudgesAssumption ==
    /\ MaxRows \in Nat \ {0}
    /\ MaxReminders \in Nat
    /\ MaxNudgeFaults \in Nat

Reminders == 1..2   \* REMINDER_INTERVALS_DAYS = [3, 7]

VARIABLES
    phase,      \* the envelope's status
    row,        \* the signer's row, its id 0 when there is none
    due,        \* deferred runs not yet delivered
    booked,     \* idempotency keys the run store has seen
    runner,     \* the run being executed, by its kind
    hand,       \* the creator's call under way, with the row it loaded
    asked,      \* the row's latest request: not sent, accepted, refused, unclear
    bounces,    \* a permanent bounce is on its way
    notices,    \* notices owed to the creator, by the request they are about
    parks,      \* a manual envelope's ending run saw everybody's signature
    overtaken,  \* history: it parked the envelope while the row pended
    nudgeFaults

nudgeVars == <<phase, row, due, booked, runner, hand, asked, bounces, notices, parks, overtaken,
               nudgeFaults>>

SignerRow == [id : 0..MaxRows, status : {"pending", "signed", "superseded"},
              bad : BOOLEAN, count : 0..MaxReminders]
NewRow(i) == [id |-> i, status |-> "pending", bad |-> FALSE, count |-> 0]
NoRow == NewRow(0)
Run == [kind : {"delivery_backstop"}, id : 1..MaxRows, n : {0}]
       \union [kind : {"reminder_send"}, id : 1..MaxRows, n : Reminders]
Backstop(i) == [kind |-> "delivery_backstop", id |-> i, n |-> 0]
Reminder(i, n) == [kind |-> "reminder_send", id |-> i, n |-> n]

Resting == [at |-> "idle", run |-> Backstop(1)]
HandIdle == [at |-> "idle", copy |-> NoRow]

NudgesInit ==
    /\ phase = "active"
    /\ row = NoRow
    /\ due = {}
    /\ booked = {}
    /\ runner = Resting
    /\ hand = HandIdle
    /\ asked = "none"
    /\ bounces = FALSE
    /\ notices = 0
    /\ parks = FALSE
    /\ overtaken = FALSE
    /\ nudgeFaults = 0

NudgeFault == nudgeFaults < MaxNudgeFaults /\ nudgeFaults' = nudgeFaults + 1
NoNudgeFault == UNCHANGED nudgeFaults
NoPark == UNCHANGED <<parks, overtaken>>

\* A fresh request: what happened to the one before does not matter.
Afresh == overtaken' = FALSE /\ UNCHANGED parks
Pends == row.id # 0 /\ row.status = "pending"

\* createRun under the row's id: a key seen before makes no new run, and a
\* refusal is logged and forgotten.
Book(runs) ==
    \/ /\ due' = due \union (runs \ booked)
       /\ booked' = booked \union runs
       /\ NoNudgeFault
    \/ runs # {} /\ NudgeFault /\ UNCHANGED <<due, booked>>
\* Mutant: a request that fails unclearly books nothing.
ScheduleNothing(i) == {}
ScheduleDeliveryBackstop(i) == {Backstop(i)}
ScheduleSignerReminders(i) == {Reminder(i, n) : n \in Reminders}

\* markSignerUndeliverable claims a pending row not yet marked; the one who
\* claims it owes the creator a notice.
\* Mutant: MarksAgain does not look whether it is marked.
MarksAgain == Pends
Marks == Pends /\ ~row.bad
MarkUndeliverable ==
    IF Marks
    THEN row' = [row EXCEPT !.bad = TRUE] /\ notices' = notices + 1
    ELSE UNCHANGED <<row, notices>>

-----------------------------------------------------------------------------
(* The creator *)

\* addSignerCore inserts a row under a fresh id (creation, an added signer,
\* the second half of an address change).
AddSigner ==
    /\ hand.at = "idle" /\ row.id = 0
    /\ phase # "closed"
    /\ \E i \in 1..MaxRows :
         /\ \A r \in booked : r.id < i
         /\ i # 1 => \E r \in booked : r.id = i - 1
         /\ row' = NewRow(i)
         /\ hand' = [at |-> "send", copy |-> NewRow(i)]
    /\ phase' = "active"
    /\ asked' = "none"
    /\ notices' = 0
    /\ Afresh /\ NoNudgeFault
    /\ UNCHANGED <<due, booked, runner, bounces>>

\* How a send fares: an error that says the address is bad refuses it, any other
\* failure is unclear.
Outcomes == {"accepted", "refused", "unclear"}

\* The request is mailed. A refused address is marked at once; after an
\* unclear failure the backstop is booked; then the reminders are, which a
\* create, unlike an added signer, leaves out for a refused address.
SendRequest(outcome) ==
    /\ hand.at = "send"
    /\ asked' = outcome
    /\ IF outcome = "refused" THEN MarkUndeliverable ELSE UNCHANGED <<row, notices>>
    /\ \/ Book((IF outcome = "unclear" THEN ScheduleDeliveryBackstop(hand.copy.id) ELSE {})
               \union ScheduleSignerReminders(hand.copy.id))
       \/ outcome = "refused" /\ Book({})
    /\ bounces' \in {bounces, outcome = "accepted" \/ bounces}
    /\ hand' = HandIdle
    /\ NoPark
    /\ UNCHANGED <<phase, runner>>

\* An in-place edit reads the row and re-renders the document.
BeginEditRow ==
    /\ hand.at = "idle" /\ row.id # 0
    /\ phase # "closed"
    /\ phase' = "active"
    /\ hand' = [at |-> "edit", copy |-> row]
    /\ NoPark /\ NoNudgeFault
    /\ UNCHANGED <<row, due, booked, runner, asked, bounces, notices>>

\* updateSignerForEdit starts the request afresh; the status follows the row
\* as it was read.
UpdateSignerForEdit ==
    /\ hand.at = "edit"
    /\ row.id = hand.copy.id
    /\ row' = [NewRow(row.id) EXCEPT !.status =
                 IF hand.copy.status = "signed" THEN "superseded" ELSE "pending"]
    /\ notices' = 0
    /\ asked' = "none"
    /\ hand' = [hand EXCEPT !.at = "resend"]
    /\ Afresh /\ NoNudgeFault
    /\ UNCHANGED <<phase, due, booked, runner, bounces>>

\* The edited request is mailed; a failure is the answer to the creator, and
\* nothing is marked or booked.
Resend(outcome) ==
    /\ hand.at = "resend"
    /\ asked' = IF outcome = "accepted" THEN "accepted" ELSE "answered"
    /\ bounces' \in {bounces, outcome = "accepted" \/ bounces}
    /\ hand' = HandIdle
    /\ NoPark /\ NoNudgeFault
    /\ UNCHANGED <<phase, row, due, booked, runner, notices>>

\* handleDeleteSigner, and the first half of an address change.
DeleteRow ==
    /\ hand.at = "idle" /\ row.id # 0
    /\ phase # "closed"
    /\ row' = NoRow
    /\ asked' = "none"
    /\ Afresh /\ NoNudgeFault
    /\ UNCHANGED <<phase, due, booked, runner, hand, bounces, notices>>

\* handleRemind picks everyone who still owes a signature while the envelope
\* is open.
BeginRemind ==
    /\ hand.at = "idle" /\ row.id # 0
    /\ phase # "closed" /\ row.status # "signed"
    /\ hand' = [at |-> "remind", copy |-> row]
    /\ NoPark /\ NoNudgeFault
    /\ UNCHANGED <<phase, row, due, booked, runner, asked, bounces, notices>>

\* updateSignerReminder counts on the row as it now is.
Counted(i) == IF row.id = i /\ row.count < MaxReminders
              THEN [row EXCEPT !.count = @ + 1]
              ELSE row

\* remindSigner mails first and counts afterwards; a failed mail counts nothing.
RemindByHand(ok) ==
    /\ hand.at = "remind"
    /\ row' = IF ok THEN Counted(hand.copy.id) ELSE row
    /\ hand' = HandIdle
    /\ NoPark /\ NoNudgeFault
    /\ UNCHANGED <<phase, due, booked, runner, asked, bounces, notices>>

-----------------------------------------------------------------------------
(* The deferred runs *)

\* What the handlers skip on the state they load when they fire.
Skips(r) ==
    \/ phase # "active"
    \/ row.id # r.id \/ row.status # "pending"
    \/ row.bad
    \/ r.kind = "reminder_send" /\ row.count >= r.n

StartRun(r) ==
    /\ r \in due
    /\ runner.at = "idle"
    /\ IF Skips(r)
       THEN due' = due \ {r} /\ UNCHANGED runner
       ELSE runner' = [at |-> r.kind, run |-> r] /\ UNCHANGED due
    /\ NoPark /\ NoNudgeFault
    /\ UNCHANGED <<phase, row, booked, hand, asked, bounces, notices>>

\* The window closed on a pending signer: mark by address, tell the creator.
FireBackstop ==
    /\ runner.at = "delivery_backstop"
    /\ MarkUndeliverable
    /\ due' = due \ {runner.run}
    /\ runner' = Resting
    /\ NoPark /\ NoNudgeFault
    /\ UNCHANGED <<phase, booked, hand, asked, bounces>>

\* The reminder goes out, or fails and the run is tried again.
FireReminder(ok) ==
    /\ runner.at = "reminder_send"
    /\ row' = IF ok THEN Counted(runner.run.id) ELSE row
    /\ due' = IF ok THEN due \ {runner.run} ELSE due
    /\ runner' = Resting
    /\ NoPark /\ NoNudgeFault
    /\ UNCHANGED <<phase, booked, hand, asked, bounces, notices>>

\* The process dies under a run; the run is delivered again.
RunnerDies ==
    /\ runner.at # "idle"
    /\ runner' = Resting
    /\ NoPark /\ NudgeFault
    /\ UNCHANGED <<phase, row, due, booked, hand, asked, bounces, notices>>

-----------------------------------------------------------------------------
(* The signer, the provider, the envelope *)

\* An open envelope takes a signature, parked or not.
SignerSigns ==
    /\ phase # "closed" /\ row.id # 0 /\ row.status # "signed"
    /\ row' = [row EXCEPT !.status = "signed"]
    /\ Afresh /\ NoNudgeFault
    /\ UNCHANGED <<phase, due, booked, runner, hand, asked, bounces, notices>>

\* notifyEnvelopeAwaitingSeal finds everybody signed, as the other signers
\* are, and mails the creator.
BeginPark ==
    /\ ~parks /\ phase = "active"
    /\ row.id = 0 \/ row.status = "signed"
    /\ parks' = TRUE
    /\ NoNudgeFault
    /\ UNCHANGED <<phase, row, due, booked, runner, hand, asked, bounces, notices, overtaken>>

\* The mail fails, or it parks the envelope, whoever was added meanwhile.
Park(ok) ==
    /\ parks /\ parks' = FALSE
    /\ phase' = IF ok /\ phase = "active" THEN "awaiting_seal" ELSE phase
    /\ overtaken' = (overtaken \/ (phase' # phase /\ Pends))
    /\ NoNudgeFault
    /\ UNCHANGED <<row, due, booked, runner, hand, asked, bounces, notices>>

\* handleBounce: a permanent bounce marks the address wherever it pends.
HandleBounce ==
    /\ bounces
    /\ bounces' = FALSE
    /\ IF phase = "active" THEN MarkUndeliverable ELSE UNCHANGED <<row, notices>>
    /\ NoPark /\ NoNudgeFault
    /\ UNCHANGED <<phase, due, booked, runner, hand, asked>>

\* Voided, expired or completed.
Closes ==
    /\ phase # "closed"
    /\ phase' = "closed"
    /\ NoPark /\ NoNudgeFault
    /\ UNCHANGED <<row, due, booked, runner, hand, asked, bounces, notices>>

NudgesNext ==
    \/ AddSigner
    \/ \E o \in Outcomes : SendRequest(o)
    \/ BeginEditRow
    \/ UpdateSignerForEdit
    \/ \E o \in Outcomes : Resend(o)
    \/ DeleteRow
    \/ BeginRemind
    \/ \E ok \in BOOLEAN : RemindByHand(ok)
    \/ \E r \in due : StartRun(r)
    \/ FireBackstop
    \/ \E ok \in BOOLEAN : FireReminder(ok)
    \/ RunnerDies
    \/ SignerSigns
    \/ BeginPark
    \/ \E ok \in BOOLEAN : Park(ok)
    \/ HandleBounce
    \/ Closes

NudgesSpec == NudgesInit /\ [][NudgesNext]_nudgeVars

-----------------------------------------------------------------------------
(* Properties *)

(* Every variable of the nudges has the type its comment gives.            *)
NudgesTypeOK ==
    /\ phase \in {"active", "awaiting_seal", "closed"}
    /\ row \in SignerRow
    /\ due \subseteq Run
    /\ booked \subseteq Run
    /\ runner \in [at : {"idle", "delivery_backstop", "reminder_send"}, run : Run]
    /\ hand \in [at : {"idle", "send", "edit", "resend", "remind"}, copy : SignerRow]
    /\ asked \in {"none", "accepted", "refused", "unclear", "answered"}
    /\ bounces \in BOOLEAN
    /\ notices \in 0..1
    /\ parks \in BOOLEAN
    /\ overtaken \in BOOLEAN
    /\ nudgeFaults \in 0..MaxNudgeFaults

\* A signer whose request failed with an unclear error never sits pending in
\* silence: until it signs, is marked, or is re-requested, a backstop is on its
\* way, whatever edits, bounces, signatures and reminders come between. (Unless
\* the signer was added while the envelope was being parked.)
UnclearIsWatched ==
    /\ phase # "closed" /\ Pends /\ ~row.bad
    /\ asked = "unclear" /\ nudgeFaults = 0 /\ ~overtaken
    => Backstop(row.id) \in due

\* runHandlers.ts:205: "a misclassified send can never leave a signer silently
\* stuck". A signer added while the envelope is being parked pends in
\* awaiting_seal, where its backstop is spent without a look at it.
NeverSilentlyStuck ==
    /\ phase # "closed" /\ Pends /\ ~row.bad
    /\ asked = "unclear" /\ nudgeFaults = 0
    => Backstop(row.id) \in due
=============================================================================
