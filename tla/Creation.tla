------------------------------ MODULE Creation -------------------------------
(***************************************************************************)
(* How a creator's requests become envelopes and what they cost: the       *)
(* create under an Idempotency-Key, the create paid over x402, the claim   *)
(* of a pending send, the credit ledger behind them, and the void that     *)
(* refunds.  One creator's account; credit is counted in envelopes.        *)
(*                                                                         *)
(* Requests overlap at every await.  What a create does between its row    *)
(* and its debit (covers, mails, runs) is module Envelope's; here it can   *)
(* throw, or its process can die, wherever it stands.                      *)
(***************************************************************************)
EXTENDS Integers, FiniteSets

CONSTANTS
  Key,          \* Idempotency-Keys
  Payment,      \* settled x402 payments, each with a key of its own
  Draft,        \* pending sends
  Payload,      \* what a keyed request asks for
  Client,       \* requests at work at once
  Grant,        \* credits of the signup grant
  MaxRequests,  \* bound: requests
  MaxFailures   \* bound: processes, queries and ledger calls that fail

None == "none"

ASSUME CreationAssumption ==
  /\ Key \cap Payment = {} /\ Key \cap Draft = {} /\ Payment \cap Draft = {}
  /\ None \notin Payload
  /\ Grant \in Nat
  /\ MaxRequests \in Nat
  /\ MaxFailures \in Nat

VARIABLES
  balance,   \* user_credits
  ledger,    \* credit_ledger: (source, external_ref)
  row,       \* idempotency_keys: payload, and envelope once answered
  draft,     \* pending_sends: claimed, its envelope, deleted
  made,      \* envelopes: id, the door they came through, payload
  voided,    \* envelopes voided
  orphans,   \* envelopes whose create ended without an answer
  answers,   \* 201s given: door, payload, envelope
  pc, door, payload, \* each client's request
  mine,      \* the envelope it has made, 0 = none
  again,     \* it has met a vanished reservation
  requests, failures \* so far

moneyVars   == <<balance, ledger>>
recordVars  == <<row, draft>>
resultVars  == <<made, voided, orphans, answers>>
requestVars == <<door, payload, mine, again>>
vars == <<moneyVars, recordVars, resultVars, pc, requestVars, requests, failures>>

Door == Key \cup Payment \cup Draft
EnvId == 1..MaxRequests
NoRow == [payload |-> None, env |-> 0]

Pcs == {"idle", "credit", "reserve", "look", "claim", "losing", "gate",
        "insert", "debit", "finish", "release"}

Init ==
  /\ balance = 0 /\ ledger = {}
  /\ row = [k \in Key \cup Payment |-> NoRow]
  /\ draft = [d \in Draft |-> [claimed |-> FALSE, env |-> 0, gone |-> FALSE]]
  /\ made = {} /\ voided = {} /\ orphans = {} /\ answers = {}
  /\ pc = [c \in Client |-> "idle"]
  /\ door = [c \in Client |-> None]
  /\ payload = [c \in Client |-> None]
  /\ mine = [c \in Client |-> 0]
  /\ again = [c \in Client |-> FALSE]
  /\ requests = 0 /\ failures = 0

Failure == failures < MaxFailures /\ failures' = failures + 1

-----------------------------------------------------------------------------
(* The ledger. *)

(* Mutant: a delivery is credited whether or not its ledger row is new.    *)
CreditAgain(source, ref, amount) ==
  /\ ledger' = ledger \cup {<<source, ref>>}
  /\ balance' = balance + amount

(* creditUser: the ledger row and the balance in one statement, once.      *)
Credit(source, ref, amount) ==
  /\ ledger' = ledger \cup {<<source, ref>>}
  /\ balance' = IF <<source, ref>> \in ledger THEN balance ELSE balance + amount

(* Mutant: the update does not ask for the balance. *)
DebitAnyway(env) ==
  /\ ledger' = ledger \cup {<<"envelope", env>>}
  /\ balance' = balance - 1

(* debitUser: only if the balance allows it. *)
DebitUser(env) ==
  IF <<"envelope", env>> \in ledger \/ balance < 1
  THEN UNCHANGED moneyVars
  ELSE /\ ledger' = ledger \cup {<<"envelope", env>>}
       /\ balance' = balance - 1

(* grantSignupCreditIfEligible, at every sign-in. *)
SignIn ==
  /\ Credit("signup_grant", "inbox", Grant)
  /\ UNCHANGED <<recordVars, resultVars, pc, requestVars, requests, failures>>

(* handleVoidEnvelope of an envelope nobody has signed: the update has one *)
(* winner, who refunds if the ledger takes it.                             *)
Void(env) ==
  /\ \E m \in made : m.id = env
  /\ env \notin voided
  /\ voided' = voided \cup {env}
  /\ \/ Credit("refund", env, 1) /\ UNCHANGED failures
     \/ Failure /\ UNCHANGED moneyVars
  /\ UNCHANGED <<recordVars, made, orphans, answers, pc, requestVars, requests>>

-----------------------------------------------------------------------------
Advance(c, there) == pc' = [pc EXCEPT ![c] = there]

(* The request is answered, or its process is gone. *)
Leave(c) ==
  /\ Advance(c, "idle")
  /\ door' = [door EXCEPT ![c] = None]
  /\ payload' = [payload EXCEPT ![c] = None]
  /\ mine' = [mine EXCEPT ![c] = 0]
  /\ again' = [again EXCEPT ![c] = FALSE]

(* A request comes in, for the first time or not.  A draft carries its own *)
(* payload.                                                                *)
Arrive(c) ==
  /\ pc[c] = "idle"
  /\ requests < MaxRequests
  /\ requests' = requests + 1
  /\ \E d \in Door, q \in Payload :
       /\ door' = [door EXCEPT ![c] = d]
       /\ payload' = [payload EXCEPT ![c] = IF d \in Draft THEN None ELSE q]
       /\ Advance(c, CASE d \in Key -> "reserve"
                       [] d \in Payment -> "credit"
                       [] d \in Draft -> "claim")
  /\ UNCHANGED <<moneyVars, recordVars, resultVars, mine, again, failures>>

(* handleX402CreateEnvelope: the settled payment is credited first. *)
CreditPayment(c) ==
  /\ pc[c] = "credit"
  /\ Credit("x402", door[c], 1)
  /\ Advance(c, "reserve")
  /\ UNCHANGED <<recordVars, resultVars, requestVars, requests, failures>>

(* Mutant: the insert takes over a reservation that has no answer yet. *)
ReserveUnanswered(c) ==
  /\ pc[c] = "reserve"
  /\ IF row[door[c]].env = 0
     THEN /\ row' = [row EXCEPT ![door[c]].payload = payload[c]]
          /\ Advance(c, "gate")
     ELSE Advance(c, "look") /\ UNCHANGED row
  /\ UNCHANGED <<moneyVars, draft, resultVars, requestVars, requests, failures>>

(* withCreateIdempotency: INSERT ... ON CONFLICT DO NOTHING. *)
Reserve(c) ==
  /\ pc[c] = "reserve"
  /\ IF row[door[c]] = NoRow
     THEN /\ row' = [row EXCEPT ![door[c]].payload = payload[c]]
          /\ Advance(c, "gate")
     ELSE Advance(c, "look") /\ UNCHANGED row
  /\ UNCHANGED <<moneyVars, draft, resultVars, requestVars, requests, failures>>

(* Mutant: the stored answer is replayed to whatever was asked. *)
LookAtKeyOnly(c) ==
  /\ pc[c] = "look"
  /\ Leave(c)
  /\ answers' = answers \cup
       {[door |-> door[c], payload |-> payload[c], env |-> e] :
          e \in {row[door[c]].env} \ {0}}
  /\ UNCHANGED <<moneyVars, recordVars, made, voided, orphans, requests, failures>>

(* The reservation is someone else's: gone again (try once more), for      *)
(* another payload (409), unanswered (409), or answered (replay).          *)
Look(c) ==
  /\ pc[c] = "look"
  /\ LET r == row[door[c]] IN
     IF r = NoRow /\ ~again[c]
     THEN /\ Advance(c, "reserve")
          /\ again' = [again EXCEPT ![c] = TRUE]
          /\ UNCHANGED <<door, payload, mine, answers>>
     ELSE /\ Leave(c)
          /\ answers' =
               IF r.payload = payload[c] /\ r.env # 0
               THEN answers \cup {[door |-> door[c], payload |-> r.payload, env |-> r.env]}
               ELSE answers
  /\ UNCHANGED <<moneyVars, recordVars, made, voided, orphans, requests, failures>>

(* claimPendingSend: one winner; a loser reads the row to say why. *)
Claim(c) ==
  /\ pc[c] = "claim"
  /\ IF ~draft[door[c]].claimed /\ ~draft[door[c]].gone
     THEN /\ draft' = [draft EXCEPT ![door[c]].claimed = TRUE]
          /\ Advance(c, "gate")
     ELSE Advance(c, "losing") /\ UNCHANGED draft
  /\ UNCHANGED <<moneyVars, row, resultVars, requestVars, requests, failures>>

(* 'already' names the envelope, or null while the winner is at work.      *)
Lose(c) ==
  /\ pc[c] = "losing"
  /\ Leave(c)
  /\ LET d == draft[door[c]] IN
     answers' = IF d.claimed /\ ~d.gone
                THEN answers \cup {[door |-> door[c], payload |-> None, env |-> d.env]}
                ELSE answers
  /\ UNCHANGED <<moneyVars, recordVars, made, voided, orphans, requests, failures>>

-----------------------------------------------------------------------------
(* handleCreateEnvelope.  The gate only reads the balance; the debit comes *)
(* last, and a create that it fails is a create all the same.              *)
Gate(c) ==
  /\ pc[c] = "gate"
  /\ Advance(c, IF balance < 1 THEN "release" ELSE "insert")
  /\ UNCHANGED <<moneyVars, recordVars, resultVars, requestVars, requests, failures>>

InsertEnvelope(c) ==
  /\ pc[c] = "insert"
  /\ LET env == Cardinality(made) + 1 IN
     /\ made' = made \cup {[id |-> env, door |-> door[c], payload |-> payload[c]]}
     /\ mine' = [mine EXCEPT ![c] = env]
  /\ Advance(c, "debit")
  /\ UNCHANGED <<moneyVars, recordVars, voided, orphans, answers, door, payload,
                 again, requests, failures>>

Debit(c) ==
  /\ pc[c] = "debit"
  /\ \/ DebitUser(mine[c]) /\ UNCHANGED failures
     \/ Failure /\ UNCHANGED moneyVars
  /\ Advance(c, "finish")
  /\ UNCHANGED <<recordVars, resultVars, requestVars, requests>>

(* 201: the answer is stored under the key, or the draft becomes the       *)
(* receipt of its envelope.                                                *)
Finish(c) ==
  /\ pc[c] = "finish"
  /\ IF door[c] \in Draft
     THEN draft' = [draft EXCEPT ![door[c]].env = mine[c]] /\ UNCHANGED row
     ELSE row' = [row EXCEPT ![door[c]].env = mine[c]] /\ UNCHANGED draft
  /\ answers' = answers \cup
       {[door |-> door[c], payload |-> payload[c], env |-> mine[c]]}
  /\ Leave(c)
  /\ UNCHANGED <<moneyVars, made, voided, orphans, requests, failures>>

Lost(c) == {mine[c]} \ {0}

(* The create throws: what it has made is not undone. *)
Throw(c) ==
  /\ pc[c] \in {"gate", "insert", "debit", "finish"}
  /\ Failure
  /\ orphans' = orphans \cup Lost(c)
  /\ Advance(c, "release")
  /\ UNCHANGED <<moneyVars, recordVars, made, voided, answers, requestVars, requests>>

(* releaseQuietly, releasePendingSendClaim: for another try.               *)
Release(c) ==
  /\ pc[c] = "release"
  /\ IF door[c] \in Draft
     THEN /\ draft' = [draft EXCEPT ![door[c]].claimed = draft[door[c]].env # 0]
          /\ UNCHANGED row
     ELSE row' = [row EXCEPT ![door[c]] = NoRow] /\ UNCHANGED draft
  /\ Leave(c)
  /\ UNCHANGED <<moneyVars, resultVars, requests, failures>>

(* The process dies, or a query outside the create throws: nothing is      *)
(* released.                                                               *)
Die(c) ==
  /\ pc[c] # "idle"
  /\ Failure
  /\ orphans' = orphans \cup Lost(c)
  /\ Leave(c)
  /\ UNCHANGED <<moneyVars, recordVars, made, voided, answers, requests>>

(* deleteFinishedPendingSends: a draft that became an envelope, or expired. *)
SweepDraft(d) ==
  /\ ~draft[d].gone
  /\ draft' = [draft EXCEPT ![d].gone = TRUE]
  /\ UNCHANGED <<moneyVars, row, resultVars, pc, requestVars, requests, failures>>

Next ==
  \/ SignIn
  \/ \E env \in EnvId : Void(env)
  \/ \E d \in Draft : SweepDraft(d)
  \/ \E c \in Client :
       \/ Arrive(c) \/ CreditPayment(c) \/ Reserve(c) \/ Look(c) \/ Claim(c)
       \/ Lose(c) \/ Gate(c) \/ InsertEnvelope(c) \/ Debit(c) \/ Finish(c)
       \/ Throw(c) \/ Release(c) \/ Die(c)

Spec == Init /\ [][Next]_vars

-----------------------------------------------------------------------------
(* Every variable has the type its comment gives; no balance is negative.  *)
TypeOK ==
  /\ balance \in Nat
  /\ ledger \subseteq ({"signup_grant"} \X {"inbox"}) \cup ({"x402"} \X Payment)
                        \cup ({"envelope", "refund"} \X EnvId)
  /\ row \in [Key \cup Payment -> [payload : Payload \cup {None}, env : {0} \cup EnvId]]
  /\ draft \in [Draft -> [claimed : BOOLEAN, env : {0} \cup EnvId, gone : BOOLEAN]]
  /\ made \subseteq [id : EnvId, door : Door, payload : Payload \cup {None}]
  /\ voided \subseteq EnvId /\ orphans \subseteq EnvId
  /\ answers \subseteq [door : Door, payload : Payload \cup {None}, env : {0} \cup EnvId]
  /\ pc \in [Client -> Pcs]
  /\ door \in [Client -> Door \cup {None}]
  /\ payload \in [Client -> Payload \cup {None}]
  /\ mine \in [Client -> {0} \cup EnvId]
  /\ again \in [Client -> BOOLEAN]
  /\ requests \in 0..MaxRequests /\ failures \in 0..MaxFailures

Entries(source) == Cardinality({x \in ledger : x[1] = source})

(* The balance is what the ledger says, however credits are redelivered and *)
(* debits, refunds and payments overlap.                                    *)
BalanceIsLedger ==
  balance = Grant * Entries("signup_grant") + Entries("x402")
            + Entries("refund") - Entries("envelope")

(* Whoever is answered through one key, or one draft, and is told of an     *)
(* envelope is told of the same one, and it was made from what was asked.   *)
SameAnswer ==
  \A x \in answers : x.env # 0 =>
    /\ \E m \in made : m.id = x.env /\ m.door = x.door /\ m.payload = x.payload
    /\ \A y \in answers : y.door = x.door /\ y.env # 0 => y.env = x.env

(* One key, or one draft, makes one envelope: any other was made by a       *)
(* create that threw, or died, after its row was written.                   *)
OneEnvelopeUnlessLost ==
  \A x, y \in made : x.door = y.door /\ {x.id, y.id} \cap orphans = {} => x = y

(* Statement of the repository that the code does not keep: "the create     *)
(* never runs twice, so exactly one envelope and one debit exist no matter  *)
(* how often an agent retries".                                             *)
OneEnvelopePerKey == \A x, y \in made : x.door = y.door => x = y
=============================================================================
