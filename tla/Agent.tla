-------------------------------- MODULE Agent --------------------------------
(***************************************************************************)
(* One envelope created by a software agent that pays from its own wallet  *)
(* (x402): the local MCP server (create_envelope_x402 in server.ts), the   *)
(* web one (webPay.ts), and the priced route behind both (x402Create.ts),  *)
(* whose gateway settles the payment before the handler runs (external).   *)
(*                                                                         *)
(* The agent wants one envelope and calls again when a call did not give   *)
(* it one.  Both doors take a spending-intent key from the caller: a key   *)
(* it was told, or one of its own.  Without one the web door derives it    *)
(* from the request, so that every such call carries key 0, and the local  *)
(* one generates it for that call.  (Key 0 locally is the case where both  *)
(* doors share it.)  Amounts are in units of the price.                    *)
(***************************************************************************)
EXTENDS Integers, FiniteSets

CONSTANTS
  MaxCalls,       \* bound: tool calls that create
  MaxFunds,       \* bound: what the wallet ever holds at once
  MaxAgentFaults  \* bound: answers lost, calls that throw, processes that die

ASSUME AgentAssumption ==
  /\ MaxCalls \in Nat \ {0}
  /\ MaxFunds \in Nat \ {0}
  /\ MaxAgentFaults \in Nat

VARIABLES
  call,        \* per call: where its request is and what the agent was told
  paid,        \* per payment, named by the call it was signed for
  intent,      \* idempotency_keys, x402:idem:<key>
  wallet,      \* the payer's balance on chain
  banked,      \* the creator's credit, in envelopes
  made,        \* per call: the envelope it inserted, and whether it was debited
  told,        \* generated keys the agent has seen in a result
  agentFaults

agentVars == <<call, paid, intent, wallet, banked, made, told, agentFaults>>

Call == 1..MaxCalls
Key == 0..MaxCalls

(* Answers that say, or mean, that this call charged nothing.              *)
Unpaid == {"invalid", "no_payer", "unreachable", "rejected", "replayed", "terms",
           "no_terms", "no_address", "unknown_balance", "insufficient", "no_stack"}
Answers == Unpaid \cup {"", "refused", "made", "failed", "unsure"}

(* Every variable of the payment doors has the type its comment gives.     *)
AgentTypeOK ==
  /\ call \in [Call -> [pc : {"none", "preflight", "terms", "balance", "pay", "credit",
                              "reserve", "create", "row", "debit", "mark", "reply", "over"},
                        door : {"local", "web"}, key : Key, payment : 0..MaxCalls,
                        out : Answers, said : Answers,
                        settled : BOOLEAN]]
  /\ paid \in [Call -> {"none", "signed", "settled", "credited"}]
  /\ intent \in [Key -> {"none", "held", "done"}]
  /\ wallet \in 0..MaxFunds
  /\ banked \in 0..MaxCalls
  /\ made \in [Call -> {"none", "free", "drawn"}]
  /\ told \subseteq Key
  /\ agentFaults \in 0..MaxAgentFaults

NoCall == [pc |-> "none", door |-> "local", key |-> 0, payment |-> 0,
           out |-> "", said |-> "", settled |-> FALSE]

AgentInit ==
  /\ call = [c \in Call |-> NoCall]
  /\ paid = [p \in Call |-> "none"]
  /\ intent = [k \in Key |-> "none"]
  /\ wallet \in 0..MaxFunds
  /\ banked = 0
  /\ made = [c \in Call |-> "none"]
  /\ told = {}
  /\ agentFaults = 0

AgentFault == agentFaults < MaxAgentFaults /\ agentFaults' = agentFaults + 1
NoAgentFault == UNCHANGED agentFaults

Goes(c, pc) == call' = [call EXCEPT ![c].pc = pc]

(* The tool answers at once: the agent reads it, keys included.            *)
Says(c, answer) == call' = [call EXCEPT ![c] = [@ EXCEPT !.pc = "over", !.said = answer]]

(* The route's own outcome, on its way back.                               *)
Outcome(c, answer) == call' = [call EXCEPT ![c] = [@ EXCEPT !.pc = "reply", !.out = answer]]

Price == 1
-----------------------------------------------------------------------------
(* A call begins once the one before it was answered.  It is refused at    *)
(* once for an input error and, locally, for want of a payer.              *)
Begin(c, door, k, p, refusals) ==
  /\ call[c].pc = "none"
  /\ c > 1 => call[c - 1].said # ""
  /\ \E said \in refusals \cup {""} :
       call' = [call EXCEPT ![c] =
         [NoCall EXCEPT !.pc = IF said = "" THEN "preflight" ELSE "over",
                        !.door = door, !.key = k, !.payment = p, !.said = said]]
  /\ UNCHANGED <<paid, intent, wallet, banked, made, told, agentFaults>>

(* A web call may carry a payment the agent's client has signed, and       *)
(* resending one is legal.                                                 *)
BeginWeb(c) ==
  \E k \in {0, c} \cup told, p \in 0..MaxCalls :
    (p # 0 => paid[p] # "none") /\ Begin(c, "web", k, p, {"invalid"})

BeginLocal(c) ==
  \E k \in {0, c} \cup told : Begin(c, "local", k, 0, {"invalid", "no_payer"})

(* A stored 201 under this key.                                            *)
Replayed(k) == intent[k] = "done"

(* The free preflight: unreachable, rejected, a replay, or go on.          *)
Preflight(c) ==
  LET k == call[c].key IN
  /\ call[c].pc = "preflight"
  /\ \/ Says(c, "unreachable") /\ AgentFault /\ UNCHANGED told
     \/ Replayed(k) /\ Says(c, "replayed") /\ told' = told \cup {k} /\ NoAgentFault
     \/ ~Replayed(k) /\ Says(c, "rejected") /\ NoAgentFault /\ UNCHANGED told
     \/ /\ ~Replayed(k)
        /\ Goes(c, IF call[c].payment # 0 THEN "pay" ELSE "terms")
        /\ NoAgentFault /\ UNCHANGED told
  /\ UNCHANGED <<paid, intent, wallet, banked, made>>

(* The route's unpaid challenge: for the web door the answer, for the      *)
(* local one the price to compare the balance with.                        *)
Terms(c) ==
  /\ call[c].pc = "terms"
  /\ \/ Says(c, "no_terms") /\ AgentFault
     \/ /\ IF call[c].door = "web" THEN Says(c, "terms") ELSE Goes(c, "balance")
        /\ NoAgentFault
  /\ UNCHANGED <<paid, intent, wallet, banked, made, told>>

(* The agent's x402 client signs a payment for the terms it was shown,     *)
(* which a refused payment's answer renews.                                *)
Sign(c) ==
  /\ call[c].door = "web" /\ call[c].said \in {"terms", "refused"} /\ paid[c] = "none"
  /\ paid' = [paid EXCEPT ![c] = "signed"]
  /\ UNCHANGED <<call, intent, wallet, banked, made, told, agentFaults>>

(* readBalanceResilient: the first provider that answers.                  *)
Covered == wallet >= Price

(* The balance is unknown only when every attempt failed, and unknown is   *)
(* never read as zero.  A short balance names the key to retry with.       *)
Balance(c) ==
  /\ call[c].pc = "balance"
  /\ \/ Says(c, "no_address") /\ NoAgentFault /\ UNCHANGED <<paid, told>>
     \/ Says(c, "unknown_balance") /\ AgentFault /\ UNCHANGED <<paid, told>>
     \/ /\ ~Covered /\ Says(c, "insufficient")
        /\ told' = told \cup {call[c].key} /\ UNCHANGED paid /\ NoAgentFault
     \/ Covered /\ Says(c, "no_stack") /\ NoAgentFault /\ UNCHANGED <<paid, told>>
     \/ /\ Covered
        /\ call' = [call EXCEPT ![c] = [@ EXCEPT !.pc = "pay", !.payment = c]]
        /\ paid' = [paid EXCEPT ![c] = "signed"]
        /\ NoAgentFault /\ UNCHANGED told
  /\ UNCHANGED <<intent, wallet, banked, made>>

(* The gateway: it refuses a payment, settles it, or knows it as settled   *)
(* and hands the handler the same payment once more.  The call may also    *)
(* never reach it.                                                         *)
Settle(c) ==
  LET p == call[c].payment IN
  /\ call[c].pc = "pay"
  /\ \/ Says(c, "unsure") /\ AgentFault /\ UNCHANGED <<paid, wallet>>
     \/ paid[p] = "signed" /\ Outcome(c, "refused") /\ NoAgentFault /\ UNCHANGED <<paid, wallet>>
     \/ /\ paid[p] = "signed" /\ wallet >= Price
        /\ paid' = [paid EXCEPT ![p] = "settled"]
        /\ wallet' = wallet - Price
        /\ call' = [call EXCEPT ![c] = [@ EXCEPT !.pc = "credit", !.settled = TRUE]]
        /\ NoAgentFault
     \/ /\ paid[p] \in {"settled", "credited"}
        /\ Goes(c, "credit") /\ NoAgentFault /\ UNCHANGED <<paid, wallet>>
  /\ UNCHANGED <<intent, banked, made, told>>

(* creditUser's reference: the settled payment's id.                       *)
Credited(c) == paid[call[c].payment] = "credited"

(* creditPayment, before anything is created.  A settled payment that does *)
(* not match the price or the payee, or that comes without a usable        *)
(* creator_email, is answered before it is credited; so is one whose       *)
(* credit fails.                                                           *)
Credit(c) ==
  LET p == call[c].payment IN
  /\ call[c].pc = "credit"
  /\ \/ /\ Goes(c, "reserve")
        /\ banked' = IF Credited(c) THEN banked ELSE banked + 1
        /\ paid' = [paid EXCEPT ![p] = "credited"]
        /\ NoAgentFault
     \/ /\ Outcome(c, "failed") /\ UNCHANGED <<banked, paid>>
        /\ AgentFault \/ NoAgentFault
  /\ UNCHANGED <<intent, wallet, made, told>>

(* withCreateIdempotency: reserve, or replay, or in flight.                *)
ReserveIntent(c) ==
  LET k == call[c].key IN
  /\ call[c].pc = "reserve"
  /\ \/ intent[k] = "none" /\ intent' = [intent EXCEPT ![k] = "held"] /\ Goes(c, "create")
     \/ intent[k] = "held" /\ Outcome(c, "failed") /\ UNCHANGED intent
     \/ intent[k] = "done" /\ Outcome(c, "made") /\ UNCHANGED intent
  /\ UNCHANGED <<paid, wallet, banked, made, told, agentFaults>>

Creating == {"create", "row", "debit", "mark"}

(* The create is over without an answer to keep: the key is released.      *)
Releases(c) ==
  intent' = [intent EXCEPT ![call[c].key] = "none"] /\ Outcome(c, "failed")

(* The create gate reads the balance; it, or a later check, may refuse.    *)
PassGate(c) ==
  /\ call[c].pc = "create"
  /\ \/ banked >= Price /\ Goes(c, "row") /\ UNCHANGED intent
     \/ Releases(c)
  /\ UNCHANGED <<paid, wallet, banked, made, told, agentFaults>>

InsertRow(c) ==
  /\ call[c].pc = "row" /\ Goes(c, "debit")
  /\ made' = [made EXCEPT ![c] = "free"]
  /\ UNCHANGED <<paid, intent, wallet, banked, told, agentFaults>>

(* What a create costs the balance; mutant: a create that is not debited.  *)
Undebited(b) == b
Debited(b) == b - Price

(* The debit comes last, only from a balance that covers it; one that      *)
(* fails is logged, and the create goes on.                                *)
Debit(c) ==
  /\ call[c].pc = "debit" /\ Goes(c, "mark")
  /\ \/ /\ banked >= Price /\ banked' = Debited(banked)
        /\ made' = [made EXCEPT ![c] = "drawn"] /\ NoAgentFault
     \/ banked < Price /\ UNCHANGED <<banked, made>> /\ NoAgentFault
     \/ AgentFault /\ UNCHANGED <<banked, made>>
  /\ UNCHANGED <<paid, intent, wallet, told>>

(* The 201 is stored under the key; if that fails the key stays reserved.  *)
MarkDone(c) ==
  /\ call[c].pc = "mark"
  /\ \/ /\ intent' = [intent EXCEPT ![call[c].key] = "done"]
        /\ Outcome(c, "made") /\ NoAgentFault
     \/ Outcome(c, "failed") /\ AgentFault /\ UNCHANGED intent
  /\ UNCHANGED <<paid, wallet, banked, made, told>>

(* Once reserved, the create may throw, which releases the key whatever is *)
(* done already; or the process dies holding it.                           *)
CutShort(c) ==
  /\ call[c].pc \in Creating /\ AgentFault
  /\ \/ Releases(c)
     \/ /\ call' = [call EXCEPT ![c] = [@ EXCEPT !.pc = "over",
                                   !.said = IF call[c].said = "" THEN "unsure" ELSE call[c].said]]
        /\ UNCHANGED intent
  /\ UNCHANGED <<paid, wallet, banked, made, told>>

(* The answer arrives; an agent that stopped waiting does not hear it.     *)
(* The web door names the key whatever the outcome, the local one with a   *)
(* 201 alone.                                                              *)
Heard(c, tells) ==
  /\ call[c].pc = "reply"
  /\ call' = [call EXCEPT ![c] = [@ EXCEPT !.pc = "over",
                              !.said = IF call[c].said = "" THEN call[c].out ELSE call[c].said]]
  /\ told' = IF call[c].said = "" /\ tells THEN told \cup {call[c].key} ELSE told
  /\ UNCHANGED <<paid, intent, wallet, banked, made, agentFaults>>

ReplyWeb(c)   == call[c].door = "web" /\ Heard(c, TRUE)
ReplyLocal(c) == call[c].door = "local" /\ Heard(c, call[c].out = "made")

(* The connection drops while the route is at work, which goes on.         *)
Drop(c) ==
  /\ call[c].pc \in {"credit", "reserve", "reply"} \cup Creating /\ call[c].said = ""
  /\ call' = [call EXCEPT ![c].said = "unsure"]
  /\ AgentFault
  /\ UNCHANGED <<paid, intent, wallet, banked, made, told>>

(* The fund_wallet action is followed.                                     *)
FundWallet ==
  /\ wallet < MaxFunds /\ \E c \in Call : call[c].said = "insufficient"
  /\ wallet' = wallet + 1
  /\ UNCHANGED <<call, paid, intent, banked, made, told, agentFaults>>

AgentNext ==
  \/ \E c \in Call :
       \/ BeginWeb(c) \/ BeginLocal(c) \/ Preflight(c) \/ Terms(c) \/ Sign(c) \/ Balance(c) \/ Settle(c)
       \/ Credit(c) \/ ReserveIntent(c) \/ PassGate(c) \/ InsertRow(c) \/ Debit(c) \/ MarkDone(c)
       \/ CutShort(c) \/ ReplyWeb(c) \/ ReplyLocal(c) \/ Drop(c)
  \/ FundWallet

AgentSpec == AgentInit /\ [][AgentNext]_agentVars
-----------------------------------------------------------------------------
Credits == {p \in Call : paid[p] = "credited"}
Drawn   == {c \in Call : made[c] = "drawn"}

(* The credit that was banked is there or was drawn by an envelope.        *)
CreditKept == banked + Cardinality(Drawn) = Cardinality(Credits)

(* A payment that settled and is not credited has a call that is about to  *)
(* credit it, or answered that it failed, and nobody was told that nothing *)
(* was charged by a call whose payment settled.                            *)
Owed(p) ==
  \E c \in Call : call[c].payment = p /\ (call[c].pc = "credit" \/ call[c].out = "failed")
SettledIsOwed ==
  /\ \A p \in Call : paid[p] = "settled" => Owed(p)
  /\ \A c \in Call : call[c].settled => call[c].said \notin Unpaid \cup {"refused"}

(* Where nothing was lost, cut short or left to die, an envelope drew its  *)
(* credit before anyone heard of it.                                       *)
CreateIsDrawn ==
  agentFaults = 0 => \A c \in Call : made[c] = "free" => call[c].pc = "debit"

(* No settled payment is lost, whichever calls, retries, keys, failures    *)
(* and lost answers come between its settlement and the debit.             *)
PaymentsKept == CreditKept /\ SettledIsOwed /\ CreateIsDrawn

(* x402Create.ts:175: "money is exactly-once per settled payment           *)
(* regardless of the create key".  The credit is; but a create that throws *)
(* between its row and its debit is made once more by the same payment, as *)
(* is one under another key whose gate reads the credit before the debit.  *)
EnvelopesArePaid ==
  Cardinality({c \in Call : made[c] # "none"}) <= Cardinality(Credits)

(* "Call again with the same request: the preflight replays the envelope   *)
(* if one was created, and nothing is paid twice" (webPay.ts, on an answer *)
(* that never came).                                                       *)
NothingPaidTwice ==
  \A c, d \in Call :
    /\ c < d /\ call[c].key = call[d].key
    /\ call[c].door = "web" /\ call[c].said = "unsure" /\ call[c].settled
    /\ call[d].door = "web"
    => ~call[d].settled
=============================================================================
