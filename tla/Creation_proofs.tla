---------------------------- MODULE Creation_proofs -----------------------------
(***************************************************************************)
(* Proofs about Creation, for any keys, payments, drafts, clients and      *)
(* bounds: its types (an overdrawn account is a type error), that the      *)
(* balance is the ledger, that whoever asks through one door is answered   *)
(* with one envelope, and that a door makes one envelope unless a create   *)
(* was cut after its row.                                                  *)
(***************************************************************************)
EXTENDS Creation, FiniteSetTheorems, TLAPS

(* Where a client is tells through which door it came and what it has. *)
Early == {"credit", "reserve", "look", "claim", "losing", "gate", "insert"}

ClientOK(c) ==
  /\ pc[c] = "idle" => mine[c] = 0
  /\ pc[c] = "credit" => door[c] \in Payment
  /\ pc[c] \in {"reserve", "look"} => door[c] \in Key \cup Payment
  /\ pc[c] \in {"claim", "losing"} => door[c] \in Draft
  /\ pc[c] # "idle" =>
       /\ door[c] \in Door
       /\ payload[c] \in (IF door[c] \in Draft THEN {None} ELSE Payload)
  /\ pc[c] \in Early => mine[c] = 0
  /\ pc[c] \in {"debit", "finish"} => mine[c] \in EnvId
  /\ pc[c] = "release" => mine[c] = 0 \/ mine[c] \in orphans

RequestOK ==
  /\ pc \in [Client -> Pcs]
  /\ door \in [Client -> Door \cup {None}]
  /\ payload \in [Client -> Payload \cup {None}]
  /\ mine \in [Client -> {0} \cup EnvId]
  /\ again \in [Client -> BOOLEAN]
  /\ requests \in 0..MaxRequests
  /\ \A c \in Client : ClientOK(c)

LedgerRow == ({"signup_grant"} \X {"inbox"}) \cup ({"x402"} \X Payment)
               \cup ({"envelope", "refund"} \X EnvId)

DraftRow == [claimed : BOOLEAN, env : {0} \cup EnvId, gone : BOOLEAN]

StoreOK ==
  /\ balance \in Nat
  /\ ledger \subseteq LedgerRow
  /\ row \in [Key \cup Payment -> [payload : Payload \cup {None}, env : {0} \cup EnvId]]
  /\ draft \in [Draft -> DraftRow]
  /\ failures \in 0..MaxFailures

ResultOK ==
  /\ made \subseteq [id : EnvId, door : Door, payload : Payload \cup {None}]
  /\ voided \subseteq EnvId /\ orphans \subseteq EnvId
  /\ answers \subseteq [door : Door, payload : Payload \cup {None}, env : {0} \cup EnvId]

(* Each request makes at most one envelope, so ids never run out, and each *)
(* envelope has its own.                                                   *)
Unmade == {c \in Client : pc[c] # "idle" /\ mine[c] = 0}

CountOK ==
  /\ IsFiniteSet(made) /\ IsFiniteSet(Unmade)
  /\ Cardinality(made) + Cardinality(Unmade) <= requests
  /\ \A m \in made : m.id <= Cardinality(made)
  /\ \A m, n \in made : m.id = n.id => m = n

TypeInv == RequestOK /\ StoreOK /\ ResultOK /\ CountOK

-----------------------------------------------------------------------------
LEMMA InitType == Init => TypeInv
  <1> SUFFICES ASSUME Init PROVE TypeInv
    OBVIOUS
  <1> USE CreationAssumption
  <1>1. RequestOK
    BY DEF Init, RequestOK, ClientOK, Pcs, Early
  <1>2. StoreOK
    BY DEF Init, StoreOK, DraftRow, NoRow
  <1>3. ResultOK
    BY DEF Init, ResultOK
  <1>4. Unmade = {}
    BY DEF Init, Unmade
  <1>5. CountOK
    BY <1>4, FS_EmptySet DEF Init, CountOK
  <1> QED BY <1>1, <1>2, <1>3, <1>5 DEF TypeInv

(* What one client does to its own request concerns no other. *)
Others(c) ==
  \A x \in Client \ {c} :
    /\ pc'[x] = pc[x] /\ door'[x] = door[x] /\ payload'[x] = payload[x]
    /\ mine'[x] = mine[x]

LEMMA OthersOK ==
  ASSUME RequestOK, NEW c \in Client, Others(c), orphans \subseteq orphans'
  PROVE  \A x \in Client \ {c} : ClientOK(x)'
  BY DEF RequestOK, ClientOK, Others

LEMMA CountFrame ==
  ASSUME RequestOK, CountOK, UNCHANGED <<made, requests>>, Unmade' \subseteq Unmade
  PROVE  CountOK'
  <1>1. /\ IsFiniteSet(Unmade') /\ Cardinality(Unmade') <= Cardinality(Unmade)
        /\ Cardinality(Unmade') \in Nat /\ Cardinality(Unmade) \in Nat
        /\ Cardinality(made) \in Nat
    BY FS_Subset, FS_CardinalityType DEF CountOK
  <1> QED BY <1>1 DEF CountOK, RequestOK

LEMMA Move ==
  ASSUME RequestOK, NEW c \in Client, NEW there \in Pcs, Advance(c, there),
         UNCHANGED <<requestVars, requests>>, orphans \subseteq orphans'
  PROVE  /\ Others(c)
         /\ pc'[c] = there
         /\ ClientOK(c)' => RequestOK'
         /\ there # "idle" /\ pc[c] # "idle" => Unmade' = Unmade
  <1>1. Others(c) /\ pc'[c] = there
    BY DEF RequestOK, Advance, Others, requestVars
  <1>2. ClientOK(c)' => RequestOK'
    BY <1>1, OthersOK DEF RequestOK, Advance, requestVars
  <1>3. ASSUME there # "idle", pc[c] # "idle" PROVE Unmade' = Unmade
    BY <1>1, <1>3 DEF Unmade, Others, requestVars
  <1> QED BY <1>1, <1>2, <1>3

LEMMA LeaveMoves ==
  ASSUME RequestOK, NEW c \in Client, Leave(c), UNCHANGED requests,
         orphans \subseteq orphans'
  PROVE  /\ Others(c) /\ pc'[c] = "idle" /\ mine'[c] = 0
         /\ RequestOK'
         /\ Unmade' \subseteq Unmade
  <1>1. Others(c) /\ pc'[c] = "idle" /\ mine'[c] = 0
    BY DEF RequestOK, Leave, Advance, Others
  <1>2. ClientOK(c)'
    BY <1>1 DEF ClientOK, Early
  <1>3. RequestOK'
    BY <1>1, <1>2, OthersOK DEF RequestOK, Leave, Advance, Pcs
  <1>4. Unmade' \subseteq Unmade
    BY <1>1 DEF Unmade, Others
  <1> QED BY <1>1, <1>3, <1>4

LEMMA TypeCredit ==
  ASSUME StoreOK, NEW source, NEW ref, NEW amount \in Nat,
         <<source, ref>> \in LedgerRow, Credit(source, ref, amount)
  PROVE  balance' \in Nat /\ ledger' \subseteq LedgerRow
  BY DEF StoreOK, Credit

LEMMA TypeDebit ==
  ASSUME StoreOK, NEW env \in EnvId, DebitUser(env)
  PROVE  balance' \in Nat /\ ledger' \subseteq LedgerRow
  <1>1. <<"envelope", env>> \in LedgerRow
    BY DEF LedgerRow
  <1> QED BY <1>1 DEF StoreOK, DebitUser, moneyVars

(* What is not a client's doing. *)
LEMMA TypeWorld ==
  ASSUME TypeInv,
         SignIn \/ (\E env \in EnvId : Void(env)) \/ (\E d \in Draft : SweepDraft(d))
  PROVE  TypeInv'
  <1> USE CreationAssumption DEF TypeInv
  <1>1. RequestOK' /\ CountOK'
    <2>1. UNCHANGED <<pc, requestVars, requests, made, orphans>>
      BY DEF SignIn, Void, SweepDraft, resultVars
    <2> QED BY <2>1 DEF RequestOK, ClientOK, CountOK, Unmade, requestVars
  <1>2. CASE SignIn
    <2>1. <<"signup_grant", "inbox">> \in LedgerRow
      BY DEF LedgerRow
    <2>2. balance' \in Nat /\ ledger' \subseteq LedgerRow
      BY <1>2, <2>1, TypeCredit DEF SignIn
    <2> QED BY <1>1, <1>2, <2>2 DEF SignIn, StoreOK, ResultOK, recordVars, resultVars
  <1>3. ASSUME NEW env \in EnvId, Void(env) PROVE TypeInv'
    <2>1. <<"refund", env>> \in LedgerRow
      BY DEF LedgerRow
    <2>2. balance' \in Nat /\ ledger' \subseteq LedgerRow
      BY <1>3, <2>1, TypeCredit DEF Void, StoreOK, moneyVars
    <2>3. failures' \in 0..MaxFailures
      BY <1>3 DEF Void, Failure, StoreOK
    <2> QED BY <1>1, <1>3, <2>2, <2>3 DEF Void, StoreOK, ResultOK, recordVars
  <1>4. ASSUME NEW d \in Draft, SweepDraft(d) PROVE TypeInv'
    <2>1. draft' \in [Draft -> DraftRow]
      BY <1>4 DEF SweepDraft, StoreOK, DraftRow
    <2> QED BY <1>1, <1>4, <2>1 DEF SweepDraft, StoreOK, ResultOK, moneyVars, resultVars
  <1> QED BY <1>2, <1>3, <1>4

(* A claim set or released, a receipt written: a draft stays a draft. *)
LEMMA DraftClaimed ==
  ASSUME NEW f \in [Draft -> DraftRow], NEW d \in Draft, NEW b \in BOOLEAN
  PROVE  [f EXCEPT ![d].claimed = b] \in [Draft -> DraftRow]
  BY DEF DraftRow

LEMMA DraftAnswered ==
  ASSUME NEW f \in [Draft -> DraftRow], NEW d \in Draft, NEW e \in {0} \cup EnvId
  PROVE  [f EXCEPT ![d].env = e] \in [Draft -> DraftRow]
  BY DEF DraftRow

(* Up to its gate a request has made nothing. *)
LEMMA TypeArrive ==
  ASSUME TypeInv, NEW c \in Client, Arrive(c)
  PROVE  TypeInv'
  <1> USE CreationAssumption DEF TypeInv
  <1>1. PICK d \in Door, q \in Payload :
          /\ door' = [door EXCEPT ![c] = d]
          /\ payload' = [payload EXCEPT ![c] = IF d \in Draft THEN None ELSE q]
          /\ Advance(c, CASE d \in Key -> "reserve"
                          [] d \in Payment -> "credit"
                          [] d \in Draft -> "claim")
    BY DEF Arrive
  <1>2. /\ pc[c] = "idle" /\ requests < MaxRequests /\ requests' = requests + 1
        /\ UNCHANGED <<moneyVars, recordVars, resultVars, mine, again, failures>>
    BY DEF Arrive
  <1>3. /\ pc' \in [Client -> Pcs] /\ Others(c)
        /\ pc'[c] = (CASE d \in Key -> "reserve" [] d \in Payment -> "credit"
                       [] d \in Draft -> "claim")
        /\ door'[c] = d /\ payload'[c] = (IF d \in Draft THEN None ELSE q)
        /\ mine'[c] = 0
    BY <1>1, <1>2 DEF RequestOK, ClientOK, Advance, Others, Pcs, Door
  <1>4. ClientOK(c)'
    BY <1>3 DEF ClientOK, Door
  <1>5. RequestOK'
    <2>1. \A x \in Client : ClientOK(x)'
      BY <1>2, <1>3, <1>4, OthersOK DEF resultVars
    <2>2. /\ door' \in [Client -> Door \cup {None}]
          /\ payload' \in [Client -> Payload \cup {None}]
      BY <1>1 DEF RequestOK
    <2>3. requests' \in 0..MaxRequests
      BY <1>2 DEF RequestOK
    <2> QED BY <1>2, <1>3, <2>1, <2>2, <2>3 DEF RequestOK
  <1>6. CountOK'
    <2>1. Unmade' \subseteq Unmade \cup {c}
      BY <1>3 DEF Unmade, Others
    <2>a. Cardinality(Unmade) \in Nat /\ Cardinality(made) \in Nat
      BY FS_CardinalityType DEF CountOK
    <2>2. /\ IsFiniteSet(Unmade \cup {c})
          /\ Cardinality(Unmade \cup {c}) <= Cardinality(Unmade) + 1
      <3>1. IsFiniteSet(Unmade)
        BY DEF CountOK
      <3> HIDE DEF TypeInv
      <3>2. /\ IsFiniteSet(Unmade \cup {c})
            /\ Cardinality(Unmade \cup {c}) =
                 IF c \in Unmade THEN Cardinality(Unmade) ELSE Cardinality(Unmade) + 1
        BY <3>1, FS_AddElement
      <3> QED BY <2>a, <3>2
    <2>3. /\ IsFiniteSet(Unmade') /\ Cardinality(Unmade') \in Nat
          /\ Cardinality(Unmade') <= Cardinality(Unmade \cup {c})
          /\ Cardinality(Unmade \cup {c}) \in Nat
      BY <2>1, <2>2, FS_Subset, FS_CardinalityType
    <2> QED BY <1>2, <2>a, <2>2, <2>3 DEF CountOK, RequestOK, resultVars
  <1> QED BY <1>2, <1>5, <1>6 DEF StoreOK, ResultOK, moneyVars, recordVars, resultVars

LEMMA TypeReserve ==
  ASSUME TypeInv, NEW c \in Client, CreditPayment(c) \/ Reserve(c) \/ Claim(c)
  PROVE  TypeInv'
  <1> USE CreationAssumption DEF TypeInv, Pcs
  <1>0. ClientOK(c)
    BY DEF RequestOK
  <1>1. CASE CreditPayment(c)
    <2>1. RequestOK' /\ CountOK'
      BY <1>0, <1>1, Move, CountFrame DEF CreditPayment, ClientOK, Early, resultVars, requestVars
    <2>2. <<"x402", door[c]>> \in LedgerRow
      BY <1>0, <1>1 DEF CreditPayment, ClientOK, LedgerRow
    <2>3. balance' \in Nat /\ ledger' \subseteq LedgerRow
      BY <1>1, <2>2, TypeCredit DEF CreditPayment
    <2> QED BY <1>1, <2>1, <2>3 DEF CreditPayment, StoreOK, ResultOK, recordVars, resultVars
  <1>2. CASE Reserve(c)
    <2>1. RequestOK' /\ CountOK'
      BY <1>0, <1>2, Move, CountFrame DEF Reserve, ClientOK, Early, resultVars, requestVars
    <2>2. row' \in [Key \cup Payment -> [payload : Payload \cup {None}, env : {0} \cup EnvId]]
      BY <1>2 DEF Reserve, StoreOK, RequestOK
    <2> QED BY <1>2, <2>1, <2>2 DEF Reserve, StoreOK, ResultOK, moneyVars, resultVars
  <1>3. CASE Claim(c)
    <2>1. RequestOK' /\ CountOK'
      BY <1>0, <1>3, Move, CountFrame DEF Claim, ClientOK, Early, resultVars, requestVars
    <2>2. draft' \in [Draft -> DraftRow]
      <3>1. draft' = draft \/ draft' = [draft EXCEPT ![door[c]].claimed = TRUE]
        BY <1>3 DEF Claim
      <3>2. door[c] \in Draft
        BY <1>0, <1>3 DEF Claim, ClientOK
      <3>3. draft \in [Draft -> DraftRow] 
        BY DEF StoreOK
      <3>4. PICK d \in Draft, b \in BOOLEAN :
              draft' = draft \/ draft' = [draft EXCEPT ![d].claimed = b]
        BY <3>1, <3>2, Zenon
      <3> QED BY <3>3, <3>4, DraftClaimed
    <2> QED BY <1>3, <2>1, <2>2 DEF Claim, StoreOK, ResultOK, moneyVars, resultVars
  <1> QED BY <1>1, <1>2, <1>3

(* Those who find the door taken. *)
LEMMA TypeLosers ==
  ASSUME TypeInv, NEW c \in Client, Look(c) \/ Lose(c)
  PROVE  TypeInv'
  <1> USE CreationAssumption DEF TypeInv
  <1>0. ClientOK(c)
    BY DEF RequestOK
  <1>1. CASE Look(c)
    <2> DEFINE r == row[door[c]]
    <2>1. r \in [payload : Payload \cup {None}, env : {0} \cup EnvId] /\ door[c] \in Door
      BY <1>0, <1>1 DEF Look, ClientOK, StoreOK, Door
    <2>2. CASE r = NoRow /\ ~again[c]
      <3>1. /\ Advance(c, "reserve") /\ again' = [again EXCEPT ![c] = TRUE]
            /\ UNCHANGED <<door, payload, mine, answers>>
        BY <1>1, <2>2 DEF Look
      <3>2. Others(c) /\ pc'[c] = "reserve"
        BY <3>1 DEF Advance, RequestOK, Others
      <3>3. ClientOK(c)'
        BY <1>0, <1>1, <3>1, <3>2 DEF ClientOK, Look, Early
      <3>4. RequestOK'
        BY <1>1, <3>1, <3>2, <3>3, OthersOK DEF Look, RequestOK, Advance, Pcs
      <3>5. CountOK'
        <4>1. Unmade' \subseteq Unmade
          BY <1>1, <3>1, <3>2 DEF Look, Unmade, Others
        <4> QED BY <1>1, <4>1, CountFrame DEF Look
      <3> QED BY <1>1, <3>1, <3>4, <3>5 DEF Look, StoreOK, ResultOK, moneyVars, recordVars
    <2>3. CASE ~(r = NoRow /\ ~again[c])
      <3>1. Leave(c) /\ UNCHANGED <<moneyVars, recordVars, made, voided, orphans, requests, failures>>
            /\ answers' \subseteq answers \cup {[door |-> door[c], payload |-> r.payload, env |-> r.env]}
        BY <1>1, <2>3 DEF Look
      <3>2. RequestOK' /\ CountOK'
        BY <3>1, LeaveMoves, CountFrame
      <3>3. answers' \subseteq [door : Door, payload : Payload \cup {None}, env : {0} \cup EnvId]
        BY <2>1, <3>1 DEF ResultOK
      <3> QED BY <3>1, <3>2, <3>3 DEF StoreOK, ResultOK, moneyVars, recordVars
    <2> QED BY <2>2, <2>3
  <1>2. CASE Lose(c)
    <2>1. /\ Leave(c)
          /\ UNCHANGED <<moneyVars, recordVars, made, voided, orphans, requests, failures>>
          /\ answers' \subseteq answers \cup
               {[door |-> door[c], payload |-> None, env |-> draft[door[c]].env]}
      BY <1>2 DEF Lose
    <2>2. RequestOK' /\ CountOK'
      BY <2>1, LeaveMoves, CountFrame
    <2>3. draft[door[c]].env \in {0} \cup EnvId /\ door[c] \in Door
      BY <1>0, <1>2 DEF Lose, ClientOK, StoreOK, DraftRow, Door
    <2>4. answers' \subseteq [door : Door, payload : Payload \cup {None}, env : {0} \cup EnvId]
      BY <2>1, <2>3 DEF ResultOK
    <2> QED BY <2>1, <2>2, <2>4 DEF StoreOK, ResultOK, moneyVars, recordVars
  <1> QED BY <1>1, <1>2

(* The create itself. *)
LEMMA TypeInsert ==
  ASSUME TypeInv, NEW c \in Client, InsertEnvelope(c)
  PROVE  TypeInv'
  <1> USE CreationAssumption DEF TypeInv
  <1> DEFINE new == [id |-> Cardinality(made) + 1, door |-> door[c], payload |-> payload[c]]
  <1>1. /\ pc[c] = "insert" /\ Advance(c, "debit")
        /\ made' = made \cup {new}
        /\ mine' = [mine EXCEPT ![c] = Cardinality(made) + 1]
        /\ UNCHANGED <<moneyVars, recordVars, voided, orphans, answers, door, payload,
                       again, requests, failures>>
    BY DEF InsertEnvelope
  <1>2. ClientOK(c) /\ mine[c] = 0 /\ c \in Unmade
    BY <1>1 DEF RequestOK, ClientOK, Early, Unmade
  <1>3. /\ IsFiniteSet(made) /\ IsFiniteSet(Unmade)
        /\ Cardinality(made) + Cardinality(Unmade) <= requests
        /\ \A m \in made : m.id <= Cardinality(made)
        /\ \A m, n \in made : m.id = n.id => m = n
    BY DEF CountOK
  <1>4. /\ Cardinality(made) \in Nat /\ Cardinality(Unmade) \in Nat
        /\ requests \in 0..MaxRequests
    BY <1>3, FS_CardinalityType DEF RequestOK
  <1>5. Cardinality(Unmade) # 0
    BY <1>2, <1>3, FS_EmptySet
  <1>6. Cardinality(made) + 1 \in EnvId
    BY <1>3, <1>4, <1>5 DEF EnvId
  <1>7. new \notin made
    BY <1>3, <1>4
  <1>8. Others(c) /\ pc'[c] = "debit" /\ mine'[c] = Cardinality(made) + 1
    BY <1>1 DEF RequestOK, Advance, Others
  <1>9. ClientOK(c)'
    BY <1>1, <1>2, <1>6, <1>8 DEF ClientOK, Early
  <1>10. RequestOK'
    BY <1>1, <1>6, <1>8, <1>9, OthersOK DEF RequestOK, Advance, Pcs
  <1>11. CountOK'
    <2>1. IsFiniteSet(made') /\ Cardinality(made') = Cardinality(made) + 1
      BY <1>1, <1>3, <1>7, FS_AddElement
    <2>2. Unmade' = Unmade \ {c}
      BY <1>2, <1>6, <1>8 DEF Unmade, Others, EnvId
    <2>3. IsFiniteSet(Unmade') /\ Cardinality(Unmade') = Cardinality(Unmade) - 1
      BY <1>2, <1>3, <2>2, FS_RemoveElement
    <2>4. \A m \in made' : m.id <= Cardinality(made')
      BY <1>1, <1>3, <1>4, <2>1 DEF ResultOK, EnvId
    <2>5. \A m, n \in made' : m.id = n.id => m = n
      BY <1>1, <1>3, <1>4 DEF ResultOK, EnvId
    <2>6. Cardinality(made') + Cardinality(Unmade') <= requests'
      BY <1>1, <1>3, <1>4, <2>1, <2>3
    <2> QED BY <2>1, <2>3, <2>4, <2>5, <2>6 DEF CountOK
  <1>12. new \in [id : EnvId, door : Door, payload : Payload \cup {None}]
    BY <1>1, <1>2, <1>6 DEF ClientOK, RequestOK
  <1>13. made' \subseteq [id : EnvId, door : Door, payload : Payload \cup {None}]
    BY <1>1, <1>12 DEF ResultOK
  <1> QED BY <1>1, <1>10, <1>11, <1>13 DEF StoreOK, ResultOK, moneyVars, recordVars

LEMMA TypeCreate ==
  ASSUME TypeInv, NEW c \in Client, Gate(c) \/ Debit(c) \/ Throw(c)
  PROVE  TypeInv'
  <1> USE CreationAssumption DEF TypeInv, Pcs
  <1>0. ClientOK(c) /\ mine[c] \in {0} \cup EnvId
    BY DEF RequestOK
  <1>1. CASE Gate(c)
    <2>1. RequestOK' /\ CountOK'
      BY <1>0, <1>1, Move, CountFrame DEF Gate, ClientOK, Early, resultVars, requestVars
    <2> QED BY <1>1, <2>1 DEF Gate, StoreOK, ResultOK, moneyVars, recordVars, resultVars
  <1>2. CASE Debit(c)
    <2>1. RequestOK' /\ CountOK'
      BY <1>0, <1>2, Move, CountFrame DEF Debit, ClientOK, Early, resultVars, requestVars
    <2>2. mine[c] \in EnvId
      BY <1>0, <1>2 DEF Debit, ClientOK
    <2>3. balance' \in Nat /\ ledger' \subseteq LedgerRow
      BY <1>2, <2>2, TypeDebit DEF Debit, StoreOK, moneyVars
    <2>4. failures' \in 0..MaxFailures
      BY <1>2 DEF Debit, Failure, StoreOK
    <2> QED BY <1>2, <2>1, <2>3, <2>4 DEF Debit, StoreOK, ResultOK, recordVars, resultVars
  <1>3. CASE Throw(c)
    <2>1. orphans \subseteq orphans' /\ orphans' \subseteq EnvId
          /\ (mine[c] = 0 \/ mine[c] \in orphans')
      BY <1>0, <1>3 DEF Throw, Lost, ResultOK
    <2>2. RequestOK' /\ CountOK'
      BY <1>0, <1>3, <2>1, Move, CountFrame DEF Throw, ClientOK, Early, requestVars
    <2>3. failures' \in 0..MaxFailures
      BY <1>3 DEF Throw, Failure, StoreOK
    <2> QED BY <1>3, <2>1, <2>2, <2>3 DEF Throw, StoreOK, ResultOK, moneyVars, recordVars
  <1> QED BY <1>1, <1>2, <1>3

(* How a create ends. *)
LEMMA TypeEnd ==
  ASSUME TypeInv, NEW c \in Client, Finish(c) \/ Release(c) \/ Die(c)
  PROVE  TypeInv'
  <1> USE CreationAssumption DEF TypeInv
  <1>0. ClientOK(c) /\ mine[c] \in {0} \cup EnvId
    BY DEF RequestOK
  <1>1. orphans \subseteq orphans' /\ orphans' \subseteq EnvId
    BY <1>0 DEF Finish, Release, Die, Lost, resultVars, ResultOK
  <1>2. RequestOK' /\ CountOK'
    BY <1>1, LeaveMoves, CountFrame DEF Finish, Release, Die, resultVars
  <1>3. failures' \in 0..MaxFailures
    BY DEF Finish, Release, Die, Failure, StoreOK
  <1>4. CASE Finish(c)
    <2>1. door[c] \in Door /\ payload[c] \in Payload \cup {None}
      BY <1>0, <1>4 DEF Finish, ClientOK, RequestOK
    <2>2. answers' \subseteq [door : Door, payload : Payload \cup {None}, env : {0} \cup EnvId]
      BY <1>0, <1>4, <2>1 DEF Finish, ResultOK
    <2>3. draft' \in [Draft -> DraftRow]
      <3>1. draft \in [Draft -> DraftRow]
        BY DEF StoreOK
      <3>2. \/ draft' = draft
            \/ door[c] \in Draft /\ draft' = [draft EXCEPT ![door[c]].env = mine[c]]
        BY <1>4 DEF Finish
      <3> QED BY <1>0, <3>1, <3>2, DraftAnswered
    <2>4. row' \in [Key \cup Payment -> [payload : Payload \cup {None}, env : {0} \cup EnvId]]
      BY <1>0, <1>4 DEF Finish, StoreOK
    <2> QED BY <1>1, <1>2, <1>3, <1>4, <2>2, <2>3, <2>4
        DEF Finish, StoreOK, ResultOK, moneyVars
  <1>5. CASE Release(c)
    <2>1. draft' \in [Draft -> DraftRow]
      <3>1. (draft[door[c]].env # 0) \in BOOLEAN
        OBVIOUS
      <3>2. draft \in [Draft -> DraftRow]
        BY DEF StoreOK
      <3>3. \/ draft' = draft
            \/ /\ door[c] \in Draft
               /\ draft' = [draft EXCEPT ![door[c]].claimed = draft[door[c]].env # 0]
        BY <1>5 DEF Release
      <3>4. CASE draft' = draft
        BY <3>2, <3>4
      <3>5. CASE draft' # draft
        <4>1. PICK d \in Draft, b \in BOOLEAN : draft' = [draft EXCEPT ![d].claimed = b]
          BY <3>1, <3>3, <3>5, Zenon
        <4> QED BY <3>2, <4>1, DraftClaimed
      <3> QED BY <3>4, <3>5
    <2>2. row' \in [Key \cup Payment -> [payload : Payload \cup {None}, env : {0} \cup EnvId]]
      BY <1>5 DEF Release, StoreOK, NoRow
    <2> QED BY <1>1, <1>2, <1>3, <1>5, <2>1, <2>2
        DEF Release, StoreOK, ResultOK, moneyVars, resultVars
  <1>6. CASE Die(c)
    BY <1>1, <1>2, <1>3, <1>6 DEF Die, StoreOK, ResultOK, moneyVars, recordVars
  <1> QED BY <1>4, <1>5, <1>6

LEMMA NextType == TypeInv /\ [Next]_vars => TypeInv'
  <1> SUFFICES ASSUME TypeInv, [Next]_vars PROVE TypeInv'
    OBVIOUS
  <1>1. CASE UNCHANGED vars
    BY <1>1
    DEF vars, TypeInv, RequestOK, ClientOK, StoreOK, ResultOK, CountOK, Unmade,
        moneyVars, recordVars, resultVars, requestVars
  <1>2. CASE Next
    BY <1>2, TypeWorld, TypeArrive, TypeReserve, TypeLosers, TypeInsert, TypeCreate,
       TypeEnd DEF Next
  <1> QED BY <1>1, <1>2

(* Every variable keeps its type (Creation's TypeOK), whoever asks for what *)
(* and fails where: above all no account is overdrawn (debitUser).          *)
THEOREM TypeCorrect == Spec => []TypeOK
  <1>1. TypeInv => TypeOK
    BY DEF TypeInv, RequestOK, StoreOK, DraftRow, ResultOK, LedgerRow, TypeOK
  <1> QED BY <1>1, InitType, NextType, PTL DEF Spec

-----------------------------------------------------------------------------
(***************************************************************************)
(* The balance is the ledger: each way to change one changes the other.    *)
(***************************************************************************)
LedgerInv == IsFiniteSet(ledger) /\ BalanceIsLedger

Of(source) == {x \in ledger : x[1] = source}

LEMMA EntriesAreNatural ==
  ASSUME IsFiniteSet(ledger), NEW source
  PROVE  IsFiniteSet(Of(source)) /\ Entries(source) = Cardinality(Of(source))
         /\ Entries(source) \in Nat
  <1>1. Of(source) \in SUBSET ledger
    BY DEF Of
  <1>2. IsFiniteSet(Of(source))
    BY <1>1, FS_Subset
  <1> QED BY <1>2, FS_CardinalityType DEF Entries, Of

(* A new row counts for its own source only. *)
LEMMA NewEntry ==
  ASSUME IsFiniteSet(ledger), NEW source, NEW ref,
         <<source, ref>> \notin ledger, ledger' = ledger \cup {<<source, ref>>}
  PROVE  /\ IsFiniteSet(ledger')
         /\ Entries(source)' = Entries(source) + 1
         /\ \A other : other # source => Entries(other)' = Entries(other)
  <1>1. IsFiniteSet(ledger')
    BY FS_AddElement
  <1>2. Of(source)' = Of(source) \cup {<<source, ref>>} /\ <<source, ref>> \notin Of(source)
    BY DEF Of
  <1>3. Cardinality(Of(source)') = Cardinality(Of(source)) + 1
    <2>1. IsFiniteSet(Of(source))
      BY EntriesAreNatural
    <2> QED BY <1>2, <2>1, FS_AddElement
  <1>4. ASSUME NEW other, other # source PROVE Of(other)' = Of(other)
    BY <1>4 DEF Of
  <1> QED BY <1>1, <1>3, <1>4 DEF Entries, Of

LEMMA LedgerCredit ==
  ASSUME StoreOK, LedgerInv, NEW source \in {"signup_grant", "x402", "refund"}, NEW ref,
         Credit(source, ref, IF source = "signup_grant" THEN Grant ELSE 1)
  PROVE  LedgerInv'
  <1>1. CASE <<source, ref>> \in ledger
    <2>1. ledger' = ledger /\ balance' = balance
      BY <1>1 DEF Credit
    <2> QED BY <2>1 DEF LedgerInv, BalanceIsLedger, Entries
  <1>2. CASE <<source, ref>> \notin ledger
    <2>1. /\ ledger' = ledger \cup {<<source, ref>>}
          /\ balance' = balance + (IF source = "signup_grant" THEN Grant ELSE 1)
      BY <1>2 DEF Credit
    <2>2. /\ IsFiniteSet(ledger')
          /\ Entries(source)' = Entries(source) + 1
          /\ \A other : other # source => Entries(other)' = Entries(other)
      BY <1>2, <2>1, NewEntry DEF LedgerInv
    <2>3. /\ Entries("signup_grant") \in Nat /\ Entries("x402") \in Nat
          /\ Entries("refund") \in Nat /\ Entries("envelope") \in Nat
      BY EntriesAreNatural DEF LedgerInv
    <2>4. Grant * (Entries("signup_grant") + 1) = Grant * Entries("signup_grant") + Grant
      BY <2>3, CreationAssumption
    <2>5. Grant * Entries("signup_grant") \in Nat /\ Grant \in Nat /\ balance \in Nat
      BY <2>3, CreationAssumption DEF StoreOK
    <2>6. BalanceIsLedger'
      <3>1. CASE source = "signup_grant"
        BY <2>1, <2>2, <2>3, <2>4, <2>5, <3>1 DEF LedgerInv, BalanceIsLedger
      <3>2. CASE source = "x402"
        BY <2>1, <2>2, <2>3, <2>5, <3>2 DEF LedgerInv, BalanceIsLedger
      <3>3. CASE source = "refund"
        BY <2>1, <2>2, <2>3, <2>5, <3>3 DEF LedgerInv, BalanceIsLedger
      <3> QED BY <3>1, <3>2, <3>3
    <2> QED BY <2>2, <2>6 DEF LedgerInv
  <1> QED BY <1>1, <1>2

LEMMA LedgerDebit ==
  ASSUME StoreOK, LedgerInv, NEW env, DebitUser(env)
  PROVE  LedgerInv'
  <1>1. CASE UNCHANGED moneyVars
    BY <1>1 DEF moneyVars, LedgerInv, BalanceIsLedger, Entries
  <1>2. CASE ~UNCHANGED moneyVars
    <2>1. /\ <<"envelope", env>> \notin ledger
          /\ ledger' = ledger \cup {<<"envelope", env>>}
          /\ balance' = balance - 1
      BY <1>2 DEF DebitUser
    <2>2. /\ IsFiniteSet(ledger')
          /\ Entries("envelope")' = Entries("envelope") + 1
          /\ \A other : other # "envelope" => Entries(other)' = Entries(other)
      BY <2>1, NewEntry DEF LedgerInv
    <2>3. /\ Entries("signup_grant") \in Nat /\ Entries("x402") \in Nat
          /\ Entries("refund") \in Nat /\ Entries("envelope") \in Nat
      BY EntriesAreNatural DEF LedgerInv
    <2>4. Grant * Entries("signup_grant") \in Nat /\ balance \in Nat
      BY <2>3, CreationAssumption DEF StoreOK
    <2> QED BY <2>1, <2>2, <2>3, <2>4 DEF LedgerInv, BalanceIsLedger
  <1> QED BY <1>1, <1>2

LEMMA InitLedger == Init => LedgerInv
  <1> SUFFICES ASSUME Init PROVE LedgerInv
    OBVIOUS
  <1>1. \A source : Of(source) = {}
    BY DEF Init, Of
  <1>2. \A source : Entries(source) = 0
    BY <1>1, FS_EmptySet DEF Entries, Of
  <1> QED BY <1>2, FS_EmptySet, CreationAssumption DEF Init, LedgerInv, BalanceIsLedger

LEMMA NextLedger == TypeInv /\ LedgerInv /\ [Next]_vars => LedgerInv'
  <1> SUFFICES ASSUME TypeInv, LedgerInv, [Next]_vars PROVE LedgerInv'
    OBVIOUS
  <1>0. StoreOK
    BY DEF TypeInv
  <1>1. CASE UNCHANGED moneyVars
    BY <1>1 DEF moneyVars, LedgerInv, BalanceIsLedger, Entries
  <1>2. CASE SignIn
    BY <1>0, <1>2, LedgerCredit DEF SignIn
  <1>3. ASSUME NEW env \in EnvId, Void(env) PROVE LedgerInv'
    BY <1>0, <1>1, <1>3, LedgerCredit DEF Void
  <1>4. ASSUME NEW c \in Client, CreditPayment(c) PROVE LedgerInv'
    BY <1>0, <1>4, LedgerCredit DEF CreditPayment
  <1>5. ASSUME NEW c \in Client, Debit(c) PROVE LedgerInv'
    BY <1>0, <1>1, <1>5, LedgerDebit DEF Debit
  <1>6. \/ UNCHANGED moneyVars \/ SignIn \/ \E env \in EnvId : Void(env)
        \/ \E c \in Client : CreditPayment(c) \/ Debit(c)
    BY DEF Next, SweepDraft, Arrive, Reserve, Look, Claim, Lose, Gate, InsertEnvelope,
           Finish, Throw, Release, Die, vars
  <1> QED BY <1>1, <1>2, <1>3, <1>4, <1>5, <1>6

(* The balance is what the ledger says (Creation's BalanceIsLedger), for    *)
(* any number of redelivered credits, overlapping debits and refunds.       *)
THEOREM MoneyIsLedger == Spec => []BalanceIsLedger
  <1>1. LedgerInv => BalanceIsLedger
    BY DEF LedgerInv
  <1>2. TypeInv /\ LedgerInv /\ [Next]_vars => (TypeInv /\ LedgerInv)'
    BY NextType, NextLedger
  <1> QED BY <1>1, <1>2, InitType, InitLedger, PTL DEF Spec

-----------------------------------------------------------------------------
(***************************************************************************)
(* One door, one envelope.  A door is taken by one client at a time, who   *)
(* alone may answer it or give it back; what it has made before that is in *)
(* its hands, or is an orphan, and what is answered stays answered.        *)
(***************************************************************************)
EnvOf(d) == IF d \in Draft THEN draft[d].env ELSE row[d].env
Taken(d) == IF d \in Draft THEN draft[d].claimed ELSE row[d].payload # None
Asked(d) == IF d \in Draft THEN None ELSE row[d].payload

Holds(c) == pc[c] \in {"gate", "insert", "debit", "finish", "release"}
Made(c)  == pc[c] \in {"debit", "finish"}

HolderInv ==
  /\ \A c \in Client : Holds(c) =>
       Taken(door[c]) /\ EnvOf(door[c]) = 0 /\ Asked(door[c]) = payload[c]
  /\ \A b, c \in Client : Holds(b) /\ Holds(c) /\ door[b] = door[c] => b = c

MadeInv ==
  /\ \A d \in Door : EnvOf(d) # 0 =>
       Taken(d) /\ [id |-> EnvOf(d), door |-> d, payload |-> Asked(d)] \in made
  /\ \A c \in Client : Made(c) =>
       [id |-> mine[c], door |-> door[c], payload |-> payload[c]] \in made
  /\ \A m \in made : \/ m.id \in orphans
                     \/ EnvOf(m.door) = m.id
                     \/ \E c \in Client : Made(c) /\ door[c] = m.door /\ mine[c] = m.id

AnswerInv ==
  \A x \in answers : x.env # 0 => EnvOf(x.door) = x.env /\ Asked(x.door) = x.payload

DoorInv == HolderInv /\ MadeInv /\ AnswerInv

LEMMA InitDoor == Init => DoorInv
  <1> SUFFICES ASSUME Init PROVE DoorInv
    OBVIOUS
  <1>1. \A c \in Client : ~Holds(c) /\ ~Made(c)
    BY DEF Init, Holds, Made
  <1>2. \A d \in Door : EnvOf(d) = 0
    BY DEF Init, EnvOf, Door, NoRow
  <1>3. made = {} /\ answers = {}
    BY DEF Init
  <1> QED BY <1>1, <1>2, <1>3 DEF DoorInv, HolderInv, MadeInv, AnswerInv

(* A step that takes, answers or gives back no door, and makes nothing.    *)
SameDoors ==
  \A d \in Door : EnvOf(d)' = EnvOf(d) /\ Taken(d)' = Taken(d) /\ Asked(d)' = Asked(d)

LEMMA KeepDoors ==
  ASSUME TypeInv, TypeInv', DoorInv, SameDoors, UNCHANGED made, orphans \subseteq orphans',
         \A x \in Client : Holds(x)' =>
           Holds(x) /\ door'[x] = door[x] /\ payload'[x] = payload[x],
         \A x \in Client : Made(x)' => Made(x) /\ mine'[x] = mine[x],
         \A x \in Client : Made(x) =>
           \/ Made(x)' /\ door'[x] = door[x] /\ mine'[x] = mine[x]
           \/ mine[x] \in orphans',
         \A x \in answers' \ answers : x.env # 0 =>
           EnvOf(x.door) = x.env /\ Asked(x.door) = x.payload
  PROVE  DoorInv'
  <1>1. /\ \A x \in Client : Holds(x) => door[x] \in Door
        /\ \A x \in Client : Made(x) => Holds(x)
        /\ \A m \in made : m.door \in Door
        /\ \A x \in answers' : x.door \in Door
    BY DEF TypeInv, RequestOK, ClientOK, ResultOK, Holds, Made
  <1>2. \A x \in Client : Made(x)' => Holds(x)'
    BY DEF Holds, Made
  <1>3. HolderInv'
    <2>1. ASSUME NEW x \in Client, Holds(x)'
          PROVE  Taken(door[x])' /\ EnvOf(door[x])' = 0 /\ Asked(door[x])' = payload'[x]
      <3>1. Holds(x) /\ door'[x] = door[x] /\ payload'[x] = payload[x] /\ door[x] \in Door
        BY <1>1, <2>1
      <3>2. Taken(door[x]) /\ EnvOf(door[x]) = 0 /\ Asked(door[x]) = payload[x]
        BY <3>1 DEF DoorInv, HolderInv
      <3> QED BY <3>1, <3>2 DEF SameDoors, EnvOf, Taken, Asked
    <2>2. ASSUME NEW x \in Client, NEW y \in Client, Holds(x)', Holds(y)', door'[x] = door'[y]
          PROVE  x = y
      BY <2>2 DEF DoorInv, HolderInv
    <2> QED BY <2>1, <2>2 DEF HolderInv
  <1>4. MadeInv'
    <2>1. ASSUME NEW d \in Door, EnvOf(d)' # 0
          PROVE  /\ Taken(d)'
                 /\ [id |-> EnvOf(d)', door |-> d, payload |-> Asked(d)'] \in made'
      BY <2>1 DEF DoorInv, MadeInv, SameDoors
    <2>2. ASSUME NEW x \in Client, Made(x)'
          PROVE  [id |-> mine'[x], door |-> door'[x], payload |-> payload'[x]] \in made'
      BY <1>2, <2>2 DEF DoorInv, MadeInv
    <2>3. ASSUME NEW m \in made'
          PROVE  \/ m.id \in orphans'
                 \/ EnvOf(m.door)' = m.id
                 \/ \E x \in Client : Made(x)' /\ door'[x] = m.door /\ mine'[x] = m.id
      <3>1. \/ m.id \in orphans
            \/ EnvOf(m.door) = m.id
            \/ \E x \in Client : Made(x) /\ door[x] = m.door /\ mine[x] = m.id
        BY <2>3 DEF DoorInv, MadeInv
      <3>2. EnvOf(m.door)' = EnvOf(m.door)
        BY <1>1, <2>3 DEF SameDoors
      <3> QED BY <3>1, <3>2
    <2> QED BY <2>1, <2>2, <2>3 DEF MadeInv
  <1>5. AnswerInv'
    <2>1. ASSUME NEW x \in answers', x.env # 0
          PROVE  EnvOf(x.door)' = x.env /\ Asked(x.door)' = x.payload
      <3>1. EnvOf(x.door) = x.env /\ Asked(x.door) = x.payload
        BY <2>1 DEF DoorInv, AnswerInv
      <3> QED BY <1>1, <3>1 DEF SameDoors
    <2> QED BY <2>1 DEF AnswerInv
  <1> QED BY <1>3, <1>4, <1>5 DEF DoorInv

LEMMA OneMoves ==
  ASSUME TypeInv, TypeInv', DoorInv, UNCHANGED <<recordVars, made>>,
         orphans \subseteq orphans', NEW c \in Client, Others(c),
         Holds(c)' => Holds(c) /\ door'[c] = door[c] /\ payload'[c] = payload[c],
         Made(c)' => Made(c) /\ mine'[c] = mine[c],
         Made(c) => \/ Made(c)' /\ door'[c] = door[c] /\ mine'[c] = mine[c]
                    \/ mine[c] \in orphans',
         \A x \in answers' \ answers : x.env # 0 =>
           EnvOf(x.door) = x.env /\ Asked(x.door) = x.payload
  PROVE  DoorInv'
  <1>1. SameDoors
    BY DEF SameDoors, EnvOf, Taken, Asked, recordVars
  <1>2. \A x \in Client \ {c} :
          /\ Holds(x)' <=> Holds(x)
          /\ Made(x)' <=> Made(x)
          /\ door'[x] = door[x] /\ payload'[x] = payload[x] /\ mine'[x] = mine[x]
    BY DEF Others, Holds, Made
  <1>3. \A x \in Client : Holds(x)' =>
          Holds(x) /\ door'[x] = door[x] /\ payload'[x] = payload[x]
    BY <1>2
  <1>4. \A x \in Client : Made(x)' => Made(x) /\ mine'[x] = mine[x]
    BY <1>2
  <1>5. \A x \in Client : Made(x) =>
          \/ Made(x)' /\ door'[x] = door[x] /\ mine'[x] = mine[x]
          \/ mine[x] \in orphans'
    BY <1>2
  <1> QED BY <1>1, <1>3, <1>4, <1>5, KeepDoors

(* Steps that leave every door as it is. *)
LEMMA DoorQuiet ==
  ASSUME TypeInv, TypeInv', DoorInv, NEW c \in Client,
         \/ Arrive(c) \/ CreditPayment(c) \/ Look(c) \/ Lose(c) \/ Gate(c)
         \/ Debit(c) \/ Throw(c) \/ Die(c)
  PROVE  DoorInv'
  <1>0. RequestOK /\ ClientOK(c)
    BY DEF TypeInv, RequestOK
  <1> USE DEF Pcs
  <1>1. CASE Arrive(c)
    <2>1. Others(c) /\ pc'[c] \in {"reserve", "credit", "claim"} /\ pc[c] = "idle"
      BY <1>0, <1>1 DEF Arrive, Advance, RequestOK, Others, Door
    <2>2. ~Holds(c)' /\ ~Made(c)' /\ ~Made(c)
      BY <2>1 DEF Holds, Made
    <2> QED BY <1>1, <2>1, <2>2, OneMoves DEF Arrive, resultVars
  <1>2. CASE CreditPayment(c)
    <2>1. Others(c) /\ pc'[c] = "reserve" /\ pc[c] = "credit"
      BY <1>0, <1>2, Move DEF CreditPayment, resultVars
    <2>2. ~Holds(c)' /\ ~Made(c)' /\ ~Made(c)
      BY <2>1 DEF Holds, Made
    <2> QED BY <1>2, <2>1, <2>2, OneMoves DEF CreditPayment, resultVars
  <1>3. CASE Look(c)
    <2> DEFINE r == row[door[c]]
    <2>1. Others(c) /\ pc'[c] \in {"reserve", "idle"} /\ pc[c] = "look"
      BY <1>0, <1>3, LeaveMoves DEF Look, Advance, RequestOK, Others
    <2>2. ~Holds(c)' /\ ~Made(c)' /\ ~Made(c)
      BY <2>1 DEF Holds, Made
    <2>3. door[c] \notin Draft
      BY <1>0, <2>1, CreationAssumption DEF ClientOK
    <2>4. answers' \subseteq answers \cup
             {[door |-> door[c], payload |-> r.payload, env |-> r.env]}
      BY <1>3 DEF Look
    <2>5. \A x \in answers' \ answers : x.env # 0 =>
            EnvOf(x.door) = x.env /\ Asked(x.door) = x.payload
      BY <2>3, <2>4 DEF EnvOf, Asked
    <2> QED BY <1>3, <2>1, <2>2, <2>5, OneMoves DEF Look
  <1>4. CASE Lose(c)
    <2>1. Others(c) /\ pc'[c] = "idle" /\ pc[c] = "losing"
      BY <1>0, <1>4, LeaveMoves DEF Lose
    <2>2. ~Holds(c)' /\ ~Made(c)' /\ ~Made(c)
      BY <2>1 DEF Holds, Made
    <2>3. door[c] \in Draft
      BY <1>0, <2>1 DEF ClientOK
    <2>4. answers' \subseteq answers \cup
             {[door |-> door[c], payload |-> None, env |-> draft[door[c]].env]}
      BY <1>4 DEF Lose
    <2>5. \A x \in answers' \ answers : x.env # 0 =>
            EnvOf(x.door) = x.env /\ Asked(x.door) = x.payload
      BY <2>3, <2>4 DEF EnvOf, Asked
    <2> QED BY <1>4, <2>1, <2>2, <2>5, OneMoves DEF Lose
  <1>5. CASE Gate(c)
    <2>1. Others(c) /\ pc'[c] \in {"release", "insert"} /\ pc[c] = "gate"
      BY <1>0, <1>5, Move DEF Gate, resultVars
    <2>2. Holds(c) /\ ~Made(c)' /\ ~Made(c)
      BY <2>1 DEF Holds, Made
    <2> QED BY <1>5, <2>1, <2>2, OneMoves DEF Gate, resultVars, requestVars
  <1>6. CASE Debit(c)
    <2>1. Others(c) /\ pc'[c] = "finish" /\ pc[c] = "debit"
      BY <1>0, <1>6, Move DEF Debit, resultVars
    <2>2. Holds(c) /\ Made(c)' /\ Made(c)
      BY <2>1 DEF Holds, Made
    <2> QED BY <1>6, <2>1, <2>2, OneMoves DEF Debit, resultVars, requestVars
  <1>7. CASE Throw(c)
    <2>1. orphans' = orphans \cup Lost(c)
      BY <1>7 DEF Throw
    <2>2. Others(c) /\ pc'[c] = "release" /\ pc[c] \in {"gate", "insert", "debit", "finish"}
      BY <1>0, <1>7, <2>1, Move DEF Throw
    <2>3. Holds(c) /\ ~Made(c)' /\ (Made(c) => mine[c] \in orphans')
      BY <1>0, <2>1, <2>2 DEF Holds, Made, ClientOK, EnvId, Lost
    <2> QED BY <1>7, <2>1, <2>2, <2>3, OneMoves DEF Throw, requestVars
  <1>8. CASE Die(c)
    <2>1. orphans' = orphans \cup Lost(c)
      BY <1>8 DEF Die
    <2>2. Others(c) /\ pc'[c] = "idle"
      BY <1>0, <1>8, <2>1, LeaveMoves DEF Die
    <2>3. ~Holds(c)' /\ ~Made(c)' /\ (Made(c) => mine[c] \in orphans')
      BY <1>0, <2>1, <2>2 DEF Holds, Made, ClientOK, EnvId, Lost
    <2> QED BY <1>8, <2>1, <2>2, <2>3, OneMoves DEF Die
  <1> QED BY <1>1, <1>2, <1>3, <1>4, <1>5, <1>6, <1>7, <1>8

LEMMA DoorWorld ==
  ASSUME TypeInv, TypeInv', DoorInv,
         SignIn \/ (\E env \in EnvId : Void(env)) \/ (\E d \in Draft : SweepDraft(d))
  PROVE  DoorInv'
  <1>1. UNCHANGED <<pc, requestVars, made, orphans, answers>>
    BY DEF SignIn, Void, SweepDraft, resultVars
  <1>2. SameDoors
    <2>1. CASE UNCHANGED recordVars
      BY <2>1 DEF SameDoors, EnvOf, Taken, Asked, recordVars
    <2>2. ASSUME NEW d \in Draft, SweepDraft(d) PROVE SameDoors
      <3>1. \A e \in Draft : draft'[e].env = draft[e].env
                             /\ draft'[e].claimed = draft[e].claimed
        BY <2>2 DEF SweepDraft, TypeInv, StoreOK, DraftRow
      <3> QED BY <2>2, <3>1 DEF SweepDraft, SameDoors, EnvOf, Taken, Asked
    <2> QED BY <2>1, <2>2 DEF SignIn, Void
  <1>3. \A x \in Client : /\ Holds(x)' = Holds(x) /\ Made(x)' = Made(x)
                          /\ door'[x] = door[x] /\ payload'[x] = payload[x]
                          /\ mine'[x] = mine[x]
    BY <1>1 DEF Holds, Made, requestVars
  <1> QED BY <1>1, <1>2, <1>3, KeepDoors

(* Doors other than e, and clients other than c, stay as they are. *)
OtherDoors(e) ==
  \A d \in Door \ {e} :
    EnvOf(d)' = EnvOf(d) /\ Taken(d)' = Taken(d) /\ Asked(d)' = Asked(d)

LEMMA OthersHold ==
  ASSUME NEW c \in Client, Others(c)
  PROVE  \A x \in Client \ {c} :
           /\ Holds(x)' <=> Holds(x)
           /\ Made(x)' <=> Made(x)
           /\ door'[x] = door[x] /\ payload'[x] = payload[x] /\ mine'[x] = mine[x]
  BY DEF Others, Holds, Made

LEMMA InDoor ==
  ASSUME TypeInv
  PROVE  /\ \A x \in Client : Holds(x) => door[x] \in Door
         /\ \A x \in Client : Made(x) => Holds(x)
         /\ \A m \in made : m.door \in Door /\ m.id # 0
         /\ \A x \in answers : x.door \in Door
  BY DEF TypeInv, RequestOK, ClientOK, ResultOK, Holds, Made, EnvId

(* A client takes a door that nobody has. *)
LEMMA TakeDoor ==
  ASSUME TypeInv, DoorInv, UNCHANGED <<made, orphans, answers>>,
         NEW c \in Client, Others(c), NEW e \in Door, door[c] = e, door'[c] = e,
         payload'[c] = payload[c], ~Holds(c), pc'[c] = "gate",
         ~Taken(e), EnvOf(e)' = 0, Taken(e)', Asked(e)' = payload[c], OtherDoors(e)
  PROVE  DoorInv'
  <1>1. EnvOf(e) = 0 /\ \A x \in Client : Holds(x) => door[x] # e
    BY DEF DoorInv, HolderInv, MadeInv
  <1>2. Holds(c)' /\ ~Made(c)' /\ ~Made(c)
    BY DEF Holds, Made
  <1>3. HolderInv'
    <2>1. ASSUME NEW x \in Client, Holds(x)'
          PROVE  Taken(door[x])' /\ EnvOf(door[x])' = 0 /\ Asked(door[x])' = payload'[x]
      <3>1. CASE x = c
        BY <3>1 DEF Taken, EnvOf, Asked
      <3>2. CASE x # c
        <4>1. Holds(x) /\ door'[x] = door[x] /\ payload'[x] = payload[x]
              /\ door[x] \in Door \ {e}
          BY <1>1, <2>1, <3>2, OthersHold, InDoor
        <4>2. Taken(door[x]) /\ EnvOf(door[x]) = 0 /\ Asked(door[x]) = payload[x]
          BY <4>1 DEF DoorInv, HolderInv
        <4> QED BY <4>1, <4>2 DEF OtherDoors, EnvOf, Taken, Asked
      <3> QED BY <3>1, <3>2
    <2>2. ASSUME NEW x \in Client, NEW y \in Client, Holds(x)', Holds(y)', door'[x] = door'[y]
          PROVE  x = y
      BY <1>1, <2>2, OthersHold DEF DoorInv, HolderInv
    <2> QED BY <2>1, <2>2 DEF HolderInv
  <1>4. MadeInv'
    <2>1. ASSUME NEW d \in Door, EnvOf(d)' # 0
          PROVE  /\ Taken(d)'
                 /\ [id |-> EnvOf(d)', door |-> d, payload |-> Asked(d)'] \in made'
      BY <2>1 DEF DoorInv, MadeInv, OtherDoors
    <2>2. ASSUME NEW x \in Client, Made(x)'
          PROVE  [id |-> mine'[x], door |-> door'[x], payload |-> payload'[x]] \in made'
      BY <1>2, <2>2, OthersHold DEF DoorInv, MadeInv
    <2>3. ASSUME NEW m \in made'
          PROVE  \/ m.id \in orphans'
                 \/ EnvOf(m.door)' = m.id
                 \/ \E x \in Client : Made(x)' /\ door'[x] = m.door /\ mine'[x] = m.id
      <3>1. \/ m.id \in orphans
            \/ EnvOf(m.door) = m.id
            \/ \E x \in Client : Made(x) /\ door[x] = m.door /\ mine[x] = m.id
        BY <2>3 DEF DoorInv, MadeInv
      <3>2. EnvOf(m.door)' = EnvOf(m.door)
        BY <1>1, <2>3, InDoor DEF OtherDoors
      <3> QED BY <1>2, <3>1, <3>2, OthersHold
    <2> QED BY <2>1, <2>2, <2>3 DEF MadeInv
  <1>5. AnswerInv'
    <2>1. ASSUME NEW x \in answers', x.env # 0
          PROVE  EnvOf(x.door)' = x.env /\ Asked(x.door)' = x.payload
      <3>1. EnvOf(x.door) = x.env /\ Asked(x.door) = x.payload
        BY <2>1 DEF DoorInv, AnswerInv
      <3> QED BY <1>1, <2>1, <3>1, InDoor DEF OtherDoors
    <2> QED BY <2>1 DEF AnswerInv
  <1> QED BY <1>3, <1>4, <1>5 DEF DoorInv

LEMMA PayloadTaken ==
  ASSUME NEW P, NEW E, NEW r \in [payload : P, env : E], NEW q
  PROVE  [r EXCEPT !.payload = q].payload = q /\ [r EXCEPT !.payload = q].env = r.env
  OBVIOUS

LEMMA DoorTaken ==
  ASSUME TypeInv, TypeInv', DoorInv, NEW c \in Client, Reserve(c) \/ Claim(c)
  PROVE  DoorInv'
  <1> USE CreationAssumption DEF Pcs
  <1>0. RequestOK /\ ClientOK(c) /\ StoreOK
    BY DEF TypeInv, RequestOK
  <1>1. CASE Reserve(c)
    <2>1. door[c] \in Door /\ door[c] \in Key \cup Payment /\ door[c] \notin Draft
          /\ payload[c] \in Payload
      BY <1>0, <1>1 DEF Reserve, ClientOK, Door
    <2>2. Others(c) /\ pc[c] = "reserve" /\ pc'[c] \in {"gate", "look"}
      BY <1>0, <1>1, Move DEF Reserve, resultVars
    <2>3. CASE row[door[c]] = NoRow
      <3>1. pc'[c] = "gate" /\ row' = [row EXCEPT ![door[c]].payload = payload[c]]
        BY <1>0, <1>1, <2>3, Move DEF Reserve, resultVars
      <3>2. ~Taken(door[c]) /\ ~Holds(c) /\ door' = door /\ payload' = payload
        BY <1>1, <2>1, <2>2, <2>3 DEF Taken, Holds, NoRow, Reserve, requestVars
      <3>3. \A d \in Key \cup Payment : row'[d] =
              IF d = door[c] THEN [row[d] EXCEPT !.payload = payload[c]] ELSE row[d]
        BY <1>0, <3>1 DEF StoreOK
      <3>4. row'[door[c]].payload = payload[c] /\ row'[door[c]].env = 0
        <4>1. row[door[c]] \in [payload : Payload \cup {None}, env : {0} \cup EnvId]
          BY <1>0, <2>1 DEF StoreOK
        <4>2. row'[door[c]] = [row[door[c]] EXCEPT !.payload = payload[c]]
          BY <2>1, <3>3
        <4>3. row[door[c]].env = 0
          BY <2>3 DEF NoRow
        <4> QED BY <4>1, <4>2, <4>3, PayloadTaken
      <3>5. EnvOf(door[c])' = 0 /\ Taken(door[c])' /\ Asked(door[c])' = payload[c]
        BY <2>1, <3>2, <3>4 DEF EnvOf, Taken, Asked
      <3>6. OtherDoors(door[c])
        BY <1>1, <3>3 DEF OtherDoors, EnvOf, Taken, Asked, Reserve, Door
      <3>7. PICK e \in Door : e = door[c]
        BY <2>1
      <3>8. EnvOf(e)' = 0 /\ Taken(e)' /\ Asked(e)' = payload[c] /\ OtherDoors(e) /\ ~Taken(e)
        BY <3>2, <3>5, <3>6, <3>7 DEF EnvOf, Taken, Asked, OtherDoors
      <3> QED BY <1>1, <2>2, <3>1, <3>2, <3>7, <3>8, TakeDoor DEF Reserve, resultVars
    <2>4. CASE row[door[c]] # NoRow
      <3>1. pc'[c] = "look" /\ UNCHANGED row
        BY <1>0, <1>1, <2>4, Move DEF Reserve, resultVars
      <3>2. ~Holds(c)' /\ ~Made(c)' /\ ~Made(c)
        BY <2>2, <3>1 DEF Holds, Made
      <3> QED BY <1>1, <2>2, <3>1, <3>2, OneMoves DEF Reserve, resultVars, recordVars
    <2> QED BY <2>3, <2>4
  <1>2. CASE Claim(c)
    <2>1. door[c] \in Door /\ door[c] \in Draft /\ payload[c] = None
      BY <1>0, <1>2 DEF Claim, ClientOK, Door
    <2>2. Others(c) /\ pc[c] = "claim" /\ pc'[c] \in {"gate", "losing"}
      BY <1>0, <1>2, Move DEF Claim, resultVars
    <2>3. CASE ~draft[door[c]].claimed /\ ~draft[door[c]].gone
      <3>1. pc'[c] = "gate" /\ draft' = [draft EXCEPT ![door[c]].claimed = TRUE]
        BY <1>0, <1>2, <2>3, Move DEF Claim, resultVars
      <3>2. ~Taken(door[c]) /\ ~Holds(c) /\ door' = door /\ payload' = payload
        BY <1>2, <2>1, <2>2, <2>3 DEF Taken, Holds, Claim, requestVars
      <3>3. /\ \A d \in Draft \ {door[c]} : draft'[d] = draft[d]
            /\ draft'[door[c]].claimed /\ draft'[door[c]].env = draft[door[c]].env
        BY <1>0, <2>1, <3>1 DEF StoreOK, DraftRow
      <3>4. EnvOf(door[c]) = 0
        BY <2>1, <3>2 DEF DoorInv, MadeInv
      <3>7. PICK e \in Door : e = door[c]
        BY <2>1
      <3>5. EnvOf(e)' = 0 /\ Taken(e)' /\ Asked(e)' = payload[c] /\ ~Taken(e)
        BY <2>1, <3>2, <3>3, <3>4, <3>7 DEF EnvOf, Taken, Asked
      <3>6. OtherDoors(e)
        BY <1>2, <3>3, <3>7 DEF OtherDoors, EnvOf, Taken, Asked, Claim, Door
      <3> QED BY <1>2, <2>2, <3>1, <3>2, <3>5, <3>6, <3>7, TakeDoor DEF Claim, resultVars
    <2>4. CASE ~(~draft[door[c]].claimed /\ ~draft[door[c]].gone)
      <3>1. pc'[c] = "losing" /\ UNCHANGED draft
        BY <1>0, <1>2, <2>4, Move DEF Claim, resultVars
      <3>2. ~Holds(c)' /\ ~Made(c)' /\ ~Made(c)
        BY <2>2, <3>1 DEF Holds, Made
      <3> QED BY <1>2, <2>2, <3>1, <3>2, OneMoves DEF Claim, resultVars, recordVars
    <2> QED BY <2>3, <2>4
  <1> QED BY <1>1, <1>2

(* The holder of a door writes its envelope down. *)
LEMMA DoorMakes ==
  ASSUME TypeInv, TypeInv', DoorInv, NEW c \in Client, InsertEnvelope(c)
  PROVE  DoorInv'
  <1> DEFINE new == [id |-> Cardinality(made) + 1, door |-> door[c], payload |-> payload[c]]
  <1>1. /\ pc[c] = "insert" /\ Advance(c, "debit")
        /\ made' = made \cup {new}
        /\ mine' = [mine EXCEPT ![c] = Cardinality(made) + 1]
        /\ UNCHANGED <<recordVars, orphans, answers, door, payload>>
    BY DEF InsertEnvelope
  <1>2. RequestOK
    BY DEF TypeInv
  <1>3. Others(c) /\ pc'[c] = "debit" /\ mine'[c] = new.id
    BY <1>1, <1>2 DEF RequestOK, Advance, Others
  <1>4. Holds(c) /\ Holds(c)' /\ ~Made(c) /\ Made(c)'
    BY <1>1, <1>3 DEF Holds, Made
  <1>5. SameDoors
    BY <1>1 DEF SameDoors, EnvOf, Taken, Asked, recordVars
  <1>6. HolderInv'
    <2>1. \A x \in Client : Holds(x)' <=> Holds(x)
      BY <1>3, <1>4, OthersHold
    <2>2. \A d : EnvOf(d)' = EnvOf(d) /\ Taken(d)' = Taken(d) /\ Asked(d)' = Asked(d)
      BY <1>1 DEF EnvOf, Taken, Asked, recordVars
    <2>3. ASSUME NEW x \in Client, Holds(x)'
          PROVE  Taken(door[x])' /\ EnvOf(door[x])' = 0 /\ Asked(door[x])' = payload'[x]
      <3>1. Taken(door[x]) /\ EnvOf(door[x]) = 0 /\ Asked(door[x]) = payload[x]
        BY <2>1, <2>3 DEF DoorInv, HolderInv
      <3> QED BY <1>1, <3>1 DEF EnvOf, Taken, Asked, recordVars
    <2>4. ASSUME NEW x \in Client, NEW y \in Client, Holds(x)', Holds(y)', door'[x] = door'[y]
          PROVE  x = y
      BY <1>1, <2>1, <2>4 DEF DoorInv, HolderInv
    <2> QED BY <2>3, <2>4 DEF HolderInv
  <1>7. MadeInv'
    <2>1. ASSUME NEW d \in Door, EnvOf(d)' # 0
          PROVE  /\ Taken(d)'
                 /\ [id |-> EnvOf(d)', door |-> d, payload |-> Asked(d)'] \in made'
      BY <1>1, <1>5, <2>1 DEF DoorInv, MadeInv, SameDoors
    <2>2. ASSUME NEW x \in Client, Made(x)'
          PROVE  [id |-> mine'[x], door |-> door'[x], payload |-> payload'[x]] \in made'
      <3>1. CASE x = c
        BY <1>1, <1>3, <3>1
      <3>2. CASE x # c
        BY <1>1, <1>3, <2>2, <3>2, OthersHold DEF DoorInv, MadeInv
      <3> QED BY <3>1, <3>2
    <2>3. ASSUME NEW m \in made'
          PROVE  \/ m.id \in orphans'
                 \/ EnvOf(m.door)' = m.id
                 \/ \E x \in Client : Made(x)' /\ door'[x] = m.door /\ mine'[x] = m.id
      <3>1. CASE m = new
        BY <1>1, <1>3, <1>4, <3>1
      <3>2. CASE m \in made
        <4>1. \/ m.id \in orphans
              \/ EnvOf(m.door) = m.id
              \/ \E x \in Client : Made(x) /\ door[x] = m.door /\ mine[x] = m.id
          BY <3>2 DEF DoorInv, MadeInv
        <4>2. EnvOf(m.door)' = EnvOf(m.door)
          BY <1>5, <3>2, InDoor DEF SameDoors
        <4> QED BY <1>1, <1>3, <1>4, <4>1, <4>2, OthersHold
      <3> QED BY <1>1, <2>3, <3>1, <3>2
    <2> QED BY <2>1, <2>2, <2>3 DEF MadeInv
  <1>8. AnswerInv'
    <2>1. ASSUME NEW x \in answers', x.env # 0
          PROVE  EnvOf(x.door)' = x.env /\ Asked(x.door)' = x.payload
      <3>1. x \in answers /\ EnvOf(x.door) = x.env /\ Asked(x.door) = x.payload
        BY <1>1, <2>1 DEF DoorInv, AnswerInv
      <3> QED BY <1>5, <3>1, InDoor DEF SameDoors
    <2> QED BY <2>1 DEF AnswerInv
  <1> QED BY <1>6, <1>7, <1>8 DEF DoorInv

(* The holder of a door leaves it, answered or given back. *)
LEMMA LeaveDoor ==
  ASSUME TypeInv, DoorInv, UNCHANGED <<made, orphans>>,
         NEW c \in Client, Others(c), Holds(c), ~Holds(c)', NEW e \in Door, door[c] = e,
         OtherDoors(e),
         EnvOf(e)' # 0 =>
           Taken(e)' /\ [id |-> EnvOf(e)', door |-> e, payload |-> Asked(e)'] \in made,
         Made(c) => EnvOf(e)' = mine[c],
         \A x \in answers' \ answers :
           x.door = e /\ x.env = EnvOf(e)' /\ x.payload = Asked(e)'
  PROVE  DoorInv'
  <1>1. /\ EnvOf(e) = 0
        /\ \A x \in Client : Holds(x) /\ x # c => door[x] # e
    BY DEF DoorInv, HolderInv
  <1>2. ~Made(c)'
    BY DEF Holds, Made
  <1>3. HolderInv'
    <2>1. ASSUME NEW x \in Client, Holds(x)'
          PROVE  Taken(door[x])' /\ EnvOf(door[x])' = 0 /\ Asked(door[x])' = payload'[x]
      <3>1. Holds(x) /\ door'[x] = door[x] /\ payload'[x] = payload[x]
            /\ door[x] \in Door \ {e}
        BY <1>1, <2>1, OthersHold, InDoor
      <3>2. Taken(door[x]) /\ EnvOf(door[x]) = 0 /\ Asked(door[x]) = payload[x]
        BY <3>1 DEF DoorInv, HolderInv
      <3> QED BY <3>1, <3>2 DEF OtherDoors, EnvOf, Taken, Asked
    <2>2. ASSUME NEW x \in Client, NEW y \in Client, Holds(x)', Holds(y)', door'[x] = door'[y]
          PROVE  x = y
      BY <2>2, OthersHold DEF DoorInv, HolderInv
    <2> QED BY <2>1, <2>2 DEF HolderInv
  <1>4. MadeInv'
    <2>1. ASSUME NEW d \in Door, EnvOf(d)' # 0
          PROVE  /\ Taken(d)'
                 /\ [id |-> EnvOf(d)', door |-> d, payload |-> Asked(d)'] \in made'
      <3>1. CASE d = e
        BY <2>1, <3>1 DEF EnvOf, Taken, Asked
      <3>2. CASE d # e
        BY <2>1, <3>2 DEF DoorInv, MadeInv, OtherDoors
      <3> QED BY <3>1, <3>2
    <2>2. ASSUME NEW x \in Client, Made(x)'
          PROVE  [id |-> mine'[x], door |-> door'[x], payload |-> payload'[x]] \in made'
      BY <1>2, <2>2, OthersHold DEF DoorInv, MadeInv
    <2>3. ASSUME NEW m \in made'
          PROVE  \/ m.id \in orphans'
                 \/ EnvOf(m.door)' = m.id
                 \/ \E x \in Client : Made(x)' /\ door'[x] = m.door /\ mine'[x] = m.id
      <3>1. m.door \in Door /\ m.id # 0
        BY <2>3, InDoor
      <3>2. CASE m.id \in orphans
        BY <3>2
      <3>3. CASE EnvOf(m.door) = m.id
        <4>1. m.door \in Door \ {e}
          BY <1>1, <3>1, <3>3
        <4> QED BY <3>3, <4>1 DEF OtherDoors
      <3>4. ASSUME NEW x \in Client, Made(x), door[x] = m.door, mine[x] = m.id
            PROVE  \/ EnvOf(m.door)' = m.id
                   \/ \E y \in Client : Made(y)' /\ door'[y] = m.door /\ mine'[y] = m.id
        <4>1. CASE x = c
          <5>1. EnvOf(e)' = m.id /\ m.door = e
            BY <3>4, <4>1
          <5> QED BY <5>1 DEF EnvOf
        <4>2. CASE x # c
          BY <3>4, <4>2, OthersHold
        <4> QED BY <4>1, <4>2
      <3>5. \/ m.id \in orphans
            \/ EnvOf(m.door) = m.id
            \/ \E x \in Client : Made(x) /\ door[x] = m.door /\ mine[x] = m.id
        BY <2>3 DEF DoorInv, MadeInv
      <3> QED BY <3>2, <3>3, <3>4, <3>5
    <2> QED BY <2>1, <2>2, <2>3 DEF MadeInv
  <1>5. AnswerInv'
    <2>1. ASSUME NEW x \in answers', x.env # 0
          PROVE  EnvOf(x.door)' = x.env /\ Asked(x.door)' = x.payload
      <3>1. CASE x \in answers
        <4>1. EnvOf(x.door) = x.env /\ Asked(x.door) = x.payload
          BY <2>1, <3>1 DEF DoorInv, AnswerInv
        <4>2. x.door \in Door \ {e}
          BY <1>1, <2>1, <3>1, <4>1, InDoor
        <4> QED BY <4>1, <4>2 DEF OtherDoors
      <3>2. CASE x \notin answers
        BY <2>1, <3>2 DEF EnvOf, Asked
      <3> QED BY <3>1, <3>2
    <2> QED BY <2>1 DEF AnswerInv
  <1> QED BY <1>3, <1>4, <1>5 DEF DoorInv

LEMMA DoorLeft ==
  ASSUME TypeInv, TypeInv', DoorInv, NEW c \in Client, Finish(c) \/ Release(c)
  PROVE  DoorInv'
  <1> USE CreationAssumption
  <1>0. RequestOK /\ ClientOK(c) /\ StoreOK
    BY DEF TypeInv, RequestOK
  <1>1. /\ Others(c) /\ pc'[c] = "idle" /\ UNCHANGED <<made, orphans>>
        /\ pc[c] \in {"finish", "release"}
    BY <1>0, LeaveMoves DEF Finish, Release, resultVars
  <1>2. Holds(c) /\ ~Holds(c)'
    BY <1>1 DEF Holds
  <1>3. PICK e \in Door : e = door[c]
    BY <1>2, InDoor
  <1>4. Taken(e) /\ EnvOf(e) = 0 /\ Asked(e) = payload[c]
    BY <1>2, <1>3 DEF DoorInv, HolderInv
  <1>5. CASE Finish(c)
    <2>1. Made(c) /\ [id |-> mine[c], door |-> e, payload |-> payload[c]] \in made
      BY <1>3, <1>5 DEF Finish, Made, DoorInv, MadeInv
    <2>2. EnvOf(e)' = mine[c] /\ Taken(e)' = Taken(e) /\ Asked(e)' = Asked(e) /\ OtherDoors(e)
      <3>1. CASE e \in Draft
        <4>1. /\ draft' = [draft EXCEPT ![e].env = mine[c]] /\ row' = row
              /\ draft \in [Draft -> DraftRow]
          BY <1>0, <1>3, <1>5, <3>1 DEF Finish, StoreOK
        <4>2. /\ \A d \in Draft \ {e} : draft'[d] = draft[d]
              /\ draft'[e].env = mine[c] /\ draft'[e].claimed = draft[e].claimed
          BY <3>1, <4>1 DEF DraftRow
        <4> QED BY <3>1, <4>1, <4>2 DEF OtherDoors, EnvOf, Taken, Asked
      <3>2. CASE e \notin Draft
        <4>1. /\ row' = [row EXCEPT ![e].env = mine[c]] /\ draft' = draft
              /\ e \in Key \cup Payment
              /\ row \in [Key \cup Payment ->
                            [payload : Payload \cup {None}, env : {0} \cup EnvId]]
          BY <1>0, <1>3, <1>5, <3>2 DEF Finish, StoreOK, Door
        <4>2. /\ \A d \in (Key \cup Payment) \ {e} : row'[d] = row[d]
              /\ row'[e].env = mine[c] /\ row'[e].payload = row[e].payload
          BY <4>1
        <4> QED BY <3>2, <4>1, <4>2 DEF OtherDoors, EnvOf, Taken, Asked, Door
      <3> QED BY <3>1, <3>2
    <2>3. answers' = answers \cup {[door |-> e, payload |-> payload[c], env |-> mine[c]]}
      BY <1>3, <1>5 DEF Finish
    <2>4. Taken(e)' /\ Asked(e)' = payload[c]
      BY <1>4, <2>2
    <2>5. EnvOf(e)' # 0 =>
            Taken(e)' /\ [id |-> EnvOf(e)', door |-> e, payload |-> Asked(e)'] \in made
      BY <2>1, <2>2, <2>4
    <2>6. \A x \in answers' \ answers :
            x.door = e /\ x.env = EnvOf(e)' /\ x.payload = Asked(e)'
      BY <2>2, <2>3, <2>4
    <2> QED BY <1>1, <1>2, <1>3, <2>2, <2>5, <2>6, LeaveDoor
  <1>6. CASE Release(c)
    <2>1. ~Made(c) /\ answers' = answers
      BY <1>6 DEF Release, Made, resultVars
    <2>2. EnvOf(e)' = 0 /\ OtherDoors(e)
      <3>1. CASE e \in Draft
        <4>1. /\ draft' = [draft EXCEPT ![e].claimed = (draft[e].env # 0)] /\ row' = row
              /\ draft \in [Draft -> DraftRow]
          BY <1>0, <1>3, <1>6, <3>1 DEF Release, StoreOK
        <4>2. /\ \A d \in Draft \ {e} : draft'[d] = draft[d]
              /\ draft'[e].env = draft[e].env
          BY <3>1, <4>1 DEF DraftRow
        <4> QED BY <1>4, <3>1, <4>1, <4>2 DEF OtherDoors, EnvOf, Taken, Asked
      <3>2. CASE e \notin Draft
        <4>1. /\ row' = [row EXCEPT ![e] = NoRow] /\ draft' = draft
              /\ e \in Key \cup Payment
              /\ row \in [Key \cup Payment ->
                            [payload : Payload \cup {None}, env : {0} \cup EnvId]]
          BY <1>0, <1>3, <1>6, <3>2 DEF Release, StoreOK, Door
        <4>2. /\ \A d \in (Key \cup Payment) \ {e} : row'[d] = row[d]
              /\ row'[e].env = 0
          BY <4>1 DEF NoRow
        <4> QED BY <3>2, <4>1, <4>2 DEF OtherDoors, EnvOf, Taken, Asked, Door
      <3> QED BY <3>1, <3>2
    <2> QED BY <1>1, <1>2, <1>3, <2>1, <2>2, LeaveDoor
  <1> QED BY <1>5, <1>6

LEMMA NextDoor == TypeInv /\ TypeInv' /\ DoorInv /\ [Next]_vars => DoorInv'
  <1> SUFFICES ASSUME TypeInv, TypeInv', DoorInv, [Next]_vars PROVE DoorInv'
    OBVIOUS
  <1>1. CASE UNCHANGED vars
    <2>1. UNCHANGED <<row, draft, made, orphans, answers, pc, door, payload, mine>>
      BY <1>1 DEF vars, recordVars, resultVars, requestVars
    <2>2. SameDoors
      BY <2>1 DEF SameDoors, EnvOf, Taken, Asked
    <2>3. \A x \in Client : /\ Holds(x)' = Holds(x) /\ Made(x)' = Made(x)
                            /\ door'[x] = door[x] /\ payload'[x] = payload[x]
                            /\ mine'[x] = mine[x]
      BY <2>1 DEF Holds, Made
    <2> QED BY <2>1, <2>2, <2>3, KeepDoors
  <1>2. CASE Next
    BY <1>2, DoorWorld, DoorQuiet, DoorTaken, DoorMakes, DoorLeft DEF Next
  <1> QED BY <1>1, <1>2

LEMMA DoorsHold == Spec => [](TypeInv /\ DoorInv)
  <1>1. TypeInv /\ DoorInv /\ [Next]_vars => (TypeInv /\ DoorInv)'
    BY NextType, NextDoor
  <1> QED BY <1>1, InitType, InitDoor, PTL DEF Spec

(* Whoever is told of an envelope through one key, payment or draft is told *)
(* of the same one, made from what was asked (Creation's SameAnswer): what  *)
(* withCreateIdempotency replays and claimPendingSend calls 'already'.      *)
THEOREM AnswersAgree == Spec => []SameAnswer
  <1>1. TypeInv /\ DoorInv => SameAnswer
    <2> SUFFICES ASSUME TypeInv, DoorInv, NEW x \in answers, x.env # 0
                 PROVE  /\ \E m \in made :
                             m.id = x.env /\ m.door = x.door /\ m.payload = x.payload
                        /\ \A y \in answers : y.door = x.door /\ y.env # 0 => y.env = x.env
      BY DEF SameAnswer
    <2>1. EnvOf(x.door) = x.env /\ Asked(x.door) = x.payload /\ x.door \in Door
      BY InDoor DEF DoorInv, AnswerInv
    <2>2. [id |-> x.env, door |-> x.door, payload |-> x.payload] \in made
      BY <2>1 DEF DoorInv, MadeInv
    <2>3. \A y \in answers : y.door = x.door /\ y.env # 0 => y.env = x.env
      BY <2>1 DEF DoorInv, AnswerInv
    <2> QED BY <2>2, <2>3
  <1> QED BY <1>1, DoorsHold, PTL

(* A door makes one envelope unless a create that came through it threw or  *)
(* died after its row was written (Creation's OneEnvelopeUnlessLost): the   *)
(* reservation, and the claim, let one create at a time through, and none   *)
(* after an answer.                                                         *)
THEOREM OneEnvelope == Spec => []OneEnvelopeUnlessLost
  <1>1. TypeInv /\ DoorInv => OneEnvelopeUnlessLost
    <2> SUFFICES ASSUME TypeInv, DoorInv, NEW x \in made, NEW y \in made,
                        x.door = y.door, {x.id, y.id} \cap orphans = {}
                 PROVE  x = y
      BY DEF OneEnvelopeUnlessLost
    <2>1. /\ x.id # 0 /\ y.id # 0
          /\ \A b, c \in Client :
               Made(b) /\ Made(c) /\ door[b] = door[c] => b = c /\ EnvOf(door[b]) = 0
      BY InDoor DEF DoorInv, HolderInv
    <2>2. /\ EnvOf(x.door) = x.id
             \/ \E c \in Client : Made(c) /\ door[c] = x.door /\ mine[c] = x.id
          /\ EnvOf(y.door) = y.id
             \/ \E c \in Client : Made(c) /\ door[c] = y.door /\ mine[c] = y.id
      BY DEF DoorInv, MadeInv
    <2>3. x.id = y.id
      BY <2>1, <2>2
    <2> QED BY <2>3 DEF TypeInv, CountOK
  <1> QED BY <1>1, DoorsHold, PTL
=============================================================================
