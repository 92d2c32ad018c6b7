---------------------------- MODULE Retention_proofs ----------------------------
(***************************************************************************)
(* Proofs about Retention: its types, and that no purge takes a blob from  *)
(* an envelope that still holds it, for any envelopes, signers and bounds. *)
(***************************************************************************)
EXTENDS Retention, TLAPS

(* TypeOK is not inductive: a purger with an envelope in hand must have one *)
(* that is an envelope.                                                     *)
Busy(p) == pc[p] \in {"stamp", "select", "delete"}

LocalOK ==
  /\ pc \in [Purger -> Pcs]
  /\ cur \in [Purger -> Env \cup {None}]
  /\ hand \in [Purger -> SUBSET Env]
  /\ read \in [Purger -> SUBSET Env]
  /\ keys \in [Purger -> SUBSET {"cover", "document"}]
  /\ \A p \in Purger : Busy(p) => cur[p] \in Env

DataOK ==
  /\ rows \in [Env -> {"none", "full", "bare", "gone"}]
  /\ state \in [Env -> {"open", "closed", "completed"}]
  /\ age \in [Env -> 0..2]
  /\ answer \in [Env -> [Signer -> {"none", "delivered", "bounced"}]]

StoreOK ==
  /\ stamped \subseteq Env
  /\ document \in BOOLEAN
  /\ covers \subseteq Env /\ making \subseteq Env /\ chain \subseteq Env
  /\ doomed \subseteq Env /\ blind \subseteq Env
  /\ crashes \in 0..MaxCrashes /\ cut \in BOOLEAN

TypeInv == DataOK /\ StoreOK /\ LocalOK

-----------------------------------------------------------------------------
(* Who is a purger, and that they are different ones. *)
LEMMA Purgers ==
  /\ Sweep \in Purger /\ Deletion \in Purger
  /\ \A e \in Env : Closer(e) \in Purger /\ Chain(e) \in Purger
  /\ Sweep # Deletion
  /\ \A e \in Env : Closer(e) # Deletion /\ Chain(e) # Deletion
  BY DEF Purger, Sweep, Deletion, Closer, Chain

(* A purger that takes up an envelope keeps the types of its locals. *)
LEMMA TypeTakeUp ==
  ASSUME LocalOK, NEW p \in Purger, NEW e \in Env, NEW there \in Pcs,
         NEW known \in SUBSET Env, TakeUp(p, e, there, known)
  PROVE  LocalOK'
  BY DEF LocalOK, TakeUp, Advance, Busy

LEMMA TypeOnward ==
  ASSUME LocalOK, NEW p \in Purger, NEW others \in SUBSET Env, Onward(p, others)
  PROVE  LocalOK'
  BY DEF LocalOK, Onward, Advance, Busy, Pcs

LEMMA TypeDelete ==
  ASSUME LocalOK, NEW p \in Purger, Busy(p),
         NEW ks \in SUBSET {"cover", "document"}, Delete(p, ks)
  PROVE  LocalOK'
  <1>1. CASE ks = {}
    BY <1>1, TypeOnward DEF Delete, LocalOK
  <1>2. CASE ks # {}
    BY <1>2 DEF Delete, LocalOK, Advance, Busy, Pcs
  <1> QED BY <1>1, <1>2

LEMMA TypeSigners ==
  ASSUME NEW e \in Env
  PROVE  SignersOf(e) \subseteq Env
  BY DEF SignersOf

LEMMA InitType == Init => TypeInv
  <1> SUFFICES ASSUME Init PROVE TypeInv
    OBVIOUS
  <1>1. DataOK
    BY DEF Init, DataOK, NoAnswer
  <1>2. StoreOK
    <2>1. document \in BOOLEAN /\ cut \in BOOLEAN
      BY Zenon DEF Init
    <2>2. crashes \in 0..MaxCrashes
      BY RetentionAssumption DEF Init
    <2>3. /\ stamped \subseteq Env /\ covers \subseteq Env
          /\ making \subseteq Env /\ chain \subseteq Env /\ doomed \subseteq Env
          /\ blind \subseteq Env
      BY RetentionAssumption DEF Init
    <2> QED BY <2>1, <2>2, <2>3 DEF StoreOK
  <1>3. LocalOK
    BY DEF Init, LocalOK, Busy, Pcs
  <1> QED BY <1>1, <1>2, <1>3 DEF TypeInv

(* Nothing but its purger touches a purger's locals. *)
LEMMA TypeLocalFrame ==
  ASSUME LocalOK, UNCHANGED <<pc, localVars>>
  PROVE  LocalOK'
  BY DEF LocalOK, localVars, Busy

(* What happens to envelopes. *)
LEMMA TypeEnvelopes ==
  ASSUME TypeInv, NEW e \in Env,
         \/ Upload(e) \/ Insert(e) \/ StoreCovers(e) \/ Distribute(e) \/ Age(e)
         \/ \E s \in Signer : Confirm(e, s)
  PROVE  TypeInv'
  <1> USE DEF TypeInv
  <1>1. LocalOK'
    BY TypeLocalFrame DEF Upload, Insert, StoreCovers, Distribute, Age, Confirm
  <1>2. CASE Upload(e)
    BY <1>1, <1>2 DEF Upload, DataOK, StoreOK, dataVars
  <1>3. CASE Insert(e)
    BY <1>1, <1>3 DEF Insert, DataOK, StoreOK
  <1>4. CASE StoreCovers(e)
    BY <1>1, <1>4 DEF StoreCovers, DataOK, StoreOK, dataVars
  <1>5. CASE Distribute(e)
    BY <1>1, <1>5 DEF Distribute, DataOK, StoreOK
  <1>6. CASE Age(e)
    BY <1>1, <1>6 DEF Age, DataOK, StoreOK
  <1>7. ASSUME NEW s \in Signer, Confirm(e, s) PROVE TypeInv'
    BY <1>1, <1>7 DEF Confirm, DataOK, StoreOK
  <1> QED BY <1>2, <1>3, <1>4, <1>5, <1>6, <1>7

(* What starts a purge. *)
LEMMA TypeStarts ==
  ASSUME TypeInv,
         \/ \E e \in Env : Close(e) \/ RunChain(e) \/ Pick(e)
         \/ Scan \/ Gather
  PROVE  TypeInv'
  <1> USE Purgers, TypeSigners DEF TypeInv
  <1> "stamp" \in Pcs /\ "pick" \in Pcs /\ "signers" \in Pcs
    BY DEF Pcs
  <1>1. ASSUME NEW e \in Env, Close(e) PROVE TypeInv'
    <2>1. LocalOK'
      BY <1>1, TypeTakeUp DEF Close
    <2> QED BY <1>1, <2>1 DEF Close, DataOK, StoreOK
  <1>2. ASSUME NEW e \in Env, RunChain(e) PROVE TypeInv'
    <2>1. LocalOK'
      BY <1>2, TypeTakeUp, TypeLocalFrame DEF RunChain
    <2> QED BY <1>2, <2>1 DEF RunChain, DataOK, StoreOK, dataVars
  <1>3. CASE Scan
    <2>1. LocalOK'
      BY <1>3 DEF Scan, LocalOK, Advance, Busy
    <2> QED BY <1>3, <2>1 DEF Scan, DataOK, StoreOK, dataVars
  <1>4. ASSUME NEW e \in Env, Pick(e) PROVE TypeInv'
    <2>1. hand[Sweep] \ {e} \in SUBSET Env
      BY DEF LocalOK
    <2>2. LocalOK'
      BY <1>4, <2>1, TypeTakeUp, TypeOnward DEF Pick
    <2> QED BY <1>4, <2>2 DEF Pick, DataOK, StoreOK, dataVars
  <1>5. CASE Gather
    <2>1. doomed' \subseteq Env /\ doomed' \ stamped \subseteq Env
      BY <1>5, RetentionAssumption DEF Gather
    <2>2. UNION {SignersOf(f) : f \in doomed'} \subseteq Env
      BY <2>1
    <2>3. LocalOK'
      BY <1>5, <2>1, <2>2 DEF Gather, LocalOK, Advance, Busy
    <2> QED BY <1>5, <2>1, <2>3 DEF Gather, DataOK, StoreOK, dataVars
  <1> QED BY <1>1, <1>2, <1>3, <1>4, <1>5

(* What an account deletion does next. *)
LEMMA TypeDeleteOn ==
  ASSUME TypeInv, DeleteOn
  PROVE  TypeInv'
  <1> USE Purgers DEF TypeInv
  <1>1. CASE DeleteSigners
    <2>1. LocalOK'
      BY <1>1 DEF DeleteSigners, LocalOK, localVars, Advance, Busy, Pcs
    <2>2. DataOK'
      BY <1>1 DEF DeleteSigners, DataOK, NoAnswer
    <2> QED BY <1>1, <2>1, <2>2 DEF DeleteSigners, StoreOK
  <1>2. CASE DeleteRows
    <2>1. LocalOK'
      BY <1>2, TypeOnward DEF DeleteRows, LocalOK
    <2> QED BY <1>2, <2>1 DEF DeleteRows, DataOK, StoreOK
  <1>3. ASSUME NEW e \in Env, PurgeDeleted(e) PROVE TypeInv'
    <2>1. "select" \in Pcs /\ read[Deletion] \in SUBSET Env
      BY DEF Pcs, LocalOK
    <2>2. LocalOK'
      BY <1>3, <2>1, TypeTakeUp DEF PurgeDeleted
    <2> QED BY <1>3, <2>2 DEF PurgeDeleted, DataOK, StoreOK, dataVars
  <1> QED BY <1>1, <1>2, <1>3 DEF DeleteOn

(* The purge itself, and what cuts it short. *)
LEMMA TypePurge ==
  ASSUME TypeInv, NEW p \in Purger, Purge(p) \/ Crash(p)
  PROVE  TypeInv'
  <1> USE DEF TypeInv
  <1>1. CASE Stamp(p)
    <2>1. LocalOK'
      BY <1>1 DEF Stamp, LocalOK, localVars, Advance, Busy, Pcs
    <2>2. cur[p] \in Env
      BY <1>1 DEF Stamp, LocalOK, Busy
    <2>3. stamped' \subseteq Env
      BY <1>1, <2>2 DEF Stamp, StoreOK
    <2>4. StoreOK'
      BY <1>1, <2>3 DEF Stamp, StoreOK
    <2> QED BY <1>1, <2>1, <2>4 DEF Stamp, DataOK, dataVars
  <1>2. CASE Select(p)
    <2>1. LocalOK'
      BY <1>2, TypeDelete DEF Select, Busy
    <2>2. cur[p] \in Env
      BY <1>2 DEF Select, LocalOK, Busy
    <2>3. StoreOK'
      BY <1>2, <2>2 DEF Select, StoreOK
    <2> QED BY <1>2, <2>1, <2>3 DEF Select, DataOK, dataVars
  <1>3. ASSUME NEW k \in {"cover", "document"}, DeleteKey(p, k) PROVE TypeInv'
    <2>1. Busy(p) /\ keys[p] \ {k} \in SUBSET {"cover", "document"}
      BY <1>3 DEF DeleteKey, Busy, LocalOK
    <2>2. LocalOK'
      BY <1>3, <2>1, TypeDelete DEF DeleteKey
    <2>3. crashes' \in 0..MaxCrashes
      BY <1>3, RetentionAssumption DEF DeleteKey, StoreOK
    <2>4. document' \in BOOLEAN /\ cut' \in BOOLEAN /\ covers' \subseteq Env
      BY <1>3, Zenon DEF DeleteKey, StoreOK
    <2>5. StoreOK'
      BY <1>3, <2>3, <2>4 DEF DeleteKey, StoreOK
    <2> QED BY <1>3, <2>2, <2>5 DEF DeleteKey, DataOK, dataVars
  <1>4. CASE Crash(p)
    <2>1. LocalOK'
      BY <1>4, TypeOnward DEF Crash
    <2>2. crashes' \in 0..MaxCrashes /\ cut' \in BOOLEAN
      BY <1>4, RetentionAssumption DEF Crash, StoreOK
    <2>3. doomed' \subseteq Env /\ chain' \subseteq Env
      BY <1>4 DEF Crash, StoreOK
    <2> QED BY <1>4, <2>1, <2>2, <2>3 DEF Crash, DataOK, StoreOK, dataVars
  <1> QED BY <1>1, <1>2, <1>3, <1>4 DEF Purge

LEMMA NextType == TypeInv /\ [Next]_vars => TypeInv'
  <1> SUFFICES ASSUME TypeInv, [Next]_vars PROVE TypeInv'
    OBVIOUS
  <1>1. CASE UNCHANGED vars
    BY <1>1, TypeLocalFrame
    DEF vars, TypeInv, DataOK, StoreOK, dataVars
  <1>2. CASE \E e \in Env : Upload(e) \/ Insert(e) \/ StoreCovers(e) \/ Distribute(e)
                              \/ Age(e) \/ \E s \in Signer : Confirm(e, s)
    BY <1>2, TypeEnvelopes
  <1>3. CASE SweepOn \/ Gather \/ \E e \in Env : Close(e) \/ RunChain(e)
    BY <1>3, TypeStarts DEF SweepOn
  <1>4. CASE DeleteOn
    BY <1>4, TypeDeleteOn
  <1>5. CASE \E p \in Purger : Purge(p) \/ Crash(p)
    BY <1>5, TypePurge
  <1> QED BY <1>1, <1>2, <1>3, <1>4, <1>5 DEF Next

(* Every variable keeps its type (Retention!TypeOK), whoever purges what.  *)
THEOREM TypeCorrect == Spec => []TypeOK
  <1>1. TypeInv => TypeOK
    BY DEF TypeInv, DataOK, StoreOK, LocalOK, TypeOK
  <1> QED BY <1>1, InitType, NextType, PTL DEF Spec

-----------------------------------------------------------------------------
(***************************************************************************)
(* A holder keeps its blobs.  An envelope that is over once is over for    *)
(* ever; a purger that deletes works on an envelope that is over, and one  *)
(* that has the document among its keys has seen that every other is.      *)
(***************************************************************************)
EarlyHaveRows == \A e \in Early : rows[e] # "none"

PurgerInv(p) ==
  /\ pc[p] \in {"select", "delete"} /\ cur[p] \in Early => ~Holds(cur[p])
  /\ pc[p] = "delete" /\ "document" \in keys[p] => \A e \in Early : ~Holds(e)

(* The envelopes in the hand of an account deletion lose their rows first. *)
DeletionInv ==
  /\ pc[Deletion] \in {"signers", "rows"} =>
       /\ hand[Deletion] \subseteq doomed
       /\ \A e \in doomed \cap Early : HasRow(e)
  /\ pc[Deletion] \in {"pick", "stamp", "select", "delete"} =>
       \A e \in hand[Deletion] \cap Early : ~Holds(e)

HoldInv ==
  /\ EarlyHaveRows
  /\ \A p \in Purger : PurgerInv(p)
  /\ DeletionInv
  /\ HolderKeepsBlobs

(* What has been given up stays given up. *)
GivenUp == \A e \in Early : ~Holds(e) => ~Holds(e)'

SameAt(q) == pc'[q] = pc[q] /\ cur'[q] = cur[q] /\ keys'[q] = keys[q]

LEMMA InitHold == Init => HoldInv
  <1> SUFFICES ASSUME Init PROVE HoldInv
    OBVIOUS
  <1>1. EarlyHaveRows
    BY RetentionAssumption DEF Init, EarlyHaveRows
  <1>2. \A p \in Purger : PurgerInv(p)
    BY DEF Init, PurgerInv
  <1>3. DeletionInv
    BY Purgers DEF Init, DeletionInv
  <1>4. HolderKeepsBlobs
    BY RetentionAssumption DEF Init, HolderKeepsBlobs
  <1> QED BY <1>1, <1>2, <1>3, <1>4 DEF HoldInv

(* A purger that does not move keeps what it knows. *)
LEMMA KnowsStill ==
  ASSUME HoldInv, GivenUp, NEW q \in Purger, SameAt(q)
  PROVE  PurgerInv(q)'
  BY DEF HoldInv, GivenUp, SameAt, PurgerInv

LEMMA DeletionStill ==
  ASSUME HoldInv, GivenUp,
         pc'[Deletion] = pc[Deletion], hand'[Deletion] = hand[Deletion],
         doomed' = doomed,
         \A e \in doomed \cap Early : HasRow(e) => HasRow(e)'
  PROVE  DeletionInv'
  BY DEF HoldInv, GivenUp, DeletionInv

(* What the three moves of a purger do to it, and to no other. *)
LEMMA TakeUpMoves ==
  ASSUME LocalOK, NEW p \in Purger, NEW e, NEW there, NEW known,
         TakeUp(p, e, there, known)
  PROVE  /\ \A q \in Purger : q # p => SameAt(q) /\ hand'[q] = hand[q]
         /\ pc'[p] = there /\ cur'[p] = e /\ hand'[p] = hand[p] \ {e}
  BY DEF TakeUp, LocalOK, Advance, SameAt

LEMMA OnwardMoves ==
  ASSUME LocalOK, NEW p \in Purger, NEW others, Onward(p, others)
  PROVE  /\ \A q \in Purger : q # p => SameAt(q) /\ hand'[q] = hand[q]
         /\ pc'[p] = (IF others = {} THEN "idle" ELSE "pick")
         /\ hand'[p] = others
  BY DEF Onward, LocalOK, Advance, SameAt

LEMMA DeleteMoves ==
  ASSUME LocalOK, NEW p \in Purger, NEW ks, Delete(p, ks)
  PROVE  /\ \A q \in Purger : q # p => SameAt(q) /\ hand'[q] = hand[q]
         /\ hand'[p] = hand[p]
         /\ \/ pc'[p] \in {"idle", "pick"}
            \/ pc'[p] = "delete" /\ cur'[p] = cur[p] /\ keys'[p] = ks
  <1>1. CASE ks = {}
    BY <1>1, OnwardMoves DEF Delete
  <1>2. CASE ks # {}
    BY <1>2 DEF Delete, LocalOK, Advance, SameAt
  <1> QED BY <1>1, <1>2

(* An early envelope keeps a row and, once over, is over for ever. *)
LEMMA OnceOver ==
  ASSUME TypeInv, HoldInv, Next
  PROVE  GivenUp /\ EarlyHaveRows'
  <1> USE RetentionAssumption DEF GivenUp, EarlyHaveRows, Holds, HasRow
  <1>1. EarlyHaveRows /\ DeletionInv /\ rows \in [Env -> {"none", "full", "bare", "gone"}]
    BY DEF HoldInv, TypeInv, DataOK
  <1>2. CASE UNCHANGED <<rows, stamped>>
    BY <1>1, <1>2
  <1>3. ASSUME NEW f \in Env, Insert(f) PROVE GivenUp /\ EarlyHaveRows'
    BY <1>1, <1>3 DEF Insert
  <1>4. CASE DeleteSigners
    <2>1. \A e \in doomed \cap Early : HasRow(e)
      BY <1>1, <1>4 DEF DeleteSigners, DeletionInv
    <2> QED BY <1>1, <1>4, <2>1 DEF DeleteSigners
  <1>5. CASE DeleteRows
    BY <1>1, <1>5 DEF DeleteRows
  <1>6. ASSUME NEW p \in Purger, Stamp(p) PROVE GivenUp /\ EarlyHaveRows'
    BY <1>1, <1>6 DEF Stamp, dataVars
  <1>7. \/ UNCHANGED <<rows, stamped>>
        \/ \E f \in Env : Insert(f)
        \/ DeleteSigners \/ DeleteRows
        \/ \E p \in Purger : Stamp(p)
    BY DEF Next, Upload, StoreCovers, Distribute, Age, Close, RunChain, Confirm,
           SweepOn, Scan, Pick, Gather, DeleteOn, PurgeDeleted, Purge, Select,
           DeleteKey, Crash, dataVars
  <1> QED BY <1>2, <1>3, <1>4, <1>5, <1>6, <1>7

(* Envelopes that come and go leave the purgers where they are. *)
LEMMA HoldEnvelopes ==
  ASSUME TypeInv, HoldInv, GivenUp, EarlyHaveRows', NEW e \in Env,
         \/ Upload(e) \/ Insert(e) \/ StoreCovers(e) \/ Distribute(e) \/ Age(e)
         \/ \E s \in Signer : Confirm(e, s)
  PROVE  HoldInv'
  <1>1. UNCHANGED <<pc, cur, hand, keys, doomed>>
    BY DEF Upload, Insert, StoreCovers, Distribute, Age, Confirm, localVars
  <1>2. \A q \in Purger : PurgerInv(q)'
    BY <1>1, KnowsStill DEF SameAt
  <1>3. \A f \in doomed \cap Early : HasRow(f) => HasRow(f)'
    <2>1. rows' = rows \/ rows' = [rows EXCEPT ![e] = "full"]
      BY DEF Upload, Insert, StoreCovers, Distribute, Age, Confirm, dataVars
    <2> QED BY <2>1, RetentionAssumption DEF HasRow, TypeInv, DataOK
  <1>4. DeletionInv'
    BY <1>1, <1>3, DeletionStill
  <1>5. (document => document') /\ covers \subseteq covers'
    BY DEF Upload, Insert, StoreCovers, Distribute, Age, Confirm
  <1>6. HolderKeepsBlobs'
    BY <1>5 DEF HoldInv, GivenUp, HolderKeepsBlobs
  <1> QED BY <1>2, <1>4, <1>6 DEF HoldInv

(* Nor does a purger that deletes no blob take one from anyone. *)
LEMMA HoldBlobs ==
  ASSUME HoldInv, GivenUp, UNCHANGED <<document, covers>>
  PROVE  HolderKeepsBlobs'
  BY DEF HoldInv, GivenUp, HolderKeepsBlobs

(* A void, an expiry, a retention run and the sweep have yet to stamp what *)
(* they take up.                                                           *)
LEMMA HoldStarts ==
  ASSUME TypeInv, HoldInv, GivenUp, EarlyHaveRows',
         \/ \E e \in Env : Close(e) \/ RunChain(e) \/ Pick(e)
         \/ Scan \/ Gather
  PROVE  HoldInv'
  <1> USE Purgers
  <1>l. LocalOK
    BY DEF TypeInv
  <1>b. HolderKeepsBlobs'
    BY HoldBlobs DEF Close, RunChain, Pick, Scan, Gather
  <1>r. CASE UNCHANGED <<pc, localVars>> /\ UNCHANGED <<rows, doomed>>
    <2>1. \A q \in Purger : SameAt(q)
      BY <1>r DEF SameAt, localVars
    <2> QED BY <1>b, <1>r, <2>1, KnowsStill, DeletionStill DEF HoldInv, HasRow, localVars
  <1>t. ASSUME NEW p \in Purger, p # Deletion, NEW e \in Env, NEW known,
               TakeUp(p, e, "stamp", known), UNCHANGED <<rows, doomed>>
        PROVE  HoldInv'
    <2>1. \A q \in Purger : q # p => PurgerInv(q)'
      BY <1>l, <1>t, TakeUpMoves, KnowsStill
    <2>2. PurgerInv(p)'
      BY <1>l, <1>t, TakeUpMoves DEF PurgerInv
    <2>3. DeletionInv'
      BY <1>l, <1>t, TakeUpMoves, DeletionStill DEF SameAt, HasRow
    <2> QED BY <1>b, <2>1, <2>2, <2>3 DEF HoldInv
  <1>1. ASSUME NEW e \in Env, Close(e) PROVE HoldInv'
    BY <1>1, <1>t DEF Close
  <1>2. ASSUME NEW e \in Env, RunChain(e) PROVE HoldInv'
    BY <1>2, <1>t, <1>r DEF RunChain, dataVars
  <1>3. CASE Scan
    <2>1. \A q \in Purger : q # Sweep => SameAt(q) /\ hand'[q] = hand[q]
      BY <1>l, <1>3 DEF Scan, Advance, SameAt, LocalOK
    <2>2. PurgerInv(Sweep)'
      BY <1>l, <1>3 DEF Scan, Advance, PurgerInv, LocalOK
    <2>3. DeletionInv'
      BY <1>3, <2>1, DeletionStill DEF Scan, SameAt, HasRow, dataVars
    <2> QED BY <1>b, <2>1, <2>2, <2>3, KnowsStill DEF HoldInv
  <1>4. ASSUME NEW e \in Env, Pick(e) PROVE HoldInv'
    <2>1. CASE ShouldDelete(e)
      BY <1>4, <1>t, <2>1 DEF Pick, dataVars
    <2>2. CASE ~ShouldDelete(e)
      <3>1. Onward(Sweep, hand[Sweep] \ {e}) /\ UNCHANGED <<rows, doomed>>
        BY <1>4, <2>2 DEF Pick, dataVars
      <3>2. \A q \in Purger : q # Sweep => PurgerInv(q)'
        BY <1>l, <3>1, OnwardMoves, KnowsStill
      <3>3. PurgerInv(Sweep)'
        BY <1>l, <3>1, OnwardMoves DEF PurgerInv
      <3>4. DeletionInv'
        BY <1>l, <3>1, OnwardMoves, DeletionStill DEF SameAt, HasRow
      <3> QED BY <1>b, <3>2, <3>3, <3>4 DEF HoldInv
    <2> QED BY <2>1, <2>2
  <1>5. CASE Gather
    <2>1. \A q \in Purger : q # Deletion => SameAt(q)
      BY <1>l, <1>5 DEF Gather, Advance, SameAt, LocalOK
    <2>2. /\ pc'[Deletion] = "signers"
          /\ hand'[Deletion] \subseteq doomed'
          /\ \A e \in doomed' : HasRow(e)'
      BY <1>l, <1>5 DEF Gather, Advance, LocalOK, HasRow, dataVars
    <2>3. PurgerInv(Deletion)' /\ DeletionInv'
      BY <2>2 DEF PurgerInv, DeletionInv
    <2> QED BY <1>b, <2>1, <2>3, KnowsStill DEF HoldInv
  <1> QED BY <1>1, <1>2, <1>3, <1>4, <1>5

(* An account deletion takes up envelopes whose rows it has deleted. *)
LEMMA HoldDeleteOn ==
  ASSUME TypeInv, HoldInv, GivenUp, EarlyHaveRows', DeleteOn
  PROVE  HoldInv'
  <1> USE Purgers
  <1>l. LocalOK /\ rows \in [Env -> {"none", "full", "bare", "gone"}]
    BY DEF TypeInv, DataOK
  <1>d. DeletionInv
    BY DEF HoldInv
  <1>b. HolderKeepsBlobs'
    BY HoldBlobs DEF DeleteOn, DeleteSigners, DeleteRows, PurgeDeleted
  <1>1. CASE DeleteSigners
    <2>1. \A q \in Purger : q # Deletion => SameAt(q)
      BY <1>l, <1>1 DEF DeleteSigners, Advance, SameAt, localVars, LocalOK
    <2>2. pc'[Deletion] = "rows" /\ hand'[Deletion] = hand[Deletion]
      BY <1>l, <1>1 DEF DeleteSigners, Advance, localVars, LocalOK
    <2>3. /\ hand'[Deletion] \subseteq doomed'
          /\ \A e \in doomed' \cap Early : HasRow(e)'
      BY <1>l, <1>d, <1>1, <2>2, RetentionAssumption
      DEF DeleteSigners, DeletionInv, HasRow
    <2>4. PurgerInv(Deletion)' /\ DeletionInv'
      BY <2>2, <2>3 DEF PurgerInv, DeletionInv
    <2> QED BY <1>b, <2>1, <2>4, KnowsStill DEF HoldInv
  <1>2. CASE DeleteRows
    <2>1. Onward(Deletion, hand[Deletion])
      BY <1>2 DEF DeleteRows
    <2>2. \A q \in Purger : q # Deletion => PurgerInv(q)'
      BY <1>l, <2>1, OnwardMoves, KnowsStill
    <2>3. hand'[Deletion] \subseteq doomed /\ pc'[Deletion] \in {"idle", "pick"}
      BY <1>l, <1>d, <1>2, <2>1, OnwardMoves DEF DeleteRows, DeletionInv
    <2>4. \A e \in doomed \cap Early : ~Holds(e)'
      BY <1>2, RetentionAssumption DEF DeleteRows, Holds, HasRow
    <2>5. PurgerInv(Deletion)' /\ DeletionInv'
      BY <2>3, <2>4 DEF PurgerInv, DeletionInv
    <2> QED BY <1>b, <2>2, <2>5 DEF HoldInv
  <1>3. ASSUME NEW e \in Env, PurgeDeleted(e) PROVE HoldInv'
    <2>1. TakeUp(Deletion, e, "select", read[Deletion])
      BY <1>3 DEF PurgeDeleted
    <2>2. \A q \in Purger : q # Deletion => PurgerInv(q)'
      BY <1>l, <2>1, TakeUpMoves, KnowsStill
    <2>3. \A f \in hand[Deletion] \cap Early : ~Holds(f)'
      BY <1>d, <1>3 DEF PurgeDeleted, DeletionInv, GivenUp
    <2>4. /\ pc'[Deletion] = "select" /\ cur'[Deletion] = e
          /\ hand'[Deletion] \subseteq hand[Deletion]
          /\ e \in hand[Deletion]
      BY <1>l, <1>3, <2>1, TakeUpMoves DEF PurgeDeleted
    <2>5. PurgerInv(Deletion)'
      BY <2>3, <2>4 DEF PurgerInv
    <2>6. DeletionInv'
      BY <2>3, <2>4 DEF DeletionInv
    <2> QED BY <1>b, <2>2, <2>5, <2>6 DEF HoldInv
  <1> QED BY <1>1, <1>2, <1>3 DEF DeleteOn

(* A deletion in its purge goes on with the hand it has, or stops. *)
LEMMA DeletionPurges ==
  ASSUME TypeInv, HoldInv, GivenUp, UNCHANGED rows,
         pc[Deletion] \in {"pick", "stamp", "select", "delete"},
         pc'[Deletion] \in {"idle", "pick", "stamp", "select", "delete"},
         hand'[Deletion] \subseteq hand[Deletion]
  PROVE  DeletionInv'
  BY DEF HoldInv, DeletionInv, GivenUp

(* The purge: the envelope is over before its keys are chosen, and the     *)
(* document is among them only when every other one is over too.           *)
LEMMA HoldPurge ==
  ASSUME TypeInv, HoldInv, GivenUp, EarlyHaveRows', NEW p \in Purger, Purge(p)
  PROVE  HoldInv'
  <1> USE Purgers, RetentionAssumption
  <1>l. LocalOK /\ StoreOK
    BY DEF TypeInv
  <1>p. PurgerInv(p)
    BY DEF HoldInv
  <1>1. CASE Stamp(p)
    <2>1. \A q \in Purger : q # p => SameAt(q)
      BY <1>l, <1>1 DEF Stamp, Advance, SameAt, localVars, LocalOK
    <2>2. pc[p] = "stamp" /\ pc'[p] = "select" /\ cur'[p] = cur[p] /\ hand' = hand
      BY <1>l, <1>1 DEF Stamp, Advance, localVars, LocalOK
    <2>3. (HasRow(cur[p]) => cur[p] \in stamped') /\ UNCHANGED rows
      BY <1>1 DEF Stamp, dataVars
    <2>4. PurgerInv(p)'
      BY <2>2, <2>3 DEF PurgerInv, Holds, HasRow
    <2>5. DeletionInv'
      <3>1. CASE p = Deletion
        BY <1>1, <2>2, <3>1, DeletionPurges DEF Stamp, dataVars
      <3>2. CASE p # Deletion
        BY <1>1, <2>1, <2>2, <3>2, DeletionStill
        DEF Stamp, SameAt, HasRow, dataVars
      <3> QED BY <3>1, <3>2
    <2>6. HolderKeepsBlobs'
      BY <1>1, HoldBlobs DEF Stamp
    <2> QED BY <2>1, <2>4, <2>5, <2>6, KnowsStill DEF HoldInv
  <1>d. ASSUME NEW ks \in SUBSET {"cover", "document"}, Delete(p, ks),
               pc[p] \in {"select", "delete"}, UNCHANGED <<rows, stamped, doomed>>,
               "document" \in ks => \A e \in Early : ~Holds(e)
        PROVE  (\A q \in Purger : PurgerInv(q)') /\ DeletionInv'
    <2>1. \A q \in Purger : q # p => PurgerInv(q)'
      BY <1>l, <1>d, DeleteMoves, KnowsStill
    <2>2. PurgerInv(p)'
      BY <1>l, <1>p, <1>d, DeleteMoves DEF PurgerInv, Holds, HasRow
    <2>3. pc'[p] \in {"idle", "pick", "delete"} /\ hand'[p] = hand[p]
      BY <1>l, <1>d, DeleteMoves
    <2>4. CASE p = Deletion
      BY <1>d, <2>1, <2>2, <2>3, <2>4, DeletionPurges
    <2>5. CASE p # Deletion
      <3>1. SameAt(Deletion) /\ hand'[Deletion] = hand[Deletion]
        BY <1>l, <1>d, <2>5, DeleteMoves
      <3>2. DeletionInv'
        BY <1>d, <3>1, DeletionStill DEF SameAt, HasRow
      <3> QED BY <2>1, <2>2, <3>2
    <2> QED BY <2>4, <2>5
  <1>2. CASE Select(p)
    <2> DEFINE ks == (IF Knows(p, cur[p]) THEN {"cover"} ELSE {}) \cup
                     (IF \E e \in Env \ {cur[p]} : Holds(e) THEN {}
                      ELSE {"document"})
    <2>1. Delete(p, ks) /\ pc[p] = "select" /\ UNCHANGED <<rows, stamped, doomed>>
      BY <1>2 DEF Select, dataVars
    <2>2. "document" \in ks => \A e \in Early : ~Holds(e)
      BY <1>p, <2>1 DEF PurgerInv
    <2>3. ks \in SUBSET {"cover", "document"}
      OBVIOUS
    <2>4. (\A q \in Purger : PurgerInv(q)') /\ DeletionInv'
      <3> HIDE DEF ks
      <3> QED BY <1>d, <2>1, <2>2, <2>3
    <2> QED BY <1>2, <2>4, HoldBlobs DEF Select, HoldInv
  <1>3. ASSUME NEW k \in {"cover", "document"}, DeleteKey(p, k) PROVE HoldInv'
    <2>1. /\ pc[p] = "delete" /\ k \in keys[p] /\ Delete(p, keys[p] \ {k})
          /\ UNCHANGED <<rows, stamped, doomed>>
      BY <1>3 DEF DeleteKey, dataVars
    <2>2. keys[p] \ {k} \in SUBSET {"cover", "document"}
      BY <1>l DEF LocalOK
    <2>3. (\A q \in Purger : PurgerInv(q)') /\ DeletionInv'
      BY <1>d, <1>p, <2>1, <2>2 DEF PurgerInv
    <2>4. HolderKeepsBlobs'
      <3>1. HolderKeepsBlobs
        BY DEF HoldInv
      <3>2. CASE k = "document"
        <4>1. \A e \in Early : ~Holds(e)
          BY <1>p, <2>1, <3>2 DEF PurgerInv
        <4> QED BY <4>1 DEF GivenUp, HolderKeepsBlobs
      <3>3. CASE k = "cover"
        <4>1. cur[p] \in Early => ~Holds(cur[p])
          BY <1>p, <2>1 DEF PurgerInv
        <4>2. document' = document /\ covers \ {cur[p]} \subseteq covers'
          BY <1>3, <1>l, <3>3, Zenon DEF DeleteKey, StoreOK
        <4> QED BY <2>1, <3>1, <4>1, <4>2 DEF HolderKeepsBlobs, Holds, HasRow
      <3> QED BY <3>2, <3>3
    <2> QED BY <2>3, <2>4 DEF HoldInv
  <1> QED BY <1>1, <1>2, <1>3 DEF Purge

(* A purge that is cut short deletes nothing more. *)
LEMMA HoldCrash ==
  ASSUME TypeInv, HoldInv, GivenUp, EarlyHaveRows', NEW p \in Purger, Crash(p)
  PROVE  HoldInv'
  <1> USE Purgers
  <1>l. LocalOK
    BY DEF TypeInv
  <1>1. Onward(p, {})
    BY DEF Crash
  <1>2. \A q \in Purger : q # p => PurgerInv(q)'
    BY <1>l, <1>1, OnwardMoves, KnowsStill
  <1>3. PurgerInv(p)' /\ (p = Deletion => DeletionInv')
    BY <1>l, <1>1, OnwardMoves DEF PurgerInv, DeletionInv
  <1>4. p # Deletion => DeletionInv'
    BY <1>l, <1>1, OnwardMoves, DeletionStill DEF Crash, SameAt, HasRow, dataVars
  <1>5. HolderKeepsBlobs'
    BY HoldBlobs DEF Crash
  <1> QED BY <1>2, <1>3, <1>4, <1>5 DEF HoldInv

LEMMA NextHold == TypeInv /\ HoldInv /\ [Next]_vars => HoldInv'
  <1> SUFFICES ASSUME TypeInv, HoldInv, [Next]_vars PROVE HoldInv'
    OBVIOUS
  <1>1. CASE UNCHANGED vars
    BY <1>1
    DEF vars, dataVars, localVars, HoldInv, EarlyHaveRows, PurgerInv, DeletionInv,
        HolderKeepsBlobs, Holds, HasRow
  <1>2. CASE Next
    <2>1. GivenUp /\ EarlyHaveRows'
      BY <1>2, OnceOver
    <2>2. CASE \E e \in Env : Upload(e) \/ Insert(e) \/ StoreCovers(e) \/ Distribute(e)
                                \/ Age(e) \/ \E s \in Signer : Confirm(e, s)
      BY <2>1, <2>2, HoldEnvelopes
    <2>3. CASE SweepOn \/ Gather \/ \E e \in Env : Close(e) \/ RunChain(e)
      BY <2>1, <2>3, HoldStarts DEF SweepOn
    <2>4. CASE DeleteOn
      BY <2>1, <2>4, HoldDeleteOn
    <2>5. CASE \E p \in Purger : Purge(p) \/ Crash(p)
      BY <2>1, <2>5, HoldPurge, HoldCrash
    <2> QED BY <1>2, <2>2, <2>3, <2>4, <2>5 DEF Next
  <1> QED BY <1>1, <1>2

(* An envelope not given up for purging keeps its covers and the document, *)
(* however many purges of its siblings run at once (Retention's            *)
(* HolderKeepsBlobs; the covers and D of pdf/blobPurge.ts).                *)
THEOREM HoldersKeep == Spec => []HolderKeepsBlobs
  <1>1. HoldInv => HolderKeepsBlobs
    BY DEF HoldInv
  <1>2. TypeInv /\ HoldInv /\ [Next]_vars => (TypeInv /\ HoldInv)'
    BY NextType, NextHold
  <1> QED BY <1>1, <1>2, InitType, InitHold, PTL DEF Spec
=============================================================================
