------------------------------ MODULE Retention ------------------------------
(***************************************************************************)
(* How stored documents are freed.  Envelopes made from the same upload    *)
(* share one content-addressed blob, the document D; each has covers of    *)
(* its own.  A void or an expiry, the completion_retention chain, the      *)
(* daily sweep and an account deletion all stamp an envelope and then run  *)
(* purgeEnvelopeBlobs, at the grain of single awaits and with nothing that *)
(* keeps them apart.  How an envelope comes to its end is module Envelope. *)
(***************************************************************************)
EXTENDS Integers, FiniteSets

CONSTANTS
  Env,       \* envelopes made from one upload
  Early,     \* those whose creation is over at the start
  Owned,     \* those of the creator whose account is deleted
  Signer,    \* the signers of each envelope
  MaxPurgers, \* bound: purgers at work at once
  MaxCrashes  \* bound: processes and storage calls that fail

ASSUME RetentionAssumption ==
  /\ Early \subseteq Env
  /\ Owned \subseteq Env
  /\ Signer # {}
  /\ MaxPurgers \in Nat
  /\ MaxCrashes \in Nat

VARIABLES
  \* database
  rows,     \* "none", "full", "bare" (signer rows deleted) or "gone"
  state,    \* "open", "closed" (voided or expired) or "completed"
  age,      \* since completed_at: 0, 1 (7 days) or 2 (30 days)
  stamped,  \* envelopes whose pdf_deleted_at is set
  answer,   \* what became of each signer's completion mail
  \* storage
  document, \* D is stored
  covers,   \* envelopes whose covers are stored
  \* creations that have stored D or the row, but not yet the covers
  making,
  \* purgers
  chain,    \* envelopes with a completion_retention run ahead
  pc, cur,  \* where each purger is, and with which envelope
  hand,     \* envelopes it has still to look at
  read,     \* envelopes whose signer rows it has read
  keys,     \* blobs it has still to delete
  doomed,   \* envelopes the account deletion found
  crashes,  \* failures so far
  cut,      \* one of them cut a purge short
  blind     \* envelopes purged by someone who found no signer rows

dataVars  == <<rows, state, age, answer>>
localVars == <<cur, hand, read, keys>>
vars == <<dataVars, stamped, document, covers, making, chain, pc, localVars,
          doomed, crashes, cut, blind>>

Closer(e) == <<"close", e>>
Chain(e)  == <<"chain", e>>
Sweep     == <<"sweep", "all">>
Deletion  == <<"deletion", "all">>
Purger == {Closer(e) : e \in Env} \cup {Chain(e) : e \in Env} \cup {Sweep, Deletion}

Pcs == {"idle", "pick", "stamp", "select", "delete", "signers", "rows"}
None == "none"

NoAnswer == [s \in Signer |-> "none"]

Init ==
  /\ rows = [e \in Env |-> IF e \in Early THEN "full" ELSE "none"]
  /\ state = [e \in Env |-> "open"]
  /\ age = [e \in Env |-> 0]
  /\ stamped = {}
  /\ answer = [e \in Env |-> NoAnswer]
  /\ document = (Early # {})
  /\ covers = Early
  /\ making = {}
  /\ chain = {}
  /\ pc = [p \in Purger |-> "idle"]
  /\ cur = [p \in Purger |-> None]
  /\ hand = [p \in Purger |-> {}]
  /\ read = [p \in Purger |-> {}]
  /\ keys = [p \in Purger |-> {}]
  /\ doomed = {}
  /\ crashes = 0 /\ cut = FALSE
  /\ blind = {}

HasRow(e) == rows[e] \in {"full", "bare"}

-----------------------------------------------------------------------------
(* Envelopes come and go.  handleCreateEnvelope stores D, inserts the row, *)
(* then stores the covers.                                                 *)
Upload(e) ==
  /\ rows[e] = "none" /\ e \notin making
  /\ document' = TRUE
  /\ making' = making \cup {e}
  /\ UNCHANGED <<dataVars, stamped, covers, chain, pc, localVars, doomed, crashes, cut, blind>>

Insert(e) ==
  /\ e \in making /\ rows[e] = "none"
  /\ rows' = [rows EXCEPT ![e] = "full"]
  /\ UNCHANGED <<state, age, answer, stamped, document, covers, making, chain, pc,
                 localVars, doomed, crashes, cut, blind>>

StoreCovers(e) ==
  /\ e \in making /\ rows[e] # "none"
  /\ covers' = covers \cup {e}
  /\ making' = making \ {e}
  /\ UNCHANGED <<dataVars, stamped, document, chain, pc, localVars, doomed, crashes, cut, blind>>

(* distributeEnvelopeBundle is through, and has scheduled the chain or not. *)
Distribute(e) ==
  /\ HasRow(e) /\ state[e] = "open" /\ document /\ e \in covers
  /\ state' = [state EXCEPT ![e] = "completed"]
  /\ chain' \in {chain, chain \cup {e}}
  /\ UNCHANGED <<rows, age, answer, stamped, document, covers, making, pc, localVars,
                 doomed, crashes, cut, blind>>

(* Mutant: a bounce that is not permanent is recorded as well. *)
ConfirmAny(e, s) ==
  /\ rows[e] = "full" /\ state[e] = "completed"
  /\ answer[e][s] = "none"
  /\ \E a \in {"delivered", "bounced", "transient"} : answer' = [answer EXCEPT ![e][s] = a]
  /\ UNCHANGED <<rows, state, age, stamped, document, covers, making, chain, pc,
                 localVars, doomed, crashes, cut, blind>>

(* handleCompletionDelivered, handleCompletionBounced: the first answer    *)
(* for a signer counts.                                                    *)
Confirm(e, s) ==
  /\ rows[e] = "full" /\ state[e] = "completed"
  /\ answer[e][s] = "none"
  /\ \E a \in {"delivered", "bounced"} : answer' = [answer EXCEPT ![e][s] = a]
  /\ UNCHANGED <<rows, state, age, stamped, document, covers, making, chain, pc,
                 localVars, doomed, crashes, cut, blind>>

(* Time is of interest until the envelope is stamped. *)
Age(e) ==
  /\ HasRow(e) /\ state[e] = "completed" /\ e \notin stamped
  /\ age[e] < 2
  /\ age' = [age EXCEPT ![e] = @ + 1]
  /\ UNCHANGED <<rows, state, answer, stamped, document, covers, making, chain, pc,
                 localVars, doomed, crashes, cut, blind>>

-----------------------------------------------------------------------------
(* shouldDeletePdf, of an envelope not stamped.  Without signer rows no    *)
(* copy is confirmed.                                                      *)
ShouldDelete(e) ==
  LET Answers(x) == {s \in Signer : answer[e][s] = x} IN
  \/ state[e] = "closed"
  \/ /\ state[e] = "completed"
     /\ \/ age[e] = 2
        \/ age[e] = 1 /\ Answers("bounced") # {}
        \/ Answers("delivered") = Signer

Advance(p, there) == pc' = [pc EXCEPT ![p] = there]

SignersOf(e) == IF rows[e] = "full" THEN {e} ELSE {}

Starts(p) ==
  /\ pc[p] = "idle"
  /\ Cardinality({q \in Purger : pc[q] # "idle"}) < MaxPurgers

(* A purger takes up an envelope, and knows the signers it has read. *)
TakeUp(p, e, there, known) ==
  /\ Advance(p, there)
  /\ cur' = [cur EXCEPT ![p] = e]
  /\ hand' = [hand EXCEPT ![p] = @ \ {e}]
  /\ read' = [read EXCEPT ![p] = known]
  /\ UNCHANGED keys

(* It is through with an envelope, and goes on to the others it has, if any. *)
Onward(p, others) ==
  /\ Advance(p, IF others = {} THEN "idle" ELSE "pick")
  /\ cur' = [cur EXCEPT ![p] = None]
  /\ hand' = [hand EXCEPT ![p] = others]
  /\ read' = [read EXCEPT ![p] = IF others = {} THEN {} ELSE @]
  /\ keys' = [keys EXCEPT ![p] = {}]

(* handleVoidEnvelope and envelope_expire: the claim of the open envelope. *)
(* The signers are read after the stamp, as a void does.                   *)
Close(e) ==
  /\ Starts(Closer(e))
  /\ HasRow(e) /\ state[e] = "open"
  /\ state' = [state EXCEPT ![e] = "closed"]
  /\ TakeUp(Closer(e), e, "stamp", {})
  /\ UNCHANGED <<rows, age, answer, stamped, document, covers, making, chain,
                 doomed, crashes, cut, blind>>

(* completion_retention: purge, or else schedule another look, or leave it *)
(* to the sweep (the last attempt, or no run could be created).            *)
RunChain(e) ==
  /\ Starts(Chain(e)) /\ e \in chain
  /\ chain' = chain \ {e}
  /\ IF HasRow(e) /\ e \notin stamped /\ ShouldDelete(e)
     THEN TakeUp(Chain(e), e, "stamp", SignersOf(e))
     ELSE UNCHANGED <<pc, localVars>>
  /\ UNCHANGED <<dataVars, stamped, document, covers, making, doomed, crashes, cut, blind>>

(* Mutant: the sweep looks at completed envelopes only. *)
ScanCompleted ==
  /\ Starts(Sweep)
  /\ LET due == {e \in Env : HasRow(e) /\ e \notin stamped /\ state[e] = "completed"} IN
     /\ due # {}
     /\ hand' = [hand EXCEPT ![Sweep] = due]
     /\ Advance(Sweep, "pick")
  /\ UNCHANGED <<dataVars, stamped, document, covers, making, chain, cur, read, keys,
                 doomed, crashes, cut, blind>>

(* sweepRetention: the candidates, read once. *)
Scan ==
  /\ Starts(Sweep)
  /\ LET due == {e \in Env : HasRow(e) /\ e \notin stamped /\ state[e] # "open"} IN
     /\ due # {}
     /\ hand' = [hand EXCEPT ![Sweep] = due]
     /\ Advance(Sweep, "pick")
  /\ UNCHANGED <<dataVars, stamped, document, covers, making, chain, cur, read, keys,
                 doomed, crashes, cut, blind>>

(* It decides about one of them from the scanned row and its signers as    *)
(* they are now: a stamp set since the scan goes unseen.                   *)
Pick(e) ==
  /\ pc[Sweep] = "pick" /\ e \in hand[Sweep]
  /\ IF ShouldDelete(e)
     THEN TakeUp(Sweep, e, "stamp", SignersOf(e))
     ELSE Onward(Sweep, hand[Sweep] \ {e})
  /\ UNCHANGED <<dataVars, stamped, document, covers, making, chain, doomed,
                 crashes, cut, blind>>

(* deleteAccount: envelopes and signers are read, the signer rows deleted, *)
(* then the envelope rows; only then are the blobs purged.                 *)
Gather ==
  /\ Starts(Deletion)
  /\ doomed' = {e \in Owned : HasRow(e)}
  /\ doomed' # {}
  /\ hand' = [hand EXCEPT ![Deletion] = doomed' \ stamped]
  /\ read' = [read EXCEPT ![Deletion] = UNION {SignersOf(e) : e \in doomed'}]
  /\ Advance(Deletion, "signers")
  /\ UNCHANGED <<dataVars, stamped, document, covers, making, chain, cur, keys,
                 crashes, cut, blind>>

DeleteSigners ==
  /\ pc[Deletion] = "signers"
  /\ rows' = [e \in Env |-> IF e \in doomed THEN "bare" ELSE rows[e]]
  /\ answer' = [e \in Env |-> IF e \in doomed THEN NoAnswer ELSE answer[e]]
  /\ Advance(Deletion, "rows")
  /\ UNCHANGED <<state, age, stamped, document, covers, making, chain,
                 localVars, doomed, crashes, cut, blind>>

DeleteRows ==
  /\ pc[Deletion] = "rows"
  /\ rows' = [e \in Env |-> IF e \in doomed THEN "gone" ELSE rows[e]]
  /\ doomed' = {}
  /\ Onward(Deletion, hand[Deletion])
  /\ UNCHANGED <<state, age, answer, stamped, document, covers, making, chain,
                 crashes, cut, blind>>

PurgeDeleted(e) ==
  /\ pc[Deletion] = "pick" /\ e \in hand[Deletion]
  /\ TakeUp(Deletion, e, "select", read[Deletion])
  /\ UNCHANGED <<dataVars, stamped, document, covers, making, chain, doomed,
                 crashes, cut, blind>>

-----------------------------------------------------------------------------
(* The purge that they share.  markEnvelopePdfDeleted: *)
Stamp(p) ==
  /\ pc[p] = "stamp"
  /\ stamped' = IF HasRow(cur[p]) THEN stamped \cup {cur[p]} ELSE stamped
  /\ Advance(p, "select")
  /\ UNCHANGED <<dataVars, document, covers, making, chain, localVars, doomed,
                 crashes, cut, blind>>

(* purgeEnvelopeBlobs: the covers of the signers it knows, and D when no   *)
(* other envelope holds it.                                                *)
Holds(e) == HasRow(e) /\ e \notin stamped

Knows(p, e) == e \in read[p] \/ (p = Closer(e) /\ rows[e] = "full")

(* The blobs it has still to delete. *)
Delete(p, ks) ==
  IF ks = {} THEN Onward(p, hand[p])
  ELSE Advance(p, "delete") /\ keys' = [keys EXCEPT ![p] = ks]
       /\ UNCHANGED <<cur, hand, read>>

(* Mutant: only envelopes still being signed hold the document. *)
SelectAmongOpen(p) ==
  /\ pc[p] = "select"
  /\ Delete(p, (IF Knows(p, cur[p]) THEN {"cover"} ELSE {}) \cup
               (IF \E e \in Env \ {cur[p]} : Holds(e) /\ state[e] = "open" THEN {}
                ELSE {"document"}))
  /\ blind' = IF Knows(p, cur[p]) THEN blind ELSE blind \cup {cur[p]}
  /\ UNCHANGED <<dataVars, stamped, document, covers, making, chain, doomed,
                 crashes, cut>>

Select(p) ==
  /\ pc[p] = "select"
  /\ Delete(p, (IF Knows(p, cur[p]) THEN {"cover"} ELSE {}) \cup
               (IF \E e \in Env \ {cur[p]} : Holds(e) THEN {} ELSE {"document"}))
  /\ blind' = IF Knows(p, cur[p]) THEN blind ELSE blind \cup {cur[p]}
  /\ UNCHANGED <<dataVars, stamped, document, covers, making, chain, doomed,
                 crashes, cut>>

(* The covers go first; a key that cannot be deleted is counted and left.  *)
DeleteKey(p, k) ==
  /\ pc[p] = "delete" /\ k \in keys[p]
  /\ k = "document" => keys[p] = {"document"}
  /\ Delete(p, keys[p] \ {k})
  /\ \/ /\ covers' = IF k = "cover" THEN covers \ {cur[p]} ELSE covers
        /\ document' = (document /\ k # "document")
        /\ UNCHANGED <<crashes, cut>>
     \/ /\ crashes < MaxCrashes
        /\ crashes' = crashes + 1
        /\ cut' = TRUE
        /\ UNCHANGED <<covers, document>>
  /\ UNCHANGED <<dataVars, stamped, making, chain, doomed, blind>>

(* A query throws or the process dies; a run is run again.  Blobs are at   *)
(* stake once an envelope is stamped or its rows are being deleted.        *)
Crash(p) ==
  /\ pc[p] # "idle"
  /\ crashes < MaxCrashes
  /\ crashes' = crashes + 1
  /\ cut' = (cut \/ pc[p] \in {"select", "delete"} \/ p = Deletion)
  /\ Onward(p, {})
  /\ doomed' = IF p = Deletion THEN {} ELSE doomed
  /\ chain' = chain \cup {e \in Env : p = Chain(e)}
  /\ UNCHANGED <<dataVars, stamped, document, covers, making, blind>>

Purge(p) ==
  \/ Stamp(p) \/ Select(p)
  \/ \E k \in {"cover", "document"} : DeleteKey(p, k)

SweepOn == Scan \/ \E e \in Env : Pick(e)

DeleteOn == DeleteSigners \/ DeleteRows \/ \E e \in Env : PurgeDeleted(e)

Next ==
  \/ \E e \in Env :
       \/ Upload(e) \/ Insert(e) \/ StoreCovers(e)
       \/ Distribute(e) \/ Age(e) \/ Close(e) \/ RunChain(e)
       \/ \E s \in Signer : Confirm(e, s)
  \/ SweepOn \/ Gather \/ DeleteOn
  \/ \E p \in Purger : Purge(p) \/ Crash(p)

Spec == Init /\ [][Next]_vars

(* Envelopes grow old, the sweep is scheduled every day, and a purger that *)
(* has started runs on unless it crashes.                                  *)
Fairness ==
  /\ WF_vars(\E e \in Env : Age(e))
  /\ WF_vars(SweepOn \/ Purge(Sweep))
  /\ WF_vars(DeleteOn \/ \E p \in Purger \ {Sweep} : Purge(p))

FairSpec == Spec /\ Fairness

-----------------------------------------------------------------------------
(* Every variable has the type its comment gives. *)
TypeOK ==
  /\ rows \in [Env -> {"none", "full", "bare", "gone"}]
  /\ state \in [Env -> {"open", "closed", "completed"}]
  /\ age \in [Env -> 0..2]
  /\ stamped \subseteq Env
  /\ answer \in [Env -> [Signer -> {"none", "delivered", "bounced"}]]
  /\ document \in BOOLEAN
  /\ covers \subseteq Env /\ making \subseteq Env /\ chain \subseteq Env
  /\ pc \in [Purger -> Pcs]
  /\ cur \in [Purger -> Env \cup {None}]
  /\ hand \in [Purger -> SUBSET Env]
  /\ read \in [Purger -> SUBSET Env]
  /\ keys \in [Purger -> SUBSET {"cover", "document"}]
  /\ doomed \subseteq Env
  /\ crashes \in 0..MaxCrashes /\ cut \in BOOLEAN
  /\ blind \subseteq Env

(* An envelope that has not been given up for purging keeps its covers and  *)
(* the document, however many purges of its siblings run at once: whoever   *)
(* deletes D has seen, after giving up its own claim, that no one else has  *)
(* one.  (For envelopes whose creation does not overlap a purge.)           *)
HolderKeepsBlobs ==
  \A e \in Early : Holds(e) => document /\ e \in covers

(* Nothing is stored that only this envelope needed.  Covers are found by   *)
(* their signers' rows: a void that overlaps an account deletion, after its *)
(* stamp and before the question, finds none and leaves the covers.         *)
Freed(e) ==
  /\ e \in covers => e \in blind
  /\ document => (\E f \in Env \ {e} : Holds(f) \/ f \in making)

Over(e) == rows[e] = "gone" \/ state[e] # "open"

(* When an envelope is over, its covers are freed, and the document too     *)
(* when its last holder is: two last holders purged at once do not leave it *)
(* to each other, and what a crash before the stamp leaves undone is taken  *)
(* up by the sweep.                                                         *)
FreedUnlessCut == \A e \in Early : Over(e) ~> Freed(e) \/ cut

(* Statement of the repository that the code does not keep: "a transient    *)
(* backend blip never aborts the caller's terminal-state transition; the    *)
(* next retention sweep re-attempts anything left behind".                  *)
LeftBehindIsRetried == \A e \in Early : Over(e) ~> Freed(e)

(* Statement of the repository that the code does not keep: "D is deleted   *)
(* ONLY when no OTHER envelope still references it".  An envelope created   *)
(* while a purge is past its question loses the document.                   *)
LiveHasDocument == \A e \in Env : Holds(e) /\ state[e] = "open" => document
=============================================================================
