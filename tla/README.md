# kysigned, modelled in TLA+

kysigned is a service that collects signatures by e-mail. A creator uploads a
document and names the signers; each signer is mailed a PDF of their own, signs
by forwarding that mail back, and when all have signed everybody is mailed one
evidence bundle which a verifier can check without the service. This directory
holds TLA+ models of the server's core (`src/src/{api,db,functions,pdf}`), of
the pages that hold state of their own (`src/frontend/src`), of the payment
doors for software agents (`src/mcp/src`) and of the verifier; TLC runs that
check them on small instances; and TLAPS proofs of every safety property that
a passing run checks.

Paths below are relative to `src/src/` unless they start with another
directory of the repository.

## 1. Inventory

### How the system runs

All shared state is in one SQL database and one blob store. Code runs as

- **HTTP handlers** (`api/`), each a sequence of awaits;
- **durable runs** (`functions/runs.ts`, `functions/runHandlers.ts`): a
  handler of a named event, created with an idempotency key which is kept for
  ever, perhaps with a delay, and started again by the platform when it throws
  or its process dies;
- **scheduled runs**: the daily retention and reconciliation sweeps;
- **pages in a browser** (`frontend/src`): effects, timers and answers that
  arrive in any order, several tabs of one browser that hear each other.

There is *no transaction anywhere*: every `pool.query` is atomic by itself, and
any other handler may run between two awaits. What makes the code right or wrong
is therefore which statement carries a condition in its `WHERE`, which insert
says `ON CONFLICT DO NOTHING`, which value was read before an await and used
after it, and which run key deduplicates what. These are what the models keep.

### Components

| Component | State it keeps | Operations | What makes it correct | Modules |
|---|---|---|---|---|
| Envelope lifecycle, signer edits (`api/envelope.ts`, `db/envelopes.ts`) | `envelopes.status`, `auto_close`, `envelope_signers.*`, cover blobs | create, add, edit, rename, delete a signer, void, expire, park, reactivate, complete | a closed envelope stays closed; an open one can still be served; a completed one never changes its signers; refund only with void | `Envelope`, `EnvelopeLifecycle`, `Nudges` |
| Inbound signing (`api/signing/inboundEmail.ts`) | signer status, `signature_artifacts` | one `reply_received` run per forwarded mail | only the PDF last sent signs; the last signature always leads to a completion run | `Envelope` |
| Signing checks on a message (`api/signing/`) | the key record kept with an artifact | signatures, first visible line, attachment, sender policy | what is accepted at receipt verifies later | `Forward` |
| Seal, statement gate, distribution (`api/sealEnvelope.ts`, `api/distributeBundle.ts`, `api/statementGate.ts`) | `finalizing_since`, interim and alert claims, message ids, `completion_distributed_at` | completion run, seal request, hourly recheck | the wait is bounded, not shortened and announced once; the mark means that all were mailed | `Distribution`, coarser in `Envelope` |
| Completion webhook (`functions/webhookDeliver.ts`) | a run | deliver with retries | is called after the mark | `Distribution`, partly |
| Retention (`pdf/`, `functions/completionRetention.ts`) | `pdf_deleted_at`, confirmations, blobs | void, expiry, retention chain, daily sweep, delivery events | who still needs a blob keeps it; what nobody needs goes | `Retention` |
| Account deletion (`api/accountDeletion.ts`) | all rows of an owner | four steps | as retention | `Retention`, partly |
| Creation, idempotency, credit (`api/envelope.ts`, `api/idempotentCreate.ts`, `db/idempotency.ts`, `db/userCredits.ts`, `api/pricing.ts`) | `idempotency_keys`, `user_credits`, `credit_ledger` | create, replay, x402 payment, gate, debit, refund, grant | one envelope per key; the balance is the sum of the ledger and never negative | `Creation` |
| Pending sends (`api/pendingSend.ts`, `db/pendingSends.ts`) | drafts, their claims and receipts | submit, edit, confirm, sweep | one envelope per draft | `Creation`, `Studio`, partly |
| Create studio (`frontend/src/pages/CreateEnvelopePage.tsx`) | form, held payload, gate, draft handle, refs and timers | compose, store, gate, claim, send, restore, leave | a document is sent once, and not lost by leaving | `Studio` |
| Sessions and sign-in (`api/auth/`, `api/attributionCapture.ts`, `frontend/src/auth/`) | `auth_sessions`, the sign-in screen, stash and storage, the attribution stamp | e-mailed link, code, Google, passkey; refresh, sign-out | no race strands a session; a held document reaches its gate once; one conversion per stamp | `SignIn`, `Session` |
| API keys, bearer access, CSRF (`functions/api.ts`, `api/auth/`) | `api_keys`, cookie | authenticate one request of any route class | a request acts only as what it presented | `Gate` |
| Account pages (`frontend/src/pages`: passkeys, Google, API keys) | a copy of a server-side list | read, change, ceremony, step-up | a quiet page shows the account | `Account` |
| MCP payment doors (`mcp/src`, `api/x402Create.ts`) | the caller's funds, payments, credit, reservation | preflight, pay, create, reply, retry | no payment is lost | `Agent` |
| Reminders, delivery backstop (`functions/`, `api/deliveryBackstop.ts`) | `reminder_count`, `undeliverable_at`, deferred runs | remind, check, mark, bounce | nobody whose mail failed sits in silence | `Nudges` |
| Timestamp upgrade, archive reconciliation (`api/signing/artifactAssembly.ts`, `functions/`) | three anchors of an artifact, the statement, the archive's word | self-rescheduling link, capture, daily sweep | a proof belongs to what it is kept with | `Anchors` |
| Evidence bundle and verifier (`bundle/`, `frontend/src/pages/VerifyPage.tsx`) | the page's verdict | offline tiers, online confirmations, page loads, command line | an outage never lowers a verdict | `Evidence`, `Forward` |
| Durable-run seam (`functions/runs.ts`, `runHandlers.ts`) | run keys | create, handle, retry | each key is run to its end | within the models above |
| HTTP routing and configuration (`functions/api.ts`, `functions/config.ts`) | none | route, wire | as the handlers behind it | `Gate`, and where used |
| Telemetry, attribution, operator views | rows that nothing depends on | fail-open writes, reads | - | the stamp only, in `SignIn` |
| Sender allowlist (`api/senderGate.ts`, `db/allowedSenders.ts`) | a monthly count | none in production | - | not modelled: no production caller |
| PDF and e-mail rendering | none | layout, wording | - | not modelled: version numbers |
| Platform adapters | none | one call each | - | not modelled: the assumptions |
| Other pages, CLI, scripts | none that signing reads | readers of the API | - | not modelled, but for the command line's verifier |

### How the components interact

- A forward passes the checks on its message, flips the signer's row, keeps the
  artifact and creates the run `<envelope>:completion`. That run parks a manual
  envelope for its creator's seal request, or calls `distributeEnvelopeBundle`,
  as the seal request does.
- The artifact starts the timestamp chain; the statement gate captures what the
  archive did not serve at receipt, and the daily sweep asks it again.
- `distributeEnvelopeBundle` asks the statement gate, completes the envelope,
  mails everyone, marks it and creates the retention chain and the webhook run.
  A gate that says *wait* creates the next recheck run instead.
- Edits, voids and the expiry run write the same rows while all that goes on; a
  request mail books a backstop and reminders, which read the row again later.
- Void, expiry, chain, sweep and account deletion all call
  `purgeEnvelopeBlobs`, on blobs that envelopes made from one upload share.
- The three ways to create an envelope (keyed request, x402 payment, draft) meet
  in `handleCreateEnvelope`, which debits an account that sign-ins, payments and
  voids write as well. A guest's page stores a draft, shows the sign-in screen at
  its gate, and is overtaken by the tab that the e-mailed link opens.
- Tabs of one browser share the cookie and hear of sign-ins and sign-outs by
  broadcast; requests of one page race for the refresh token.

### Hard behaviours

`PROJECT.json` lists every hazard at its line. By kind: handlers that interleave
at awaits (two last signatures, seal against completion run, void against
distribution, two purges of one document, two debits of one credit, two
refreshes of one token, two sign-ins of one inbox); rows read early and used late
(an edit's `superseded` decision, the distributor's signer list, the sweep's
scan, a chain link's copy, a page's list); runs retried after half their work;
one failed step of several (a mail, a blob deletion, a step after the envelope
row, a ceremony that leaves the page, an archive that is silent); keys that
deduplicate what they should not; answers that change places; payments whose
answer is lost; protocol sequences of legal requests (sign, edit, sign again).

## 2. The modules

### `EnvelopeLifecycle`: what is promised of `envelopes.status`

The abstract specification: which status may follow which, that the delivery
mark belongs to a completed envelope and that a refund belongs to a voided one.
It has three variables and does not know signers, runs or failures. A voided or
expired envelope may turn `completed`: the code does that (finding 1), so the
specification that the code implements has to say it; the promise the comments
make is the separate property `ClosedStaysClosed`, which a violation run refutes.

### `Envelope`: one envelope from creation to delivery

The composition of inbound signing, creator requests, distribution and expiry
around one envelope.

| In the model | In the code |
|---|---|
| `status`, `autoClose`, `distributed`, `row`, `token`, `pdf` | columns of `envelopes` and `envelope_signers` |
| `cover`, `docStored` | cover blobs by signing token, the shared document D |
| `artifact` | the row of `signature_artifacts`, kept by `ON CONFLICT DO NOTHING` |
| `inbox`, `issued` | versions of the per-signer PDF that were mailed, made |
| `wpc`, `wfrom`, `wpdf` | location and locals of each `reply_received` run |
| `cpc`, `ckind`, `cto`, `cnew`, `cseen` | the creator's request: location, kind, row first read |
| `dpc`, `dwho`, `dbundle` | completion run, seal request, recheck run: location, signers read, bundle |
| `ForwardArrives` ... `EnqueueCompletion`, `WorkerFails`, `WorkerRetries` | `processForward` and the handler around it |
| `BeginAdd` ... `PurgeVoided` | the handlers of `api/envelope.ts` |
| `CompleteEnvelope`, `PrepareBundle`, `SendBundle`, ... | `distributeEnvelopeBundle` |

A PDF is a version number, a cover is the version it was made for, a message is
the pair of signer and version. The cryptographic checks are the guard
`Acceptable`, over what the database says when they run. Steps are merged only
where nothing else writes what lies between them; a mail and the mark after it
are merged here because `Distribution` splits them. `Lifecycle` instantiates
`EnvelopeLifecycle` with the three variables as refinement mapping, and
`ImplementsLifecycle` says that `Envelope` implements it.

### `Distribution`: every await of a distributor

One all-signed envelope that nobody edits. The completion run, the seal request
and one recheck run per hour slot go through `distributeEnvelopeBundle` and
`evaluateStatementGate` one await at a time, each with its own stale copy of
`finalizing_since`, of the waiver and of the message ids. Time is counted in
half-hours (`Tick`), because the gate's recheck delay is 30 minutes and its slots
are hours; `WaitBound` is the bound of the wait. Mails and storage may fail,
`MaxFailures` times. Many deliveries to one person are counted up to two.

### `Retention`: who may delete what, when

Envelopes (`Env`) made from one upload share `document`; each has its own
covers, taken as one blob. Void and expiry (`Closer`), the retention chain
(`Chain`), the daily sweep and account deletion are *purgers*, each one await
per step: read, stamp, ask for other holders, delete. `Early` are the envelopes
whose retention dates pass (rules by age of `pdf/retention.ts`), `Owned` those of
the deleted account. Delivery, bounce and complaint answers arrive at any time.

### `Creation`: doors, keys and money

A client goes through a *door*: an idempotency key, an x402 payment or a draft.
`Reserve`, `Look`, `Claim` are the conditional inserts and updates of
`db/idempotency.ts` and `db/pendingSends.ts`; `Gate`, `Debit`, `Credit`, `Refund`
those of `db/userCredits.ts`. A create may throw, or its process die, before or
after the envelope's row. `ledger` is the set of ledger rows, each under its
reference, as the table's unique index keeps it.

### `SignIn`: the doors into an account

One visitor, one inbox: the e-mailed link, the code of the same mail, Google,
with or without a filled-in document held at the send gate (`Gate`). `challenge`,
`ceremony` and `spent` are what the platform owns (external: it issues and spends
them); `flow` is where the server is with each door's completion, one await per
step through grant, `capture`, `stamp` and conversion
(`api/attributionCapture.ts`); `draft` is the pending send; `screen` is
`SignInScreen.tsx` with its refs, `mail`, `stash`, `storage` and `cookie` are
what outlives a page load. Every request is answered by a later step, so answers
change places; the Google ceremony unloads the page and loads the landing one.

### `Studio`: the create page in two tabs

`CreateEnvelopePage.tsx` in the tab that composed the document and in the tab
that the e-mailed link opens, in the same browser or another (`shared`). What a
form shows is a version number; the page remembers the version it stored and
the one its held payload was made from, as the refs of the code do. `pending`
is the `pending_sends` row with its claim and receipt; `call` is what each tab
has in flight. Effects (`SeeSession`, `GateFires`), the poll of the draft
(`WatchDraft`), claim, create and receipt are actions, as are edits, leaving,
dismissal, a second "send link" and the daily sweep.

### `Session`: cookies, refresh and tabs

`session` are the rows of `auth_sessions`, `live` the platform's refresh token
(external), which every use rotates. A request carries the cookie it was sent
with and goes through `Resolve`, `RefreshToken`, `WriteTokens`, `Handle`,
`Answer`; several of one browser overlap with sign-in, sign-out, expiry and
revocation. `jar` is the browser's cookie; the tabs believe what
`/v1/auth/user` last told them and hear broadcasts (`AuthContext.tsx`).

### `Gate`: whom a request acts as

One request (`visit`) on any class of route, with any header (key, tracking
token, something broken) and cookie, goes through the route table, session
lookup, CSRF check, operator list and key lookup, and then through the owner
check of its handler. Meanwhile another browser signs out, mints and revokes.

### `Account`: pages that show a copy

The passkey, Google and API-key pages read a list, change it with calls of their
own and read again. `holds` is the account, `page.shows` the copy on screen;
reads and calls are answered in any order, fail or lose their answer, and
connecting Google leaves the page and comes back to a fresh one.

### `Agent`: paid creates by software

Calls of the local MCP server (`server.ts`) and of the web one (`webPay.ts`)
from preflight over terms, balance and payment to credit, reservation, create
and answer (`x402Create.ts`). The payment gateway settles before the handler
runs (external). An answer may be lost, a handler throw, a process die; the agent
calls again under the same key, one it was told, or a new one.

### `Nudges`: what keeps a request moving

One signer's `row`, from its first request mail on: `due` and `booked` are the
deferred runs and the keys the run store keeps for ever, `runner` a run with the
row it loaded, `hand` a creator's call (send, edit, resend, remind) with the row
it loaded. Bounces, signature, closing and crashes come at any time.

### `Anchors`: timestamps of an artifact

`art` is the `signature_artifacts` row with its three OpenTimestamps anchors;
`links` the upgrade runs, each of which loads the row, asks the calendars
(external) and saves; `grabs` are evaluations of the statement gate that each
fetch a statement and stamp it; the sweep looks at rows inside its age window.
`MaxAttempts` is the chain's own bound (180 in the code).

### `Forward`: accepted once, verified later

`processForward`'s checks over messages described by what the checks tell apart
(signatures with algorithm, expiry and length tag, the first visible line of
each part, the attachment, the receipt verdict, the ARC seal). Keys live in DNS
and may be replaced or out of reach; an accepted message leaves the key found
afterwards. `sealed` is the bundle with its `keys.json`; `BundleDkim` and
`BundleDkimWeb` are the two engines that read it.

### `Evidence`: the verdict

The tier rules of `bundle/` as operators over what each signer's evidence is
worth, and the `/verify` page that shows the offline verdict, asks archive and
calendars in the background and folds their answers into the verdict on screen
while files follow one another. `RunVerifyCli` is the command line.

### `Service`: the parts side by side

`Session`, `Agent`, `Gate`, `Account`, `Anchors`, `Nudges`, `Forward` and
`Evidence` keep their state to themselves: no action of one reads or writes a
variable of another. `Service` has all their variables and one more, `scene`,
the part whose steps the behaviour takes (`Scenes` says which may be played).
An invariant of every scene is an invariant of every interleaving, since a step
of one part leaves all that the invariants of the others speak of; so one run
checks the eight parts and no product of their states is ever built.

### Theorem modules and MC modules

`Envelope_proofs`, `Retention_proofs`, `Creation_proofs`, `Distribution_proofs`,
`SignIn_proofs` and `Studio_proofs` hold the theorems about the module they are
named after; `Access_proofs` those about who may act and pay (`Session`, `Agent`,
`Gate`, `Account`); `Service_proofs` those about the other four parts (`Anchors`,
`Nudges`, `Evidence`, `Forward`) and about `Service` itself (section 5).

The models write several fields of one element as a nested update,
`[f EXCEPT ![p] = [f[p] EXCEPT !.a = ..., !.b = ...]]`, never as two paths
`![p].a, ![p].b` into the same element: TLC reads both alike, while the prover's
translation of the second form loses the first path's change, and an action
written so would be contradictory to it. That no action is, was tried for each
disjunct of the next-state relations by asking the prover for `FALSE`.

`MCEnvelope` and `MCCreation` define symmetry sets (workers, clients);
`MCDistribution`, `MCRetention`, `MCSignIn` and `MCStudio` only name the module
for TLC; `MCService` defines the values of two constants: `Assembled`, what an
assembled bundle can hold for a signer, and `Messages` (or `RsaMessages`), the
messages that mail programs send, each with one thing about it.

Operators marked *Mutant* in the modules are plausible bugs;
none of them is used by a specification.

## 3. The runs

| Run | What it asks | Bounds | States |
|---|---|---|---|
| `MCEnvelopeRaces` | with two workers that crash and retry, one creator request and every distributor: `CompletionNotLost`, `DeliveredIsCompleted`, `ImplementsLifecycle`, `TypeOK` | 2 signers, 2 workers, 1 PDF each, 1 request | 2.1 M |
| `MCEnvelopeEdits` | with an edit, rename, add, delete or void cut short anywhere, a second PDF and statement waits: `LifecycleInv`, `OpenCanBeServed`, `SealedStaysQuiet` | 2 signers (1 invited), 1 worker, 2 PDFs, 1 request | 2.2 M |
| `MCEnvelopeDelivery` | liveness: `AutoCloseDelivers`, `ManualParks` | 2 signers, no requests | 17 k |
| `MCDistribution` | `WaitIsHonoured`, `WaitMailsOnce`, `StampMeansMailed`, `TypeOK`, liveness `GateOpenDelivers` | 1 signer and a creator, a wait of 2 half-hours, 3 in all, 2 failures | 0.7 M |
| `MCRetention` | `HolderKeepsBlobs`, `TypeOK`, liveness `FreedUnlessCut` | 2 envelopes, 2 purgers at once, 1 failure | 1.0 M |
| `MCCreation` | `BalanceIsLedger`, `SameAnswer`, `OneEnvelopeUnlessLost`, `TypeOK` | 1 key, 1 payment, 1 draft, 2 payloads, 2 clients, 3 requests, 1 failure | 0.8 M |
| `MCSignIn` | with a document at the send gate: `HeldSendFiresOnce`, `HeldDraftInReach`, `PaidIsConverted`, `NoConfirmAfterVerdict`, `TypeOK`, liveness `WaitingTabMovesOn` | 1 link, 2 codes, 2 tries, 1 Google ceremony, 1 failure | 1.7 M |
| `MCStudio` | two tabs, same browser or not: `EachRouteSendsOnce`, `SilentLeaveKeepsWork`, `StudioTypeOK`, liveness `WaitingTabEnds` | 2 versions, 1 fault | 1.4 M |
| `MCService` | in eight scenes: `TokenNotStranded`, `PaymentsKept`, `ActsAsPresented`, `QuietPageShowsAccount`, `AnchorFitsStatement`, `UnclearIsWatched`, `AcceptedVerifies`, `OutageNeverLowers`, `ServiceTypeOK` | see below | 2.9 M |
| `MCEnvelopeClosed` | `ClosedStaysClosed`, violated | | |
| `MCDistributionWait` | `WaitEnds`, violated | | |
| `MCStudioTwoTabs` | `TwoTabsOneEnvelope`, violated | | |

More configurations lie beside these, for statements of the repository that the
code does not keep; each is violated when run by hand
(`tlc -config <name>.cfg <module>`):

| Configuration | Module | Statement |
|---|---|---|
| `MCEnvelopeReconstruct` | `MCEnvelope` | `BundleReconstructs` |
| `MCRetentionRetry` | `MCRetention` | `LeftBehindIsRetried` |
| `MCRetentionRace` | `MCRetention` | `LiveHasDocument` |
| `MCCreationOnce` | `MCCreation` | `OneEnvelopePerKey` |
| `MCStudioStale` | `MCStudio` | `EmailCarriesHeldDraft` |
| `MCForwardEngines` | `MCService` | `EnginesAgree` |
| `MCAgentRetry` | `MCService` | `NothingPaidTwice` |

Three definitions have no configuration: `GoneStaysGone` of `Session` is proved
(section 5); `PendingAnchorHasLink` of `Anchors` and `VerdictFromItsFile` of
`Evidence` state comments that the code does not keep (section 4).

**Why the bounds are enough.** Each hazard is a race of two handlers or one
handler cut once. Two signers give a *last* signature and one before it; two
workers give two forwards handled at once, or one and its retry; two PDFs give a
stale one and a fresh one; one creator request is any of five kinds against all
other handlers, and can be cut at every await. Two envelopes share a document, a
third only adds holders. Three requests by two clients give a winner, a loser
and a retry under one key. In `Distribution` three half-hours cross the end of
the wait and an hour slot. `MaxPurgers` bounds a pair of overlapping purges:
a purge reads the holders and deletes, so a race is between two of them. The
`MaxFailures` bounds let everything be delivered again once they are used up,
which is what the liveness properties speak of.

In `SignIn` every door can be used in one behaviour, the code twice, so that a
verdict on the first crosses the press for the second, with the two tries that
burn a challenge. In `Studio` two versions are one stored and one edited since.
In `Service`:

- *session*: 2 tabs, 2 requests, 1 session, 1 rotation, 1 fault: two requests race
  for one refresh token, and a sign-out may come between them;
- *agent*: 3 calls, 2 units of funds, 1 fault: a paid call, its retry under the same
  key and one under another;
- *gate*: 2 accounts, 2 keys: a key and a cookie of different people;
- *account*: 2 changes, 4 reads, 1 fault: two reads before and two after a change;
- *anchors*: 2 evaluations at the gate, 4 attempts, 2 statements, 1 fault;
- *nudges*: 2 rows of one address, 2 reminders, 1 fault;
- *forward*: 2 members, the 10 messages of `Messages`, 2 of them sent, 1 rotation of
  a key, sender policy enforced;
- *evidence*: 1 file with 2 signers, loaded twice, so that the answers to the first
  load meet the second.

**Where the system may stop.** The runs say `CHECK_DEADLOCK FALSE` where it
really may: an envelope that is delivered, voided or abandoned has no next step,
a closed tab does nothing, and all requests are bounded.

### Fairness, and why

- *Durable runs* (forward workers, completion run, recheck, expiry, chain): weak
  fairness on their steps, strong where a failure can interrupt the same step
  again. The platform starts a run that throws or dies again until it ends
  (`functions/runHandlers.ts`). Failures are bounded, or strong fairness of
  the successful alternative stands for a failure that passes. In `Distribution`
  that is every distributor but the seal request, and the clock (`Tick`).
- *The daily sweep* starts again and again (weak fairness of `SweepOn`).
- *A waiting tab* (`SignIn`): the poll is an interval timer, fair while the screen
  waits; the pivot is an effect that React runs once a user is there.
- *An open create page* (`Studio`): its effects, its poll, and the server's steps and
  answer to what it has asked.
- *Nothing* forces a signer to forward, the creator or a visitor to do anything,
  a deadline to come, a gate that waits to open, or a client to retry.
- A seal request that dies is not retried: no fairness on it.

### Liveness, in words

`AutoCloseDelivers`: an all-signed auto-close envelope whose evidence is there
is distributed, or leaves the open states, unless an edit takes it back.
`ManualParks`: a manual one is parked for the creator. `GateOpenDelivers`: once
the gate can let the bundle through, everyone is mailed. `FreedUnlessCut`: what
is over and past its dates is freed, unless a failure cut its purge.
`WaitingTabMovesOn`: a tab that waits for its mail moves on when a session appears
in its browser. `WaitingTabEnds`: a tab left at the gate gets its ending once
another has sent its document, unless the sweep removed the receipt first.

## 4. Findings

Each is the violation of one property, whose statement is a comment of the code.

1. **A voided or expired envelope is completed** (`db/envelopes.ts:546`): the
   completion's `UPDATE` has no condition on the status. `MCEnvelopeClosed`.
2. **The statement wait never ends** (`api/statementGate.ts:186`): the second
   recheck has the key of the first. `MCDistributionWait`.
3. **A document is sent twice from two tabs**
   (`frontend/src/pages/CreateEnvelopePage.tsx:642`): the composing tab sees the
   session of the e-mailed link and posts its held payload, while the landing tab
   claims the stored row of the same document. `MCStudioTwoTabs`.

By hand, with the configurations of section 3:

- *a bundle pairs a new cover with an old mail* (`db/signatureArtifacts.ts:95`):
  sign, edit, sign again keeps the first artifact, against
  `functions/config.ts:713-714`;
- *a blob that could not be deleted is never retried* (`pdf/blobPurge.ts:71`): the
  stamp comes first and the sweep looks at unstamped rows, against
  `pdf/blobPurge.ts:22-24`;
- *an open envelope loses its document* (`pdf/blobPurge.ts:59`): a creation stores
  it between a purge's question and its deletion, against `pdf/blobPurge.ts:14-15`;
- *one key makes two envelopes* (`api/idempotentCreate.ts:122`): a throw after the
  row releases the key, against `api/idempotentCreate.ts:8-9`;
- *the e-mail's draft is not the held one* (`storeDraftForLink` of
  `CreateEnvelopePage.tsx`, line 731): composed, sent, edited and sent again, the
  draft behind the new mail is the first one;
- *the two engines disagree*: the command line's engine takes a signature past its
  `x=` for none, the page's engine does not look at `x=`
  (`bundle/verify.ts:162`), against `bundle/verifyCli.ts:125-127`;
- *a caller pays twice*: a web call whose answer was lost had settled, and the same
  request again settles a second payment when the first call's create did not end
  with a stored 201 (`mcp/src/webPay.ts:330-336` promises that nothing is paid
  twice). The second payment is banked, which is what `PaymentsKept` says.

Seen while modelling, without a run of their own.

*Envelopes, distribution, retention, creation*

- an edit in flight changes the signers of an envelope that completes meanwhile,
  which `api/envelope.ts:1407-1410` rules out (`SealedStaysQuiet` therefore asks
  that no edit be in flight);
- a refund says that nobody was delivered anything (`api/envelope.ts:979-980`),
  but a distribution may complete the voided envelope (finding 1);
- an artifact that failed is not backfilled by a retry, since the retry sees a
  signed signer (`api/signing/inboundEmail.ts:178`);
- `awaiting_seal` is not always all-signed (`api/sealEnvelope.ts:49-51`,
  `api/envelope.ts:1650`): deleting the row of a parked envelope or superseding
  it leaves the status;
- an edit after the completion run has ended: the key `<envelope>:completion`
  returns the ended run, so nobody parks or distributes the envelope again;
  `db/envelopes.ts:702` speaks of a backstop cron, and there is none. The
  liveness run has no edits for that reason;
- `functions/runHandlers.ts:106` says that a retry never sends twice; a creator who
  does not sign has no message id and is mailed by every retry;
- a young completed envelope may be purged although the creator's copy failed
  (rule 6 of `pdf/retention.ts`), after which the retry cannot build the bundle;
- a void that overlaps an account deletion reads no signers and leaves their
  covers; covers stored after a void or deletion during creation are not found
  again;
- a void refunds also what was never debited;
- a process that dies with a reservation leaves a key that answers 409 for ever;
- the loser of a draft's claim hears `already_sent` before the winner has created
  anything (`api/pendingSend.ts:368`);
- a delivery event whose message id is unknown is matched by address
  (`api/emailWebhook.ts:104`);
- `getEnvelopesNeedingCompletion`, `getEnvelopesAwaitingSeal`,
  `updateSignerDeclined`, `forceExpireEnvelope` and `deleteAccount` have no
  production callers, nor has the sender allowlist.

*Create studio and pending sends*

- a draft restored at the gate and a sign-in by code or passkey: the gate has no
  held payload, so nothing is sent (`SignInScreen.tsx`, about line 440, says it is);
- a `PATCH` of a pending send runs the preflight with an empty PDF, which returns
  before the guards on signers (`api/pendingSend.ts:279-282` says it reaches them);
- the once-only ref of the gate is reset on the 401 path alone, not when the gate is
  entered again; the leave guard stays disarmed after a draft was stored for a
  Google ceremony that did not start, and it does not compare the file;
- edits of one pending send from two tabs overwrite each other; two quick presses
  of "send link" store two drafts;
- the daily sweep deletes the receipt, after which a suspended tab polls for ever;
- an `already` answer without an envelope id leads to `/dashboard/envelope/null`.

*Sign-in, sessions, account pages*

- a refresh in flight at sign-out signs the tab in again (`AuthContext.tsx:58-62`);
  a sign-out whose call fails leaves the cookie live;
- when two requests refresh at once the second may answer 401 although the session
  lives (`api/auth/session.ts:9-10`);
- a crash after the stamp and before the conversion loses the conversion
  (`api/attributionCapture.ts:112-128`); a link used before the click was captured
  leaves the visitor organic for ever;
- a second press of "send link" leaves the superseded challenge's state behind;
  the exchange of a link does not look at the session that is there;
- on the account pages two reads of a list are not ordered, and a read that fails
  after a disconnect leaves "Connected" on screen; "Sign in again" names a `next`
  that only the sign-in screen reads.

*Payment doors*

- the local server promises a `spending_intent_key` to retry with; a lost response
  or one other than 201 carries none; the preflight replays stored 201 answers
  only; a second payment whose create replays is answered without saying that it
  was banked.

*Reminders, anchors, evidence*

- a create's mail fails with an unclear error and an in-place resend then succeeds:
  the old backstop still marks the signer undeliverable; an in-place resend books
  no backstop and no reminders, and its keys are spent for ever;
- a `superseded` signer is never reminded automatically; manual reminders use up
  the automatic ones; a run that loaded its row early reminds one who just signed;
- the chain's entry looks at the token's status only
  (`api/signing/inboundEmail.ts:173`), so a statement whose stamping failed is never
  stamped again, and one captured by the wait after the chain ended stays pending
  for ever, against `api/signing/timestampSchedule.ts:38-44`
  (`PendingAnchorHasLink`); a link that cannot book the next ends the chain;
- the reconciliation window is inclusive at both ends and a failed alert mail is
  sent again by the next sweep;
- `VerifyPage.tsx:235-242` folds the confirmations of one file into the verdict on
  another (`VerdictFromItsFile`, violated with two files);
- a bundle with a statement and no token is `PROVEN_DURABLE`, where a comment
  requires both;
- `keys.json` is read by the first match of domain and selector, so a key replaced
  between two colleagues' mails fails the later one; the key is looked up after the
  check, so a rotation in between keeps the wrong one (both are exceptions of
  `AcceptedVerifies`); a mail signed by ed25519 alone is accepted and the page's
  engine then finds no key;
- the hash of the raw mail is taken over a decoded string at receipt and over bytes
  by the verifiers.

## 5. The proofs

Every theorem holds for all values of the constants that satisfy the assumption
of its module:

- `EnvelopeAssumption`: the invited are signers and not none, the bounds are
  naturals, at least one PDF;
- `RetentionAssumption`: `Early` and `Owned` are sets of envelopes, there is a
  signer, the bounds are naturals;
- `CreationAssumption`: keys, payments and drafts are different things, the mark
  for "nothing" is no payload, grant and bounds are naturals;
- `DistributionAssumption`, `SessionAssumption`, `AgentAssumption`,
  `AccountAssumption`, `AnchorsAssumption`, `NudgesAssumption`,
  `LoadsAssumption`: bounds are naturals, positive where nothing could happen
  otherwise; there is a signer, a tab;
- `MailAssumption`, `SenderAuthAssumption`, `ForwardAssumption`: the messages are
  messages, the sender check is enforced or not, the signers are finitely many,
  the bounds are naturals; `KindsAssumption`: what a bundle can hold is evidence;
- `SignInAssumption`: the gate is `plain` or `send`, the bounds are naturals, a
  challenge has at least one try; `StudioAssumption`: there is a first version,
  the number of faults is a natural;
- `ScenesAssumption`: the scenes are scenes. `Gate` assumes nothing.

| Module | Theorem | States |
|---|---|---|
| `Envelope_proofs` | `TypeCorrect` | `[]TypeOK` |
| | `LifecycleCorrect` | `[]LifecycleInv` |
| | `DeliveryNeedsCompletion` | `[]DeliveredIsCompleted` |
| | `LifecycleRefinement` | `Spec` implements `EnvelopeLifecycle` |
| | `SealedIsQuiet` | `SealedStaysQuiet`: a quiet completed envelope never changes its signers |
| | `LastSignatureCounts` | `[]CompletionNotLost` |
| | `OpenIsServed` | `[]OpenCanBeServed` |
| `Retention_proofs` | `TypeCorrect` | `[]TypeOK` |
| | `HoldersKeep` | `[]HolderKeepsBlobs` |
| `Creation_proofs` | `TypeCorrect` | `[]TypeOK` |
| | `MoneyIsLedger` | `[]BalanceIsLedger` |
| | `AnswersAgree` | `[]SameAnswer` |
| | `OneEnvelope` | `[]OneEnvelopeUnlessLost` |
| `Distribution_proofs` | `TypeCorrect` | `[]TypeOK` |
| | `WaitHonoured` | `[]WaitIsHonoured` |
| | `MailsOnce` | `[]WaitMailsOnce` |
| | `StampedMeansMailed` | `[]StampMeansMailed` |
| `SignIn_proofs` | `SignInTypes` | `[]TypeOK`, with each credential, session and trial once |
| | `SendFiresOnce` | `[]HeldSendFiresOnce` |
| | `DraftStaysInReach` | `[]HeldDraftInReach` |
| | `PaidSignUpsConvert` | `[]PaidIsConverted` |
| | `NoLateConfirm` | `NoConfirmAfterVerdict`, an action property |
| `Studio_proofs` | `StudioTypes` | `[]StudioTypeOK` |
| | `EachRouteOnce` | `[]EachRouteSendsOnce` |
| | `LeavingIsSafe` | `SilentLeaveKeepsWork`, an action property |
| `Access_proofs` | `RaceStrandsNothing` | `[]TokenNotStranded` of `Session` |
| | `GoneForGood` | `GoneStaysGone` of `Session`, an action property |
| | `PresentedIsActor` | `[]ActsAsPresented` of `Gate` |
| | `NoPaymentLost`, `DoorTypes` | `[]PaymentsKept`, `[]AgentTypeOK` of `Agent` |
| | `QuietPageIsRight` | `[]QuietPageShowsAccount` of `Account` |
| `Service_proofs` | `ProofIsOfStatement`, `AnchorTypes` | `[]AnchorFitsStatement`, `[]AnchorsTypeOK` of `Anchors` |
| | `UnclearWatched` | `[]UnclearIsWatched` of `Nudges` |
| | `OutageIsHarmless` | `[]OutageNeverLowers` of `Evidence`, when the files agree on who has a statement |
| | `AcceptedIsConfirmed` | `[]AcceptedVerifies` of `Forward` |
| | `ServicePlaysItsParts` | `ServiceSpec` implements each part's specification |
| | `ServiceTypes` | `[]ServiceTypeOK` |
| | `ServiceIsSafe` | the properties of all eight parts, of `ServiceSpec` |

The theorems about a part are about its own specification (`SessionSpec`,
`GateSpec`, ...); the run checks them in `ServiceSpec`. `ServicePlaysItsParts`
joins the two: every start of the service is a start of each part (`PartsStart`),
every step a step of the part that plays and a stutter of the seven others
(`PartsStep`), so each theorem about a part holds of the service.

**`Envelope`.** `TypeOK` is inductive by itself, one lemma per group of actions.
`LifecycleInv` is inductive relative to it: it ties where a distributor is to the
status (past its completion step the envelope is completed, which no step leaves)
and where a void is to the status (past its `UPDATE` it is not open). From it
follow `DeliveredIsCompleted` and the refinement, step by step.
`SealedStaysQuiet` is an action property: each of the steps that write a row
either needs an open envelope or is in flight, which its hypothesis excludes.
`CompletionNotLost` is not inductive: that a worker is on its way says nothing of
whether it still holds the address of a signed row. The strengthening
`NotLostInv` adds that a worker past its `UPDATE` does, that one before it holds
the address of a row that exists, and that no request of the creator is under
way, so that nothing removes or unsigns a row.
`OpenCanBeServed` speaks of the newest cover and the PDF a row expects, which an
edit writes at three awaits. `ServedInv` adds: no row expects and no cover is of
a version not issued yet (`NoneFromTheFuture`); a request about to write the row
has stored the newest cover under the row's token (`CoverIsStored`), so that the
write makes the row expect what is there; blobs are deleted only of closed
envelopes, which no step opens again (`PurgesAreClosed`).

**`Retention`.** `TypeOK` needs that a purger with work in hand has an envelope
(`LocalOK`). `HolderKeepsBlobs` speaks of blobs and rows, and the deletion of a
blob happens long after the question who else needs it. `HoldInv` says what keeps
the answer true: an early envelope has rows; one that has been given up is never
taken back (`GivenUp`, shown for every step); a purger past its stamp works on an
envelope that is given up, and one that has the document among its keys has seen
every other early one given up (`PurgerInv`); an account deletion gives up its
envelopes' rows before it picks their blobs (`DeletionInv`).

**`Creation`.** The types need counting: an id is the number of envelopes made so
far, so `CountOK` says that envelopes and requests which have made none are
together no more than the requests that came. That no account is overdrawn is a
type here, kept by the condition in `debitUser`. `MoneyIsLedger` adds that the
ledger is finite, so that a new row of one source counts one. The other two rest
on `DoorInv`, what the conditional insert of a key and the conditional update of
a claim are for:

- `HolderInv`: between its reservation and its end one client has the door, alone;
  the door is taken, unanswered and asks for that client's payload;
- `MadeInv`: a door's answer is an envelope made through it from what it asks for,
  and each envelope is the answer of its door, or in the hands of the door's
  holder, or lost by a create that was cut;
- `AnswerInv`: what was answered is what the door still says.

One lemma says that a step which leaves the doors alone keeps it (`KeepDoors`),
one that taking a free door does (`TakeDoor`), one that its holder writing the
envelope down does (`DoorMakes`), one that its holder leaving, answered or not,
does (`LeaveDoor`).

**`Distribution`.** A distributor decides on copies. `ClockOK` says what a copy is
worth: a `finalizing_since` or a waiver read earlier is the row's still, since the
first write wins by its `WHERE`, and the clock read is never ahead of time.
`WaitInv` adds that a distributor past the gate has had its wait; `MailsInv` ties
the number of interim and alert mails to their claims; `StampInv` says that whoever
has a message id, in the row or in a copy, was mailed, and that a distributor
without a failure has mailed all but those it has still to mail.

**`Session`.** `TokenNotStranded` says that the row has the platform's token or a
request is about to write it, and is not inductive: a request that read the row
long ago may yet rotate and write. `BehindInv` adds that while the platform's
token lives nobody has a later one, and that a request about to write has the
platform's; `OneWriter` that a session has one writer at most and that who still
has to spend a token for it has one that was replaced; `KnownInv` that a request
past the cookie's lookup knows a session that was there.

**`Gate`.** `Trusted` says what the gate has settled of a request it admits, about
its key, its route and the operators. A key that is presented was minted
(`KeyExists`), and a minted key keeps its creator, so that the other browser's
steps leave `Trusted` as it is.

**`Agent`.** `PaymentsKept` equates envelopes and credits with the number of
credited payments, so the proof counts: a step that credits adds one member to
that finite set and one to the credits, one that creates turns a credit into an
envelope. `PaidInv` says for each call what its place in the code implies for the
payment it carries: one that has not paid has signed nothing, and what the handler
credits was settled. The types of the two counts follow from the ledger.

**`Anchors`.** A link saves a copy it loaded before others saved. `FitsInv` says
that what a link or a capture is about to save is of one statement, and that the
statement of a copy is the row's, since a row's statement is never replaced.

**`Account`.** `QuietPageShowsAccount` is about a page with nothing in flight; a
stale read may arrive in any order before that. `PageInv` says of the newest read,
answered or shown, that it is the account, or an error, or that the page knows it
may be wrong, or that a call which changed the account has still to be answered
(`Good`, `Stirred`); the answer reads again. A read that a newer one overtook
carries no claim at all: it is never shown.

**`Nudges`.** `WatchInv`: a pending row whose request had no clear answer, and
which nobody was told of, has its backstop due while the envelope is active. It
needs that the creator's call works on the row that is there and no run is booked
under the row's id before its first request (`HandInv`): else the booking, which
is by id, would find one that has run. `NoticeInv` and `RunnerInv` tie the notice
to the mark and the running job to its kind.

**`Evidence`.** What the page shows is what was folded into it by answers that
came late or not at all. `FoundedInv` says what every verdict on show has of every
signer: no dimension that time may still settle counts as failed, and a statement
in the bundle keeps the key confirmed. From these two the tier is at least the
offline one (`FoundedRanks`), by comparing ranks. Answers of one file are folded
into another file's verdict (section 4), so that the invariant is inductive only if
the files agree on which signers have a statement; `SameStatements` states that,
and is a hypothesis of the theorem. It holds of one file, however often loaded,
which is what the run has; with two files, one with a statement and one without,
TLC finds `OutageNeverLowers` violated, by the fold behind `VerdictFromItsFile`.

**`Forward`.** The gate decides on a mail, the row and the bundle are written
later, and the verifier sees only the bundle. `FInv` carries the decision along:
a recorded mail has a deciding signature of the signers' domain and no signature
over a part of the body (`SignedBy`), so do the kept letters, observed or sealed
(`Kept`), and the signing order holds signed members, each once, so that it is no
longer than there are signers. That the verifier's engine confirms what the gate
accepted is then about two searches in one sequence: the first match in one order
is found as the least element of a set of indices.

**`SignIn`.** Any number of emails, codes, ceremonies and tabs run through one
account. `Credentials`: before a link, code or Google code is spent, no sign-in
runs behind it and it has opened no session, so that spending it is what opens
one. `Verdicts`: what the screen knows of a challenge came in an answer, and a
screen that may confirm shows none that it was told is dead; that is
`NoConfirmAfterVerdict` as a state. `Handover`: a document is held only at the
send gate, a claim that says *sent* has it sent, and a landing is told what became
of it, whence `HeldDraftInReach`. `StampIsFollowed`: the sign-in that stamped the
paid click is still before its enqueue, or it has enqueued, or something failed.

**`Studio`.** A page and the call it has on its way speak of each other: what a
call carries is what the page shows, a claim only comes of a restored page
(`Pages`, by `Composed`). `Drafts` says that only a page which has not stored what
it composed may store a new draft, and that then there is none; `Unwritten` that
before the first edit there is nothing at all; `LetGo` that a page is let go
without a question only for Google. `ClaimedOnce` is the heart: the row's
conditional update gives a claim to one tab, until it makes the envelope or gives
the row back, and a made envelope leaves a receipt. `CreatedOnce` is the other
route: only the composing tab creates, and once it has it is on its way out.
The two make `EachRouteSendsOnce`. `SilentLeaveKeepsWork` is about one action:
only leaving closes a form or a gate, and it asks unless the page is as stored.

**Only model-checked.** Liveness, which needs fairness and `ENABLED`, out of the
prover's reach: `AutoCloseDelivers`, `ManualParks`, `GateOpenDelivers`,
`FreedUnlessCut`, `WaitingTabMovesOn`, `WaitingTabEnds`. Every invariant and
every action property of a passing run has its theorem. What the violated runs
refute is not provable.

## 6. What the models leave out

- *Inside a message*: in `Envelope` DKIM, MIME, intent and policy are the verdict
  of `Acceptable`, in `Forward` what the checks tell apart; character sets,
  multipart grammar and canonicalisation are in neither. Acknowledgements,
  progress mails and rejections change no state that a property speaks of.
- *Two creator requests at once*: `Envelope` has one request at a time, against
  all the other handlers.
- *Covers as one blob* in `Retention`: they are deleted in one loop whose order
  nobody sees; one that fails stands for all.
- *Age*: retention dates are the sets `Early` and a guard, not a clock; the
  sweep's window over artifacts is `new`, `due`, `old`.
- *Payments*: each x402 payment carries a reference of its own.
- *Forms*: what a page shows is a version; field validation, the PDF preview and
  the signer-row editor are in no model.
- *WebAuthn and OAuth*: a ceremony succeeds, fails or is cut; its contents are the
  platform's.
- *Proof formats*: a check of the verifier is its verdict.
- *Database and platform*: statements are atomic, an insert with a conflict
  clause has one winner, runs are retried: assumptions, not results.

**Not modelled**, and why: the *sender allowlist* (the quota and its gate are
exported and tested, and nothing in production calls them); *PDF and e-mail
rendering* (layout and wording); the *platform adapters* (one call each, whose
promises are the assumptions above); *telemetry and operator views* (fail-open
writes and reads that no signing state depends on); *other pages, CLI and
scripts* (readers of the HTTP interface, deployment tooling); the tools of the
MCP servers that are single HTTP calls.

## 7. Plan

Done in this order: `EnvelopeLifecycle`, `Envelope` (the heart of the service),
`Distribution`, `Retention`, `Creation` and their proofs; then `SignIn`, `Studio`
and the eight parts of `Service`; then the proofs of all that the runs check but
liveness.

Next, most valuable first:

1. A composition of `Distribution` and `Retention`, for the purge that overtakes
   an unfinished distribution.
2. Two creator requests at once in `Envelope`, and `ServedInv` for them.
3. The files of one `/verify` page that share confirmations, as a run of its own:
   `SameStatements` says where the theorem ends.
4. The `pending/` blobs with their orphan sweep.
