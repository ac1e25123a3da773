# Verification of functional-domain-driven-hexagon

The repository is a server (Effect on Cloudflare Workers, PostgreSQL behind Hyperdrive) with a web
application, a command-line client and jobs around it. Its domain modules (organizations, billing,
authentication, users, roles, wallets, todos) are functional cores: a command handler reads an
aggregate, computes its successor in memory and writes the whole row back, inside a unit of work that
also collects domain events. Workers are killed at any time, queues deliver at least once, Stripe and
browsers call concurrently, and the database runs READ COMMITTED without row versions. This
project models those parts where such things meet, checks them with TLC and proves their safety
properties with TLAPS.

Paths below are relative to `src/packages/server/src` unless they start with `src/` or `packages/`.

## 1. Inventory

| Component | State | Operations | Talks to | Hard about it | Correct when |
|---|---|---|---|---|---|
| Durable event delivery (`globals/infrastructure/events`) | `platform.event_outbox`, `event_deliveries`, queue, dead-letter queue | enqueue in the unit of work, flush, record the attempt, sweep (every minute), consume, retry, dead-letter report | every module with a `subscribeAfterCommit` subscriber; mail | kills between any two statements, duplicates, overlapping flushes, messages too large, lost commit answers | no committed reaction is lost; at most one effect; sweeping ends |
| Unit of work, event bus (`globals/infrastructure/database/transaction-driver-live.ts`, package `@effect-server-utils`) | the open transaction, collected events | begin, commit, roll back, dispatch | all command handlers | failures after writes | all or nothing |
| Invitations, memberships (`modules/organization`) | `organization.invitations`, `memberships` | invite, resend, revoke, accept, leave, remove, send the email | event delivery, user directory, mail | read-modify-write races on one row, late emails | dead links stay dead; live links arrive; one open invitation |
| Organizations, their roles, platform roles, wallets (`modules/organization`, `modules/role`, `modules/wallet`) | `organizations`, `organization_roles`, `platform.roles`, `wallets` | create, soft-delete, restore, grant, revoke; a user is deleted | each other, user module | sets of roles replaced by `DELETE` and `INSERT`, rows written back by id, a subscriber inside the transaction, three kinds of foreign key | nobody promotes themselves; an organization has its wallet; a role has a holder and an issuer |
| Billing (`modules/billing`) | `billing.subscriptions`, `webhook_events`, Stripe's records | start, cancel, ingest a webhook | Stripe | gateway call outside the transaction, duplicate and reordered webhooks | a webhook applies once; canceled only if Stripe says so; eventually in step |
| Sessions and API tokens (`modules/auth`, `packages/jobs`) | `auth.sessions`, `auth.api_tokens`, the clock | sign in, mint, authenticate, touch (deferred), log out, revoke, purge (hourly) | middleware, cron | stamps written late, dropped, out of order | no use after revocation or the cap; use keeps alive |
| Sign-in (`modules/auth`, `modules/user`) | `auth.auth_identities`, `user.users`, `auth.sessions` | sign in, link, provision; an admin creates or deletes users | identity provider, user module | two first sign-ins at once, a user deleted in between | a session is for its subject's user; accounts are linked on proof only |
| Device-code sign-in of the CLI (`modules/auth`) | `auth.device_grants`, `api_tokens` | start, approve, poll | command-line client, browser | polls and approvals that overlap | one token per grant, for its approver |
| Mail: daily cap, transports (`globals/infrastructure/email`, `packages/identity/src/mail`) | `mail_daily_counts` of two databases | claim a send, send | event delivery, sign-up and password mails | counted in a transaction that may roll back, or before the letter | at most the cap a day; refused only when it is spent |
| Todos (`modules/todos`) | one table | create, update, complete, delete | organizations | last writer wins | - |
| HTTP endpoints, policies, buses, criteria-to-SQL | none | translate, authorize, dispatch | everything | - | - |
| Web application, component library, CLI, MCP server, infrastructure, tooling | none the server depends on | - | the API | - | - |

`PROJECT.json` lists every component with what is and what is not modelled, and every hazard with the
line where it bites.

## 2. Modules

| Module | Models | Abstract specification | Proofs |
|---|---|---|---|
| `Reactions` | what delivery promises to subscribers | is one | - |
| `Outbox` | delivery: outbox, flush, sweeper, queue, consumer, ledger, dead letters | implements `Reactions` | `OutboxProofs` |
| `Invitations` | the seven invitation and membership commands of one organization, and the email reaction | implements `Reactions` with its emails | `InvitationsProofs` |
| `DeviceLogin` | start, approve, poll and expiry of device grants; deletion of users | implements `Grants` | `DeviceLoginProofs` |
| `Sessions` | the life of a session and an API token against a clock | implements `Credentials` | `SessionsProofs` |
| `SignIn` | look-up, linking and provisioning at sign-in; creation and deletion of users | implements `Accounts` | `SignInProofs` |
| `Billing` | start, cancel, webhook ingestion, with Stripe | - | `BillingProofs` |
| `Organizations` | create, soft-delete and restore of organizations, their admins and wallets, super-admins; deletion of users | - | `OrganizationsProofs` |
| `MailCap` | the daily cap of the server's and of the identity worker's mail | implements `Quota` twice | `MailCapProofs` |

The abstract specifications are modules of their own, without transactions, look-ups or delays:

| Module | Says |
|---|---|
| `Reactions` | the reactions of a unit of work become due together; each takes effect at most once |
| `Grants` | a device grant is open once; an exchange is one step, for a user who has approved it and still exists |
| `Credentials` | a credential is open once; it lets requests through while it is open and within its lifetime |
| `Accounts` | a sign-in is one step: the known user, else the user of the proved address, else a new user |
| `Quota` | a day lets `Cap` uses in, and one more for each that is given back |

Each module `M` that is run has an `MCM` that extends it with the constants' values and the symmetry
sets; the `.cfg` files give the constants. `map` in `PROJECT.json` names the lines of every
definition. Definitions whose comment starts with *Mutant* are plausible bugs of that code: with such a
definition in place of the one it precedes, the run finds its property violated.

### The transaction

Nothing in the code locks a row it read, and the driver opens READ COMMITTED transactions
(`transaction-driver-live.ts`). So a command is a *read step* that decides on what is committed then,
and a *commit step* with its writes; others commit in between. Writes that take a row lock or a unique
key hold it until the commit, which is why a transaction's writes can be one step with it, and a
statement that waits for a lock is a guard. What `RETURNING` or an exclusive key makes a command
check again at the time of the write is in the commit step (`StillThere`, `Vacant`, `Unlinked`,
`AwaitsOther`, `HeldByOther`). Where a transaction writes in two statements and the wait between them
shows, as in `Organizations`, each statement is a step. Every transaction may abort.

### Outbox

| In the model | In the code |
|---|---|
| `rows`, `relayed`, `attempts`, `young` | `event_outbox`: the rows, `relayed_at`, `attempts`, stamps within `staleAfter` |
| `sending`, `undelivered`, `recording` | locals of `flush` and `queue.send`, per invocation |
| `queue`, `dead`, `lease`, `step` | Cloudflare Queues and the consumer's position |
| `ledger` | `event_deliveries` |
| `Enqueue`, `Commit`, `Abort` | the command's unit of work; the transport's insert is part of it |
| `SendBatch`, `RecordAttempt` | `cloudflare-domain-event-queue-live.ts` send, `outbox-transport-live.ts` recordAttempt |
| `Sweep` | `outbox-sweeper.ts`: oldest rows first, locked ones skipped, stamped, then flushed |
| `Receive` ... `Retry`, `KillConsumer` | `domain-event-consumer.ts` and `delivery-ledger-live.ts`, one message at a time |

A failed `sendBatch` may or may not have been taken by the queue; a failed commit may have
committed. Batches are arbitrary nonempty subsets: the byte and count limits choose one of them. The queue
is a set of (envelope, attempts) pairs, so identical copies are one; a duplicate is a copy the queue
keeps when it hands a message out. Retry delays are untimed, and a row's age is whether `Age` happened
since its last stamp. The dead-letter consumer is taken as reliable: the platform retries it three times
and then drops the message, which no code here sees.

### Invitations

`txn[c]` holds what the handler computed: the whole row it will write by id. `retired` and `unraced`
are history; `unraced` are the commands since whose read nobody committed, so that a property can say
what holds of a command that nobody overtook. Tokens and UUIDs are fresh by `FreshTokens` and
`UnusedIds` (256 and 122 random bits). Expiry is the set `lapsed`; any open invitation may lapse at any
time. One organization is modelled, since no invitation command touches two. `leaveOrganization` and
`removeMember` have the same effect and share `ReadLeave`/`CommitLeave`; who may call them is a policy.
`findOne` takes the newest open invitation of an address; the model lets it take any.
That an event's email is attempted until sent or reported, and not lost, is the promise of `Reactions`
and of `NoReactionLost`; here an event in `due` may be sent, fail and be tried again, or be given up.
`EmailsAreReactions` closes the loop: seen by token, the emails here are the `Reactions` that `Outbox` delivers,
although a reaction reads the row back and the letter may carry a later token.

### DeviceLogin

`grants[g]` is `NoRow`, pending, or the user who approved it. A grant is identified with its device
and user code. A poll that finds nothing or a pending grant changes no state and has no step. A poll
of a lapsed grant deletes it and then fails in the same unit of work: `FailExpired`.

### Sessions

One clock for application and database. `Authenticate` is the middleware's look-up; the stamp is
a later `ReadTouch` and `WriteTouch` (`waitUntil` runs them after the response, and their failure is
swallowed: `Drop`). Sessions slide (`Touched`, capped by `absolute`); tokens have a fixed expiry. Ids are
not reused (`born`). `Purge` is the hourly job with both disjuncts of its `DELETE`. A user's
deletion takes his credentials one by one, in any order and number. `Threshold > 0` is assumed as
configured; `BoundAssumption` only says that the clock outlasts every credential.

### SignIn

The claims (subject, address, verified) are arbitrary in every step, which allows the identity
provider anything. Users, identities and sessions are three tables tied by foreign keys with cascades.
A user's address never changes (no command edits it). Sessions are kept as (subject, user) and end
only by the cascade, which is more than the code keeps and so the stronger claim. A
token without an address fails before it writes and has no step.

### Billing

`stripe` and `events` are Stripe's. A subscription changes up to `MaxVersion` times before its
cancellation, and each change is a webhook that may arrive any number of times, in any order, from the
moment of the change. A row has a status and a period end, each in a column of its own. `start` is: look, create at Stripe,
insert; `cancel` is: look, cancel at Stripe, write the row back as canceled with the period end that was read (`Flip`); either
may die in between (`Fail`). A webhook that commits during the gateway call has its period end overwritten, and the model
follows that.
A delivery claims the event id (waiting for a transaction that holds it), looks for the row, and applies and
commits, or rolls the claim back. `seen`, `dated` and `reordered` are history: the version whose status was last written,
the version whose period end the row has, the subscriptions of which a webhook came late. Deletion of an organization
is not modelled, nor are signatures.

### Organizations

| In the model | In the code |
|---|---|
| `AskOrganizationRole`, `AskSoftDelete`, `AskRestore` | the endpoint's `Authz.hasPermissions`, before the command's transaction |
| `AskRole` | the role module's commands; no endpoint sends them |
| `ReadGrant`, `ReadRevoke` | the handler up to the aggregate's answer |
| `Delete` | the `DELETE` of `upsertOne`: finds nothing, locks the row, or waits for whoever holds it |
| `CommitGrant`, `CommitRevoke` | the `INSERT` of `upsertOne`, foreign keys and primary key included, and the commit |
| `BeginCreate`, `CreateWallet`, `CommitCreate` | the inserts, the wallet's subscriber under a savepoint, the commit |
| `ReadSoftDelete`, `CommitSoftDelete`, ... | look-up and `updateOne` by id |
| `DeleteUser` | `deleteUserHandler` with cascade (`user_id`) and restriction (`issued_by`) |

Each of the two role modules knows one role, so the set that is replaced is a row or nothing, and
`admins[o][u]` is that row's `issued_by`. A `DELETE` that waited finds the row gone when the holder
commits, and does not see the row that one inserted: the waiting request goes on with nothing deleted
(`AfterCommit`), so that a grant then fails on the primary key and a revocation revokes nothing. If the
holder rolls back, the waiting `Delete` runs again. A user's deletion takes their roles along under a request that has read
them (`AfterCascade`). `overtaken` is history, as `unraced` in `Invitations`: another request, or such a deletion,
changed what was read. Names, time stamps and the creator's membership are left out.

### MailCap

Both mailers run the same statement; what differs is the transaction around it. The server's runs in
the transaction of `deliverOnce` (`BeginDelivery` ... `CommitDelivery`): the day's row stays locked from
the claim to the end, other claims wait (`Locked`), and a rollback takes the count back (`CountUndone`).
`current_date` is the date of the transaction's start, so `day` is set there and may be yesterday
by the claim. In the identity worker the statement commits by itself (`ClaimInRequest`). `attempts`,
`accepted` and `undone` are history: letters handed over, taken, and taken by a reaction
that was rolled back afterwards. The two databases share nothing but the clock.

## 3. Runs

All passing runs are exhaustive; the states are the distinct ones. `CHECK_DEADLOCK` is off throughout
because these systems may stop: when no request comes and nothing is due, nothing has to happen.

| Run | States | Bounds | Shows |
|---|---|---|---|
| `outbox_races` | 1,267,335 | 1 envelope, 1 publisher, 2 sweeps, 2 consumers, 2 attempts, 1 retry, 2 kills or duplicates | `NoReactionLost`, `RepeatsOnlyAfterRollback`, `AttemptsBounded`, `ImplementsReactions` |
| `outbox_settles` | 953,335 | 2 envelopes of a unit of work, the first's subscription may be missing in the version that consumes it, the second too large, 1 sweep, 1 consumer, 2 attempts, 1 retry, 1 fault | `NoReactionLost`, `FlushingEnds`, `EveryReactionSettles` |
| `invitations_races` | 2,047,658 | 2 invitations of one address, 2 users (one a super-admin), 2 commands at a time, 3 tokens | the invariants, what holds of unraced commands, `EmailsAreReactions` |
| `invitation_reopened` | violated | the same | finding 1 |
| `invitation_revoked_mail` | violated | the same | finding 2 |
| `device_races` | 24,545 | 2 grants, 2 users, 3 commands at a time, 3 tokens | `OneTokenPerGrant`, `TokenForApprover`, `ConsumedStaysConsumed`, `ImplementsGrants` |
| `sessions_races` | 1,064,998 | a session, a token, 2 requests, time to 5, Ttl 2, cap 4, token's life 3, threshold 1, grace 1 | `NoneOutlivesCap`, `InUseStaysSignedIn`, `LogoutIsFinal`, `ImplementsCredentials`, `EventuallyEvicted` |
| `signin_races` | 579,786 | 3 users, 2 addresses, 2 subjects, 3 sign-ins at a time | `SessionMatchesIdentity`, `LinkNeedsProof`, `NoStrandedAccount`, `IdentityIsStable`, `ImplementsAccounts` |
| `billing_races` | 1,254,655 | 2 organizations, 2 subscriptions, a live status and canceled, 2 period ends, 2 requests, 2 deliveries, 2 versions before cancellation | `AppliedOnce`, `CanceledMeansCanceled`, `InSyncUnlessReordered`, `FirstStartWins` |
| `billing_out_of_order` | violated | 1 organization | finding 3 |
| `organizations_races` | 216,381 | 1 organization, 2 users (one a super-admin), 2 requests at a time | `NeverWithoutWallet`, `RolesReferToUsers`, `NobodyPromotedThemselves`, `RoleChangesUnlessOvertaken`, `LifeAlternatesUnlessOvertaken` |
| `mail_cap` | 640,935 | 2 deliveries, 2 requests, a cap of 2, 2 days, 3 letters handed over per database and day | `CapHeldUnlessUndone`, `RefusedOnlyWhenSpent`, `ImplementsQuota` |

`billing_races` also checks its type invariant, where a type says something of the code. The type invariants of the other
modules are conjuncts of what is proved (section 4), and a run is not spent on them.

Why these bounds are enough. The races are over one row, one key or one envelope, so two contenders and
a third party that moves what they read show them: two sweeps beside the publisher, two consumers
beside a duplicate, two commands with a third token. Two of everything that is only compared for
equality (addresses, grants, organizations) tells "the same" from "another". Two faults allow a kill and a
duplicate in one behaviour. In `outbox_settles` the first envelope is handled in some behaviours, handled after a retry in others, and finds no
subscription in others again, while the second keeps the sweep busy. In `sessions_races` the threshold is below the Ttl, the Ttl below the cap,
and the cap below the clock's end, so that throttled, sliding, capped and purged states all occur;
grace 1 makes both disjuncts of the purge act. In
`organizations_races` one user is a super-admin and the other may create the organization, so each can
grant to, revoke from and be deleted under the other; no command touches two organizations. In
`mail_cap` three letters at a cap of two let a refusal, a claim freed by a rollback and a letter above the
cap occur, and the second day a transaction that outlives its date. The proofs then remove every one of these bounds
from the safety properties.

### The properties, and what could break them

* `NoReactionLost`: `recordAttempt` overwrites `relayed_at` with its own outcome while another flush of
  the same row runs; a relayed row must nevertheless be in the queue, at a consumer, delivered or reported.
* `RepeatsOnlyAfterRollback`: an email is sent from inside the delivery's transaction; only a rollback
  after the call may lead to another.
* `ImplementsReactions`: the refinement; the reactions of a unit of work become due together and take effect at most once.
* `AttemptsBounded`: `MAX_ATTEMPTS` is compared when a sweep claims a row, not when the attempt is counted, so
  invocations that claimed it earlier still add theirs; each adds at most one. The bound is met.
* `FlushingEnds`: attempts are counted for what fails too. `EveryReactionSettles`: of the two envelopes of a unit of work,
  each is in the end handled, reported, or out of attempts, and stays so, whether its handler works at the first try, fails and is
  retried into the dead letters, or is not there; and what was never attempted is swept.
* `RetiredLinkStaysDead`, `CurrentLinkDelivered`: whatever commands race, a rotated-out token never opens an
  invitation again, and the current one is on its way, although the reaction to an older event reads back
  the newer row.
* `TerminalUnlessRaced`, `OneOpenUnlessRaced`, `JoinUsesUpInvitation`: what the aggregate's rules
  guarantee without overtaking. With it the first is false (finding 1).
* `EmailsAreReactions`: a token's email is due when its token is committed, no earlier, and once it is sent or reported it is
  not due again, whichever reissue, revocation or acceptance changes the row in between.
* `OneTokenPerGrant`, `TokenForApprover`, `ConsumedStaysConsumed`: the `DELETE ... RETURNING` in the exchange's
  transaction is what decides among polls, and a later approval neither changes the token's owner nor
  resurrects the grant.
* `ImplementsGrants`: the same and more as a whole: there is a moment at which the exchange happened, when the grant was open
  and the user had approved it. A poll reads the approval in one statement and deletes the grant in another.
* `NoneOutlivesCap`, `InUseStaysSignedIn`, `LogoutIsFinal`, `EventuallyEvicted`: late, dropped and
  reordered stamps, and the purge. `NoneOutlivesCap` is about age alone: a request is let through only within its credential's
  lifetime; that a late stamp does not revive what was revoked is `LogoutIsFinal`. `InUseStaysSignedIn` says how long a session is
  good for after a stamped request, wherever it stops being good: by its expiry or by a purge that takes the row. The throttle
  may cost less than the threshold. A slow stamp written over a newer one costs at most the time it was under
  way (`lag`), and no more.
* `ImplementsCredentials`: expiry, revocation, cascade and purge each end a credential in a way of its own, and
  a late stamp writes the row back; none of them opens what was over.
* `SessionMatchesIdentity`, `LinkNeedsProof`, `NoStrandedAccount`, `IdentityIsStable`: sign-ins that
  looked up a user who is gone by the time they write, or a subject somebody else linked meanwhile.
* `ImplementsAccounts`: the three statements of a sign-in, with others between them, leave what one atomic sign-in leaves, and
  a sign-in that fails leaves nothing.
* `AppliedOnce`, `CanceledMeansCanceled`, `InSyncUnlessReordered`, `FirstStartWins`: duplicate deliveries, requests
  that die after Stripe acted, two starts. The third excepts what was applied out of order or before its row
  existed (finding 3); of the period end it excepts also rows to which a cancellation wrote an older one back (`dated`, see
  below). The Stripe subscription that a second start, or one that died, leaves behind is accepted by
  `start-subscription.handler.ts:17-20`, and no property is about it.
* `NeverWithoutWallet`: the wallet comes from a subscriber in another module, under a savepoint, whose
  failure must not be swallowed.
* `RolesReferToUsers`, `NobodyPromotedThemselves`: who deletes a user, and who overwrites whose grant,
  between another's read, `DELETE` and `INSERT`. No lock and no comparison protects the handler's read; foreign keys,
  the primary key and the check of the actor do.
* `RoleChangesUnlessOvertaken`, `LifeAlternatesUnlessOvertaken`: what success means when nobody
  interfered: a grant gave a role that was not held, a revocation took one away that was. Without the exception both are
  false (see below).
* `CapHeldUnlessUndone`, `RefusedOnlyWhenSpent`: the cap in both directions, at its limit, across midnight, and under
  rollbacks.
* `ImplementsQuota`: claims are one at a time for a day, and a count goes down only by the rollback of the
  transaction that put it up; in the identity worker it never does.

### Findings

1. A command that read an invitation before another revoked or accepted it writes its own row back by id: a
   revoked invitation opens again or becomes accepted. The aggregate's comment calls both states terminal.
2. The email reaction does not look at `revokedAt`, and rows of revoked invitations are kept, so
   the email of a revoked invitation is sent. The handler's comment says there is nothing to send.
3. An update that arrives before its row is dropped for good, and the later `created` does not
   make up for it. The comment says it does.

Seen while modelling, without a run of their own:

* A cancellation saves the period end it read before it called Stripe
  (`modules/billing/commands/cancel-subscription.handler.ts:26-39`, `modules/billing/domain/subscription/subscription.root-ops.ts:106`).
  If a webhook wrote a newer one meanwhile, the row keeps the older, with no webhook reordered, until Stripe's webhook of the
  cancellation is applied; if that came before the write, for good. The status is right in either case.
* Two invitations of one address that race both find no open one and both insert. `invite-user.handler.ts:28-30` says the
  pending list stays one per address.
* A revocation of a role whose user is deleted between its read and its `DELETE` deletes no row and answers success
  (`modules/organization/infrastructure/repositories/organization-roles.repository-live.ts:26-30` does not count them).
* A poll of a lapsed grant fails in the unit of work in which it deletes the grant, so the deletion
  rolls back (`FailExpired` leaves `grants` alone). `poll-device-grant.handler.ts:18` says the grant is consumed.
* The first disjunct of the purge takes revoked sessions at their sliding expiry, an hour by default
  (`packages/jobs/src/jobs/purge-expired-sessions.ts:17`); its line 4 promises seven days.
* Two soft-deletions that both read the organization as active both succeed, the second rewriting
  `deleted_at`. `soft-delete-organization.handler.ts:23-26` says the aggregate covers that race; the
  aggregate only sees what was read.
* A revocation whose `DELETE` waits for a request that rewrites the row (a grant that found the row
  gone at its read and there again at its `DELETE`) deletes nothing and answers success; it takes three requests.
* `daily-capped-mailer-live.ts:8-9` says that a send the transport then refuses still counts. That is so
  in the identity worker; in the server the refusal fails the reaction and the count goes with it. In exchange a
  letter whose reaction rolls back afterwards is not counted, and the day's letters may exceed the cap.

### Fairness

`Outbox!FairSpec`: a flush that is not killed goes on (an invocation runs to its end), the cron
sweeps again, time passes, the queue hands out what it holds and the consumer works on it, dead letters
are reported. Each is weak fairness. Commands owe nothing: nobody has to send a request, and an open
unit of work may stay open. `Sessions!FairSpec`: the clock runs and the hourly purge runs; no request
is fair. The other modules state no liveness.

The prover cannot reason about `ENABLED`, so `Evicted` is proved from what the two fairness conditions come to:
`ClockRunsOut` (a clock that can always tick reaches its end) and `PurgeRunsOn` (a purge that stays due is made
again and again), in which `PurgeDue` spells out when `Purge` is enabled. TLC checks `EventuallyEvicted` under
`WF_vars` itself; on the same instance it also finds that `FairSpec` implies both conditions.

## 4. Proofs

Every theorem holds for all values of the constants that satisfy the module's named assumptions: the
special values (`None`, `NoRow`, `Never`) are distinct from what they stand beside, bounds
are numbers, units of work emit disjoint sets of envelopes, publishers are not sweeps, a cancelled status is not a
live one, the touch threshold is positive, the clock outlasts every credential, super-admins are users, deliveries
are not requests. No
finiteness is assumed. TLC evaluates the assumptions in every run.

Each proof module has the same shape: lemmas about the records, one lemma per action (or group of
actions) that it preserves `IInv`, `IInvStep`, and the theorems. `IInv` is in the component's module and
was model-checked before it was proved. What each adds to the properties, and why it is needed:

* `Outbox`. An envelope that was sent but whose attempt is not recorded yet must be accounted for already
  (`SentIsAccounted`), because recording it makes it relayed. One open transaction per envelope
  (`OneClaim`) gives both the refinement and, with `CallsExplained` (a first call is committed, undone or in
  that one transaction), the property about repeats. `Refinement` maps `published` to the committed units and
  `effects` to itself; only `Commit` and `CommitDelivery` are not stutters. `BoundedAttempts` needs `AttemptsSound`, which
  counts the recordings under way: a row that was attempted has fewer attempts and recordings together than
  the limit and all invocations, because a sweep claims only below the limit. It assumes that there are finitely many
  invocations.
* `Invitations`. A token belongs to one invitation in its row, its event and any pending write
  (`OwnedOnce`), pending writes of a reissue carry unused tokens (`TxnSound`), and the reaction to the current
  token read that token (`LetterCurrent`). `UnracedSound` carries what a command decided on to its commit.
  `EmailsRefine` maps `published` to the used tokens, and an effect to a used token with no event left in `due` or `reported`; it
  needs that a reported event's token was used (`ReportedSound`).
* `DeviceLogin`. What a poll read, some approval wrote, and the grant of a minted token is gone (`ReadSound`).
  `Refinement` maps a grant to open while its row is there, and `CommitExchange` to the exchange; an expired grant is
  still open, since its deletion rolls back. A pending exchange's token must not exist yet (`IdsSound`).
* `Sessions`. A row's cap is its birth plus its lifetime, its expiry follows its last stamp, stamps are not from the
  future, and a row that is marked revoked was logged out (`RowSound`, `RequestSound`). That the throttle costs less than
  `Threshold` and an overtaken stamp at most its delay needs the first three; that the purge does not take a session in use needs
  the last, since it takes a revoked one earlier.
  `Refinement` maps a credential to open while its row is there and unrevoked, and a purge to the end of all it takes; the look-up's
  own comparison with `expires_at` gives the lifetime, because the expiry is never beyond it. `Evicted` needs that an overdue session
  is one the purge takes (`OverdueGoesNext`).
* `SignIn`. What a sign-in looked up still holds unless the user was deleted since, and deleted ids do not
  come back (`TxnSound`, `KeysSound`). `Refinement` puts the atomic sign-in at the commit, where the unique key of the subject and the
  reference to the user repeat what the look-up saw.
* `Billing`. `StripeSound`: Stripe announced each state once and canceled is final. `RowSound`: the row
  has the status of version `seen`, or of a cancellation that Stripe confirmed, and the period end of version `dated`; a
  cancellation under way carries a pair of the kind (`CallSound`).
  `RecordedSound`: unless reordered, what was taken in is not newer than `seen`. Together: when all is taken in,
  the current version is at most `seen`, so it is `seen`, and versions are unique, so the status is the same, and the period end
  too where `dated` equals `seen`.
  `CallSound` keeps two inserts off one subscription.
* `Organizations`. One transaction holds a role's row, and while it does the row is there (`LockSound`):
  whoever deleted it may insert, and nobody else. What a request that was not overtaken read still holds at its commit
  (`ReadSound`), which is what its answer rests on. `OrgSound` lets nothing refer to an organization that is
  being created, and keeps its creator from being deleted meanwhile; the foreign keys then keep `RolesReferToUsers`.
* `MailCap`. One transaction holds a day's row and found a count to spare (`RowSound`), and what the mail service
  took is committed, undone or in that transaction (`CountSound`). A refusal looks at the row when nobody
  holds it, so all that was taken that day is committed or undone, and the committed count is the cap.
  `Refinement` counts a claim as used from the claim on, while its transaction is open; a rollback gives it back.

Proved: for each of the eight components the inductive invariant, type correctness and every safety and action
property that its passing runs check; the refinements of `Reactions` by `Outbox` and by the emails of `Invitations`, of
`Grants`, `Credentials`, `Accounts` and `Quota`; `BoundedAttempts`; and the leads-to property `Evicted` under its two hypotheses.
Only model-checked: `FlushingEnds` and `EveryReactionSettles`, which need induction over the attempts that are left and many
fair actions each (`BoundedAttempts` is the part of `FlushingEnds` that is safety), `EventuallyEvicted` as a consequence of `WF_vars`,
and the counterexamples of the findings.

## 5. Not modelled

* The package `@effect-server-utils` (unit of work, `deliverOnce`, buses) and the platform (queues, cron,
  Stripe, the identity provider) are not in the repository; they are modelled from how the code uses them and
  marked external in `map`.
* Queries, presentation, policies: they read, and keep no state.
* The in-process queue of development and test, mail transports, the web application, the component library,
  the MCP server, contracts, infrastructure, tooling.
* Todos: `update-todo.handler.ts` and `complete-todo.handler.ts` read a row and write every column by id,
  outside a unit of work, so that of two overlapping ones the later wins. Nothing depends on a todo, and no
  comment or test says more than that.
* Wallets beyond their creation: credit and debit are operations of the aggregate that no command calls, and the
  repository has no update.
* Criteria-to-SQL, the splitting of queue batches by size and the retry delay are pure functions with unit tests of
  their own; `Outbox` allows every split and every delay.
* The command-line client's credentials file, which one process writes.
* The identity worker apart from its mail: it configures Better Auth. `SignIn` allows it any claims.

The map covers the server's core logic and little of the rest. Most of the repository's lines are not state machines:
the web application and its components, contracts and client schemas, lint rules and architecture checks, row
schemas, mappers, wiring of layers, queries and tests' drivers. They hold no state that outlives a request, or
state that one process changes in one place.

## 6. Plan

Done, in this order: `Outbox` with `Reactions`, `Invitations`, `DeviceLogin`, `Billing`, `Sessions`,
`SignIn`, `Organizations`, `MailCap`, each with its proofs; then `Credentials`, `Accounts`, `Grants` and `Quota` with their
refinements. What could follow:

1. Abstract specifications of `Billing` (what the local row may say of Stripe's) and of `Organizations` (a set of roles
   changed one at a time); the second is refined only by requests that nobody overtook.
2. A composition of `SignIn`, `DeviceLogin` and `Sessions` over one table of users: a deleted user's
   browser, grant and tokens all go, whichever is under way.
3. `MailCap` composed with `Outbox`: a letter refused at the cap is retried until its attempts are spent, so a day's
   surplus ends in the dead letters unless midnight comes first.
4. Pure algorithms against reference definitions: splitting into queue batches under count and byte limits, the
   retry delay, criteria-to-SQL against the predicate, the alphabet of user codes.
