# Verification of api-boilerplate in TLA+

The program is a NestJS API over PostgreSQL (TypeORM), Redis and an S3 bucket.
It keeps its state in tables, changes it in single statements, and awaits
between them; several instances may run at once. What is hard about it is
therefore not in any one function but between two `await`s. These modules model
the handlers statement by statement, TLC checks their interleavings on small
instances, and TLAPS proves their safety for every size.

Code paths below are relative to the repository; the application is `src/`.

## 1. Inventory

| Component | Code | State it keeps | Operations |
|---|---|---|---|
| Refresh-token sessions | `modules/auth/refresh-token.service.ts`, `refresh-token.repository.ts`, `auth.service.ts` | table `refresh_tokens`: at most one row per (user, session) | log-in completion, refresh, log-out, revoke-all, clean-up of expired rows, cascade of a deleted account |
| Passwords | `modules/auth/auth.service.ts`, `modules/user/user.service.ts` | `users.password`, `passwordResetToken`, `passwordResetExpires` | log-in, forgot, reset, change |
| Second factor | `modules/auth/two-factor.service.ts`, `auth.service.ts` | `users.twoFactorEnabled`, `twoFactorSecret`, `recoveryCodes` | enable, disable, regenerate, challenge, verify with a TOTP or a recovery code |
| E-mail | `auth.service.ts`, `user.service.ts`, `user.repository.ts` | `users.email`, `pendingEmail`, `emailVerificationToken`, `emailVerificationExpires`; `user_settings.isEmailVerified` | verify, re-send, request a change, confirm it |
| Avatars | `user.service.ts`, `shared/services/aws-s3.service.ts`, `shared/services/image-processing.service.ts` | `users.avatar`, objects in the bucket | upload avatar, upload image, delete avatar, delete the account with its avatar |
| Audit log | `modules/audit`, `entity-subscribers/transaction-context.subscriber.ts` | table `audit_log`, triggers, two settings per pooled connection | attach triggers at start, set the context, record a row change, record an event |
| Request pipeline | `main.ts`, `guards/`, `filters/`, `interceptors/`, `modules/metrics/http-metrics.interceptor.ts`, `modules/auth/jwt.strategy.ts` | nothing but the request itself and the counter `http_requests_total` | throttle, authenticate, check the role, validate, handle, count, wrap, filter |
| Health checks | `modules/health-checker` | one Redis client per indicator, shared by all checks | `/health`, `/health/readiness` |
| Listing | `boilerplate.polyfill.ts`, `common/dto/page-*.dto.ts`, `user.service.ts` | none; reads `users` twice | `getUsers`, page by page |
| Mailer | `shared/mail` | cache of compiled templates, registered partials; the code stored before each mail | store a code, compile, render, send, clear the cache, register the partials, restart |
| Google sign-in | `modules/auth-google` | none | verify an id token, find the account by its e-mail, log in |
| Stateless services | `shared/services`, validators, translation, logger | none | crypto, configuration, Turnstile |

How they interact. A log-in of any kind (password, second factor, e-mail
verification, Google) ends in `createTokenPair`, and so in the session table. A
reset of the password revokes all sessions. Password, second factor, e-mail and
avatar live in one `users` row and are tied together by `save()`: TypeORM selects
the row again, compares it with the entity that the handler had loaded some
awaits before, and updates every loaded column that differs. A handler that
wanted to change the avatar thereby writes back a switch, an address or a reset
token from the past. Every statement passes the transaction-context subscriber,
and every change of `users` and `user_settings` the audit trigger. All requests
pass the pipeline, and none of the handlers opens a transaction across statements.

What is hard:

* two requests of one user whose statements interleave (two tabs refresh at once;
  a reset against a log-in; two verifications with recovery codes);
* entities loaded before an await and saved after it;
* handlers that break off between two writes (tables, or a table and the bucket);
* answers that arrive after the wait for them has ended (`Promise.all`);
* mails that overtake each other, while their codes share a column;
* a cache that is cleared while a request holds what it is about to put there;
* partials that are read by a promise nobody awaits;
* an account that is deleted while another request is between its load and `save()`,
  which inserts what it does not find;
* a shared Redis client that overlapping checks connect and disconnect;
* triggers dropped and created again while other instances are serving;
* the order in which NestJS runs guards, interceptors and filters.

The full list, line by line, is under "hazards" in `PROJECT.json`.

What makes each component correct is stated in section 3, with its module.

## 2. Modules

    SessionTable       abstract session store
      ^ refined by
    RefreshSessions    refresh_tokens, statement by statement   SessionProofs
      ^ extended and refined by
    PasswordReset      passwords, composed with the sessions    SessionProofs
    SecondFactor       abstract second factor
      ^ refined by
    TwoFactor          second factor, read by read and write by write   TwoFactorProofs
    EmailChange        addresses and their codes                EmailChangeProofs
    Mailer             codes, templates, SendGrid               MailerProofs
    AvatarStorage      users.avatar and the bucket              AvatarStorageProofs
    AuditLog           triggers, context, events                AuditLogProofs
    RequestPipeline    guards, interceptors, filters            RequestPipelineProofs
    HealthProbe        Redis indicators                         PagingAndHealthProofs
    Paging             getUsers and its pages                   PagingAndHealthProofs

On the right are the modules of the theorems. `SessionProofs` proves what there is to say
of the sessions first and uses it for the composition. `PagingAndHealthProofs` is about two
specifications that share nothing; that is why those of `HealthProbe` have names of their
own (`HealthSpec`, `HealthInv`).

`MC<Module>.tla` gives symmetry sets and the constraints of a run, `MC*.cfg` the
values of the constants. Operators whose comment begins with "faulty" are
variants of the operator next to them, with a plausible mistake; no specification
uses them, and every property fails if its variant is put in place.

Conventions shared by all modules:

* A request is a constant. It runs once, and its name also stands for what it
  draws at random (secret, code, token, uuid), so random values are distinct.
  The e-mail code has three bytes only; that two live codes coincide is left out.
* An action is one awaited statement or call with everything the handler does
  synchronously around it. `Crash`, `Abort` or `Fail` end a handler at any await:
  the process dies or the statement is refused.
* A hash is the identity of what was hashed, and encryption that of what was
  encrypted: what the properties tell apart is which secret it was.
* A token and its expiry are always written by one statement, and one name stands
  for both (in `EmailChange`, where `save()` can separate them, they are two columns).
* A deadline is a set of names that have lapsed, and anything may lapse at any time.
* `user_settings` is assumed to have its row, as `createUser` sees to.
* Every module states one type invariant, `TypeOK` (`PRTypeOK`, `HealthTypeOK`). The proofs
  establish it for every size, as part of `Inv`, and the runs spend their time on the other
  properties.

## 3. What is modelled and what the runs show

### Refresh tokens: `RefreshSessions`, `SessionTable`

State: `rows` is the table, `users` the accounts, `req` the local variables of the
handlers: `entry` is the row that `validateAndGetUser` has read, `shown` the secret
the client presented. `stored` and `expired` are history and time.

| Action | Code |
|---|---|
| `FindByUserAndSession`, `ValidateHash`, `DeleteById`, `FindOwner` | `validateAndGetUser`: row, expiry and hash, clean-up, account |
| `RevokeRefreshToken` | `revokeRefreshToken`, in a refresh and in a log-out |
| `CreateAccessToken`, `DeleteByUserAndSession`, `SaveRefreshToken`, `Respond` | `createTokenPair`, `generateRefreshToken`, the rest of `completeLogin` |
| `RevokeAllForUser` | `revokeAllForUser` |
| `DeleteUser` | deletion of an account with its cascade |

Run `refresh_sessions` (two users, two colliding session ids, three requests, every
statement interleaved, expiry, deletion, crashes, `FairSpec`):

* `RotatedTwiceOnlyByRace`: a token is not good for one rotation only. Two refreshes
  that have read the same row both pass the check, both revoke (how many rows that
  deletes is not looked at) and may both go on to a new token. What holds is that both
  must have read the row before either revoked it: who reads later is refused, under
  whatever session id. The history variables `rotated` and `late` say who came when.
* `SessionSurvives`: tabs that refresh at once are refused by the unique constraint
  in some orders; the session survives and a client holds its live token.
* `SessionsEndForOwner`: session ids are chosen by clients and may collide; no
  request removes the row of another user.
* `CleanupSparesSuccessor`: the clean-up of an expired row decides on a row read two
  awaits before, and never takes the token that has replaced it.
* `ImplementsSessionTable`: the interleaved statements implement `SessionTable`
  (mapping `LiveTable`): no live secret is overwritten, none becomes live twice, one
  step ends sessions of one user only.
* `Inv`: the inductive invariant of the proofs.
* `RequestsFinish`: every request that starts is answered, refused or cut off,
  whatever the others have done to its rows.

Two users and two sessions are what a collision takes; three requests are one
log-in and two refreshes in a race. The proofs lift the bound. Symmetry is unsound for
liveness; instead `InOrder` lets the requests, which are alike, come in one order, and
the first with a fixed user and session. The session a revoke-all happens to name is
fixed too, and an account is deleted only once a request of it has come; before, it leads
to the same states. `InOrder` takes away only arrivals and deletions, which nothing has to
bring about, so that no behaviour is lost that another does not stand for.

### Passwords: `PasswordReset`

Extends `RefreshSessions` with the columns of the password, `forgotPassword`,
`resetPassword` (UPDATE of the password, UPDATE of the token columns, revocation),
`changePassword` (load, bcrypt, `save()`), and the password log-in with its
temporary token of the second factor. The order of the statements of a reset is
`ResetStatements`. Run `password_reset` (one account, one session, four requests):

* `OldPasswordOnlyByRace`: after a reset has answered, a session authenticated with
  the old password is live only if its log-in or refresh was at work at the moment of
  revocation. The qualification is real: such a log-in stores its token after
  `revokeAllForUser`.
* `UsedTokenStaysCleared`: a used reset token is no longer in its column, unless a
  `changePassword` that had loaded it saves it back. That exception is real too. (Two
  resets that had both found the token before either cleared it both go through.)
* `LinkGoneOnlyByUse`: a reset that breaks off wastes nobody's link. A stored token goes
  only when a newer one replaces it, when a stale `save()` writes over it, or at the hand
  of a reset that has set its own password before.

One account is enough: no statement touches two. Four requests are a log-in, the
request for a reset, the reset, and a fourth that races with it.

### Second factor: `TwoFactor`

One account. `EnableTwoFactor`, `DisableTwoFactor`, `RegenerateRecoveryCodes` are
single UPDATEs. `Challenge`, `VerifyTwoFactor`, `FindRecoveryCodes`,
`UpdateRecoveryCodes` are the log-in's second half: the list read before bcrypt is
written back minus one code. `LoadUser`, `SelectForSave`, `UpdateDiff` are the
requests that `save()` the row. Run `two_factor` (five requests, batches of two):

* `SwitchAsLastSet`: only enable and disable decide on switch and secret, save for a
  stale `save()`.
* `SwitchMatchesSecret`: the switch is on exactly when there is a secret, unless a
  `save()` has split the two. `uploadAvatar` loads the switch and not the secret, so
  it can: the account then has a switch that is on and no secret, and
  `verifyTwoFactor` refuses every code.
* `DeadCodeReturnsByWriteBack`: an accepted or replaced recovery code is gone, unless
  a request that had read it before writes the list back: a second verification at
  the same time, or `changePassword`; a profile request never does.
* `SecondFactorAsPromised`: the account implements `SecondFactor`, in which every request is
  one step, the switch goes with the secret and dead codes stay dead. The history variable
  `overwrote` says from when on it need not: a request has written columns that somebody
  else had written since it read them. So the exceptions above need such a request, and
  whoever makes reads and writes atomic is rid of all of them.

Five requests are: enable, log-in, two verifications that race, and a `save()`.

### E-mail: `EmailChange`

`row` has the columns, an address is a mailbox with a spelling (`LOWER`), since the
unique index compares spellings and look-ups compare lower case. Actions:
`RequestEmailChange`, `FindByEmail`, `SetPendingEmailChange`, `MailCode`;
`FindByIdWithPendingEmail`, `ConfirmEmailChange`; `FindByEmailVerificationToken`,
`SetEmailVerified`, `ClearEmailVerificationToken`; `ResendVerification`,
`SetEmailVerificationToken`; and the `save()` of stale entities. The log-in that
`verifyEmail` ends in is `StartLogin` of `RefreshSessions`. Run `email_change` (two
accounts, three mailboxes, two spellings, four requests):

* `MailboxSharedByChangesOnly`: two accounts share a mailbox only if both have
  changed to it, or a `save()` has brought an address back.
* `CodeProvesAddress`: a confirmed address is one its code was mailed to. The
  exceptions named in the property happen: `resendVerification` writes its code next
  to a pending address, and `save()` restores an earlier pending address.
* `CodeServesItsPurpose`: the code of a change does not verify the present address.
* `SpentCodeIsGone`: a code that was used is no longer in its column, and who reads it from
  then on is refused. Two requests that had both read it before both succeed.
* `PendingHasCode`: a pending address can be confirmed, unless a `verifyEmail` that had
  read the account before has cleared its code, two awaits later.
* `VerifiedIsKept`: only a `save()` of settings loaded before takes a verification back.

All behaviours of four requests are more than TLC can visit, so the constraint
`OneQuestionAtATime` keeps those in which either two verified accounts only change
addresses, or all requests concern one account; with four requests none fails, with
three any may. Two changes and two confirmations are what two accounts in one
mailbox take; a change, a stale `save()`, another change and a confirmation are what
the exceptions of `CodeProvesAddress` take. The proofs need no such constraint.

### Mail: `Mailer`

Three handlers (`forgotPassword`, `resendVerification`, `requestEmailChange`) draw a
code, store it by one UPDATE and mail it (`StoreCode`). `CompileTemplate` looks into the
cache, `ReadFile` awaits the file, `CacheTemplate` compiles, caches and renders, which
throws without the partials. `wire` is what SendGrid has been sent and not decided on;
it decides (`Decide`) whether or not anybody waits, and `ReceiveAnswer` may be the
failure of the connection after the mail was taken. `RegisterPartials` happens once or
never, and any time late. Files are replaced, the cache is cleared, the process restarts.
Run `mail` (three requests, files replaced twice, one restart, `FairSpec`):

* `LastMailIsLive`: the last mail accepted holds the code that is stored. Otherwise the
  request of the newer code has not succeeded, or the older mail was still on its way
  when the newer code was stored; nobody waits for it, so that exception is real.
* `FreshAfterClear`: after `clearTemplateCache` or a restart no mail shows an older
  template, unless a request held a file at that moment: it caches it afterwards.
* `EveryMailEnds`: a request ends even if the partials never come.

`OneQuestionAtATime` keeps the behaviours in which three requests meet partials and
SendGrid while files and process stay, or two requests of one template meet edits,
clearings and a restart: the first is what mails in the wrong order take, the second
what a stale cache takes. `ClearsMatter` clears only a cache that a file has outdated,
since clearing any other changes nothing but `overtaken`. Only steps without fairness
lead out of the constraint. The two safety properties are proved without it.

### Avatars: `AvatarStorage`

One account; the bucket is a set of objects `<<image, key>>`. `UploadAvatar` and
`UploadImage` put the original and then all variants at once; the first failure ends
`Promise.all` while the other uploads go on, and may arrive after everything else.
`DeleteAvatar` clears the column and deletes the objects, failures being swallowed;
`DeleteUser` deletes objects and then the row. `UpdateProfile` and `ChangePassword` are
stale `save()`s: if the row is gone `save()` inserts it again, which the columns that
must not be null refuse to all but `ChangePassword`, which has loaded the password. Run
`avatar_storage` (three requests, two variants):

* `AvatarIsStored`: the avatar of an account can be loaded, except for the half-done or
  overwritten deletions it names.
* `DeletedIsGone`: after a deletion nothing is left but failed deletions and late uploads.
* `LeftoversExplained`: an object that is no avatar is kept for one of the reasons listed;
  the first is that `uploadAvatar` never deletes the image it replaces.
* `AccountStaysDeleted`: a deleted account comes back by the `save()` of a
  `changePassword` that had loaded it, and in no other way. That happens.

Two variants are enough for one to fail while its sibling is under way; three requests
are an upload, a deletion and one more.

### Audit log: `AuditLog`

`pool` holds the connections with their settings, `instance` the processes,
`attached` the triggers. A handler is a `Program` of statements, each by `save`,
`remove`, `update` or as an event; each acquires a connection, applies the context,
writes, and commits if it is in a transaction. `AttachAuditLog` is one DO block.
`present` are the rows there are: an account may be deleted while another handler works
on it. An `update()` then changes nothing and does not fail, and `save()` inserts the row,
or is refused by the columns and the foreign key. A statement waits for the transaction
that has changed its row. `createUser` is left out: nothing calls it.
Run `audit_log` (two users, two requests, two instances with two connections each):

* `ContextIsOwn`: connections are shared and their settings never reset, and no row
  names the user or the request of somebody else (because `set_config` is local).
* `TransactionsAreAttributed`: what `save()` and `remove()` change, cascades
  included, is attributed.
* `LogAgreesWithTables`: the log tells of nothing rolled back and misses no change
  of a column it does not redact, whichever instances start or die.
* `EventsComeLast`: when an event is recorded, each statement before it has committed its
  change, or the row had been deleted meanwhile. That exception is real: no caller looks at
  the number of rows, so that `auth.service.ts:243-249` and `:424-430` record a reset and a
  regeneration that did not happen.

Two requests are one that deletes and one that it surprises, or two that follow each other
on one connection; two instances are one that serves while the other starts.

`audit_coverage` refutes `EveryChangeIsLogged`, which `docs/architecture.md:81`
states: see section 6.

### Request pipeline: `RequestPipeline`

`Route` has what the decorators of the controllers say: protected or not, the roles,
what a body may fail on, what the handler returns or throws; handlers declared in the
same way are one route. `Handle` takes a request
through its phases: throttler, `JwtStrategy`, role guard, validation pipe, metrics,
handler, wrapping; a throw goes back through the interceptors to the filter that
`FilterFor` selects, the last registered first. Accounts are deleted and change role,
and tokens expire, between any two phases. Run `request_pipeline` (one request of any
route, two accounts): `HandledAsEntitled`, the account and
its role are read again in each request and once; `ExceptionsAreAnswered`, an `HttpException`
keeps its status through the filters, the breach of a constraint named `UQ_...` becomes a 409, what
is neither a 500; `NothingIsLost`, wrapping drops no part
of a result (a handler may return one of several bodies, as `login` does); `EveryRequestIsAnswered`. One request is
enough because requests share nothing but the accounts, which change freely.
The throttler may refuse any route, health checks and metrics included: `@SkipThrottle()`
without names skips the throttler called `default`, and there is none of that name.
`request_status` refutes `CountedAsAnswered`: see section 6.

### Health checks: `HealthProbe`

Each indicator holds one client; `probe` is the call of `isHealthy` by each check.
`Connect` is refused while the client is not closed, the refused probe disconnects the
client in its `catch`, and `Closed` tells whoever was waiting. Run `health_probe`
(three checks): `ConnectionHasOneUser`, and nobody leaves it open;
`FalseDownOnlyByClash`, Redis is reported down
although it has answered only if two probes have met;
`OvertakenProbeEnds`, a probe that waits for an answer of Redis is ended by the next one on its
client, whose refusal closes the connection. Alone it may wait for ever: neither
`commandTimeout` nor `socketTimeout` is set, and `connectTimeout` ends with the TCP handshake.
Two checks meet, the third comes to what they have left behind.

### Listing: `Paging`

A client walks `getUsers` page by page; each page and its count are two statements;
rows come and go, and rows of one transaction have the same `createdAt`, a tie that
every statement breaks anew. Run `paging` (three ids, three moments, pages of one or
two, both orders): `MissedOnlyAfterDeletion`, a row that is there throughout is missed
only if another was deleted under the offsets or it shares its `createdAt`;
`QuietWalkIsExact`, on a table that stays as it is. Three rows in pages of one or two give
an empty table, a short last page and a table that is a multiple of the page. `Spec`
makes no promise that the walk ends.

## 4. Fairness

Four specifications use it. `RefreshSessions!FairSpec`, `Mailer!FairSpec` and
`RequestPipeline!Spec` have weak fairness of `Handle(r)`: the event loop runs the
continuation of a handler whose awaited call has settled, and the drivers settle
every call, with an error if need be. In `Mailer` that is the reading of a file and the
connection to SendGrid, whose answer may be a failure; that SendGrid decides or that
partials load is not assumed. `HealthProbe!HealthSpec` has it for `Connect`, which a probe
runs by itself, and for `Closed`: ioredis destroys a socket that `disconnect()` has ended
after its own `disconnectTimeout`, whose default the code leaves alone. Of Redis nothing is
assumed, not even that it fails: `connect()` and `ping()` may be pending for ever. Nothing is assumed of arrivals, crashes, time, deletions or clients.

## 5. Proofs

The theorems hold for every value of the constants, without the constraints and
symmetries of the runs. What is assumed of the constants is that `None` differs from
the values it stands beside (`NoneIsNoRequest`, `NoneIsNoName`, `NoneIsNoKind`,
`NoneIsNoImage`, and `NoneIsNothing` in two modules) and the original of an image from its variants
(`OriginalIsNoVariant`), that a batch has at least one code (`BatchSizeIsPositive`), that
the bounds of `Mailer` and `Paging` are numbers (`BoundsAreNat`), and that a table has
finitely many ids (`IdsAreFinite`).

All follow one argument: none of the properties is inductive, because each depends on
what handlers in flight have read before the present state came about. `Inv` of a module
(`PRInv` in `PasswordReset`, `HealthInv` in `HealthProbe`) adds what there is to know about them; `Invariance` proves
that it is inductive, with one lemma for each conjunct and in it one step for each group
of actions; the other theorems follow from it. TLC has checked every `Inv` first.

**`RefreshSessions`.** `Inv` adds `RowsAreGenuine` (a row was inserted by the request it
is named after, and is the only one of its pair), `StepFitsOperation`, `StoredIsDone`
(who has stored is about to answer), `EntryIsOwn` (what a refresh has read is of its own
session, and past the check it is what it was shown), `ShownIsSpent` (no row is left of a token
that has been rotated), `LateIsStopped` (a refresh that read after that has read another row and
does not pass the check), and `SessionKept`
(an undisturbed session is live or in the hands of a request that will store it).

| Theorem | Establishes |
|---|---|
| `TypeCorrect`, `Invariance` | `Spec => []TypeOK`, `Spec => []Inv` |
| `RotationIsOnceButForRaces` | `[]RotatedTwiceOnlyByRace` |
| `RacesKeepSession` | `[]SessionSurvives`, for any number of requests in the race |
| `OwnersEndSessions`, `CleanupIsById` | the two action properties |
| `TableImplemented` | `ImplementsSessionTable`: Init maps to Init, each step to a step or a stutter |

**`PasswordReset`.** Lemma `SessionsImplemented` comes first: `PRSpec => Spec`, since each
action is one of `RefreshSessions` or leaves its variables alone. So `Inv` of the
sessions holds here too, and with it their theorems: `RotationIsOnceButForRacesHere`,
`RacesKeepSessionHere` and `TableImplementedHere` state three of them, the last being a
chain of two refinements.
`PRInv` then adds `JobFits`, `CredentialsAreFresh` (a password is set once, and a token is
mailed after it was stored), `RetiredIsShutOut` (who was not at work when a reset revoked
cannot get a session with a password of before), and that a token which a reset is past
clearing is gone or brought back by a `save()`. Theorems: `OldPasswordIsOut`,
`UsedTokenIsGone`, `FailedResetKeepsLink`.

**`TwoFactor`.** `Inv` adds that codes come from batches generated so far, that a
verification spends a code it has read, that `save()` writes only what it has loaded,
and that as long as no `save()` has split switch and secret no entity is around in
which they disagree. Theorems: `SwitchIsKept`, `SwitchHasSecret`, `CodesDieOnce`.
`SecondFactorImplemented` proves the refinement: the three UPDATEs of the switch and of the
codes set codes that have never been any (`BatchIsNew`), a list written back as it was read
spends one code (`SpendRefines`), a `save()` that finds the row as loaded writes nothing
(`SaveRefines`), everything else stutters. `UndisturbedIsSound` is what the abstract module
then gives without exceptions.

**`EmailChange`.** `Inv` adds `TaskFits`, `MailFits` (to mail is the last step of a
request), `TokenFits` (a code was stored next to the address it is for),
`ConfirmedFits`, and `FreeWhenAsked`: of an address that a change has found free,
whoever is in its mailbox now has moved there since. The last is the heart of
`MailboxesAreOwn`. Each lemma is about any step `Step(r, h)` of one request; the
actions are shown to be such steps once. Theorems: `MailboxesAreOwn`,
`AddressesAreProven`, `CodesServeTheirPurpose`, `CodesAreSpentOnce`,
`PendingIsConfirmable`, `VerificationStays`.

**`Mailer`.** `Inv` adds `MailOrder` (where each mail stands between its code being stored
and the decision of SendGrid) and `CacheOrder` (what is cached or held is no older than the
file was at the last clearing, unless it has been overtaken). Theorems: `LastMailHolds`, `FreshnessHolds`.

**`AvatarStorage`.** `Inv` adds `TaskFits`, `ImagesFit` (what is or was an avatar
has been published, and its original is stored until its deletion), `AccountFits`,
`ErasedAreGone` (objects a deletion has dealt with) and `DeletedIsRestored`. Theorems: `AvatarCanBeLoaded`,
`DeletionIsComplete`, `NothingElseIsLeft`, `DeletionIsFinal`.

**`AuditLog`.** `Inv` adds `AbsentWereDeleted` (a row that is not there was deleted by a
committed change), `InstancesFit`, `ConnectionsFit` (a connection holds nothing
but what its present transaction was told, and that by the handler it belongs to), `WorkFits`, and for each row
`RowFits`. Theorems: `ContextNeverLeaks`, `Attribution`, `LogIsTrue`, `EventsAreLast`.

**`HealthProbe`.** `HealthInv` adds `ClientsFit`: who waits for what on a client in which
state. Theorems: `OneUser`, `DownIsTrueOrClash`.

**`RequestPipeline`.** `Inv` adds `PhaseFits` (a request in its phases has neither exception
nor answer and is not counted; an answer is what the filter makes of the exception, or the
wrapping of a body of the route) and `HistoryFits` (as long as its token has not expired,
the history of a request has what its account is now; whom the guard has let pass is
`Identified`, with a role the account has had). That every filter keeps the status
(`AnswersFit`) and every body survives the wrapping are lemmas about the operators,
over the routes there are. Theorems: `EntitledOnly`, `StatusIsKept`, `ResultsArrive`.

**`Paging`.** `Inv` adds `OldAreToCome` and `QuietWalkIsPrefix`. The first is about the rank of a
row, the number of rows before it: what is on a page are the rows whose ranks fall into it
(`ListedAtRank`), an insertion can only raise a rank, so that an old row which has
not been read ranks behind all that was read for. The second says that on a quiet table what was
read is a prefix of its listing, of which there is one if there are no ties (`OneListing`);
`RoundedUp` is the arithmetic of `pageCount`. Theorems: `InsertionsSkipNone`,
`PagesAreTheTable`.

Only model-checked: the liveness properties (`RequestsFinish`, `EveryMailEnds`,
`EveryRequestIsAnswered`, `OvertakenProbeEnds`), which rest on fairness and ENABLED,
beyond the prover. Every other property of a passing run is a theorem.

## 6. Where code and documents disagree

Two runs show it by a counterexample:

* `audit_coverage`: `record_row_change` redacts OLD and NEW before it compares them,
  so an UPDATE of the password or of the recovery codes alone finds no change and
  leaves no audit row.
* `request_status`: the interceptor reads `response.statusCode` before a filter has set
  it. Every exception is counted with the status of success, and an alert on the rate
  of 5xx never fires.

The models contain more that their properties name as exceptions, or that no run has:

* `resetPassword` is three statements without the `@Transactional` of
  `docs/architecture.md:44`; broken off after the first it leaves the old sessions.
* `QueryFailedFilter` takes a constraint for a conflict if its name begins with `UQ`. The unique
  index of `users` is called `idx_user_email_unique` (`user.entity.ts:13`), and its breach, which
  `confirmEmailChange` lets through, is answered with a 500, not with the 409 of
  `docs/conventions/api-responses.md:337`, `:347` and `docs/guides/exception-cookbook.md:137`;
  `constraint-errors.ts` does not know the name either. `ExceptionsAreAnswered` leaves it out.
* Two refreshes that have read the same row both rotate it, and so do two resets or two
  confirmations that have both read the same code: what the code checks it has read before,
  and the statement that uses it up does not check again. No document promises single use.
* A reset, a verification or new recovery codes of an account that is deleted meanwhile
  leave an event in the audit log, and no change.
* A health check of a Redis that accepts and then says nothing does not answer, until another
  check disconnects it.
* `/health` and `/metrics` can be answered with 429, `@SkipThrottle()` notwithstanding.
* `verifyTwoFactor` can throw `TwoFactorNotEnabledException` at a user whose switch is on.
* `EmailAlreadyVerifiedException` (`docs/guides/exception-cookbook.md:42`) is thrown
  by nothing; a verified address gets the same message as an unknown one.
* Rows written by `update()` have no `request_id`, against `docs/architecture.md:83`.
* `QueryFailedFilter` answers without `success`, `errorCode`, `timestamp` and `path`.
* What guards refuse is not counted by `http_requests_total`.
* With a placeholder key "the send fails silently" (`docs/guides/add-a-mail-template.md:217`),
  but `MailerService` turns the failure into `MailSendFailedException`, which the
  handlers let through: the request is answered with an error, its code stored.

## 7. Not modelled, and why

* Subjects, translations, links and the text of mails. In `PasswordReset` and
  `EmailChange` a mail is handed over or fails; what lies between is in `Mailer`.
* Configuration, crypto, Turnstile, translation, validators, logger: no state over time.
  The decorators of fields, transformations and Swagger declare what a body may be; a
  body is accepted or refused in `RequestPipeline`, whatever the declaration.
* Image validation and search by string: pure checks of an input.
* `createUser` and `updateUser` have no callers in the controllers, and `register`
  refuses always; `uploadImage` and `deleteImage` of `AwsS3Service` have no callers either.
* `deleteUser` and `getUsers` are public methods of `UserService` that no controller
  calls yet. They are modelled all the same (`AvatarStorage` has the whole of
  `deleteUser`, `RefreshSessions` and `AuditLog` its cascade): accounts leave the table
  in any case, by administration at least, and `getUsers` is the only use of `paginate`.
* The counters of the throttler belong to a library: in `RequestPipeline` it may refuse
  at any time. `ShouldSkipWrapping` leaves out streams, which no handler returns.
* TOTP windows and the AES encryption of the secret; a TOTP code is a proof of the secret.
* In `HealthProbe` the database, NATS, and a connection lost by itself.
* `MONITORED_QUEUES` is empty, so the BullMQ collector never runs; of `MetricsService`
  only the counter of log-ins is ever incremented, and nothing reads it.
* Google's check of an id token is an external call; what follows is a log-in, and
  `GoogleRoutes` has the ways in which it is refused.

## 8. Plan

Done: the modules of section 2 and the proofs of section 5. What would come next:

1. An abstract address book that `EmailChange` implements as `TwoFactor` does
   `SecondFactor`, so that the exceptions of its properties are shown to be the only ones.
2. A composition of `TwoFactor` with `PasswordReset`: a reset or a change of password
   while a temporary token of the second factor is out.
3. Google sign-in with its search by e-mail, together with `EmailChange`.
