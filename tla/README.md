# A TLA+ model of veil-forum

veil-forum is a self-hosted forum: one Rust process (axum, tokio, sqlx) over one
PostgreSQL database, operated with a set of shell scripts.  This directory holds
TLA+ modules translated from the source, the TLC configurations that check them,
and TLAPS proofs.  Paths below are relative to the repository root.

How the code runs decides how it is modelled:

* Requests are asynchronous tasks.  They interleave at every `.await`, and an
  axum handler is dropped, at any `.await`, when its client hangs up.
* Every statement of `src/store.rs` commits by itself (READ COMMITTED); only the
  methods that call `pool.begin()` group statements.  So a statement, or a
  transaction whose intermediate states no one can observe, is one step, and a
  handler is a sequence of steps with its Rust locals carried between them.
* In-memory state (`captcha.rs`, `pow.rs`) sits behind a `Mutex`, and each locked
  section is one step.

## Inventory

| Component | State | Operations | Hard behaviour | Correct when |
|---|---|---|---|---|
| Account (`handler/account.rs`, login in `handler/mod.rs`, `totp.rs`, `store.rs`) | `users` row (banned, TOTP secret, last step, pending secret), `totp_recovery_codes`, `pending_logins`, `sessions`, setting `totp_enabled` | password login, code login, logout, password change, set up / confirm / cancel / disable the factor, reissue codes, revoke sessions, ban, unban | each handler is 2 to 8 statements without a transaction; stale reads; ignored errors; dropped handlers | a pending login, recovery code and TOTP code are used once; guesses are limited; old sessions do not outlive a change of the factor |
| Captcha (`captcha.rs`) | mutex-protected table: answer, expiry, attempts | generate, verify | expiry read before the lock; eviction; restart | one acceptance, five guesses, bounded table |
| Proof of work (`pow.rs`) | mutex-protected map of used challenges, by the spelling of their signature; difficulty in the database | generate, verify | reservation released while the database is read, roll-back, eviction, restart | one acceptance of each spelling, nothing stays reserved |
| Registration (`register_post`, invite handlers, `store.rs`) | `users`, `invite_codes`, `registration_mode`, `registration_invite_enabled`, the connection pool | register, create / revoke invite, change policy | transactions waiting for each other's rows and connections; policy read in two statements | an invite counts the accounts it made and never more than allowed |
| Posting (threads, replies, trash, board forms) | `threads`, `posts`, `boards` | post, reply, soft delete, restore, pin, lock, cooldown, create / update / delete board | checks in earlier statements than the insert; counters; flags written from an old value | the counter is the number of replies; a closed thread takes only the replies under way; the cooldown bounds what overlaps; a reply answers its own thread |
| Governance (roles, moderation, reports; `/governance`, `/admin`, `/report`) | `user_roles`, `users.is_banned`, `sessions`, `reports`, `board_moderators`, setting `reports_enabled` | grant, revoke, ban, unban, expel, report, resolve, dismiss, moderate, restore | who asks, what entitles him and what protects the target are read one by one and may be gone at the write | what is written was entitled at some moment of the request; a settled report stays |
| Gates (`handler/middleware.rs`) | settings `totp_required`, `totp_enabled`, `maintenance_enabled`; roles, factor, session of whoever asks | the second-factor gate and, behind it, the maintenance gate | up to seven statements, each may fail; exempt paths differ | nobody passes without a reason that held |
| Pages (home, board, thread, search; sidebar around each) | `boards`, `threads`, `posts`; the page under construction | show a page | one page is put together from several statements, with rows changing in between and reads that fall back to "none" | what is on the page was open to its reader, and not in the trash, at some moment |
| Startup (`main.rs`, `auth.rs`, `Store::connect`) | migrations, first administrator, the address | migrate, make the administrator, bind, serve | crash between statements; two processes on one database and one address | the administrator is the owner; nobody serves without one |
| Upgrade (`scripts/upgrade.sh`, `rollback.sh`) | installed files, snapshot, newest dump, schema version, service | upgrade, roll back, restore the database | each step may fail or be the last one; the rollback does not undo migrations; the health check asks an address, not the service | what the script reports of the files is so, and of the database if it was the service that answered |
| Rate limits, password hashing, rendering, translations | none worth modelling here | | | |

Interaction.  The login and registration handlers take a captcha or a proof-of-work
result as their first guard, and go to the database for everything else; the admin
handlers write the settings the other handlers read; a ban or revocation acts on the
sessions of an account.  Every request passes the two gates first, so a step of any
other module is one of a request that `Gates` has let through; `Governance` decides who
may move a thread or post to the trash, `Posting` what that does to counters and
parents, and `Reading` what pages under construction then show; `Deployment` is what is
around the process that runs them all.  No module shares a variable with another: the
components meet only at these guards and settings.  Each module lets the settings it
reads change at any time, so the composition adds no behaviour that a module does not
already allow, with one exception: `Posting` keeps the length of the cooldown fixed,
because a bound on the posts of one cooldown has no meaning while its length changes;
that it is off is covered by `Exempt`.

`PROJECT.json` has the full list of components with their status and the list of
hazards, each at its line.

## Modules

| Module | Models | Kind |
|---|---|---|
| `Account` | one account: all of its handlers, statement by statement | component |
| `Account_proofs` | theorems about `Account` | proofs |
| `OneTime` | what is promised of a token used once; implemented by `Captcha`, and twice by `Account` | abstract |
| `Captcha` | `captcha.rs`; implements `OneTime` | component |
| `Pow` | `pow.rs` | component |
| `Pow_proofs` | theorems about `Pow` | proofs |
| `AtomicRegistration` | what is promised of a registration; implemented by `Registration` | abstract |
| `Registration` | `register_post`, its transaction and pool, the invite handlers | component |
| `Registration_proofs` | theorems about `Registration` | proofs |
| `Posting` | threads, replies, the trash, the cooldown and the board forms | component |
| `Posting_proofs` | theorems about `Posting` | proofs |
| `Reading` | what the home, board, thread and search pages show | component |
| `Reading_proofs` | theorems about `Reading` | proofs |
| `Gates` | `totp_gate` and `maintenance_gate` | component |
| `Gates_proofs` | theorems about `Gates` | proofs |
| `Governance` | roles, bans, reports, and who may do what | component |
| `Governance_proofs` | theorems about `Governance` | proofs |
| `Deployment` | processes starting, `upgrade.sh`, `rollback.sh` | component |
| `Process_proofs` | theorems about what a process goes through (`Deployment`) and the table it holds (`Captcha`) | proofs |
| `MC*` | the instances TLC runs; one `.cfg` for each run | instances |

**Account.**  `pc[r]` is the statement slot `r` executes next and `loc[r]` the locals
its handler carries.  One account is enough because no statement names two users.  A
pending login is `fresh` (its random token not drawn), `open`, `consumed` or `deleted`,
rather than removed, so that its attempts remain visible to properties; the code sees
only what `Stored` lets it see.  A TOTP code is the time step it belongs to.  Where the
code ignores an error (`let _ =`, `unwrap_or`) the statement may have no effect if
`DbMayFail`; where it reports the error, `Abandon` covers it, as it covers hanging up
and a crash. Passwords are not told apart: that the right one was presented is the guard
of the first step of `login` and `password`, and what a password change writes is the
rotation of the sessions.  `replace_recovery_codes` is two steps: its DELETE takes the
rows of its moment (`doomed`, which a consuming UPDATE waits for), and its INSERTs
appear at the commit, so that two overlapping replacements leave both sets. The fields
`strong` and `spared` of a session row, and `issued`, `drawn`, `uses` and `reset`, are
history: `spared` marks a session whose DELETE failed with the error ignored, `reset`
the secrets whose last step was written over or forgotten.  Random ids are never reused
while a request still holds them. `PendingTokenState` and `RecoveryTokenState` map the
two tables to `OneTime`: a pending login is live from its insert until it is consumed or
its row deleted, a recovery code while its unused row is there.

**Captcha, Pow.**  The clock is read by a step, the lock taken by a later one.
The signed token is not modelled bit by bit: what it binds is what its record
holds.  `Restart` draws a new key and empties the table.  `Pow` tells apart a challenge
and the texts that decode to its signature (`Keys`, `Of`): the expiry and the signature
are checked of the challenge, the map of used challenges is keyed by the text.

**Registration.**  Row locks are what PostgreSQL does: `NameHeld` and `RowHeld`
say which uncommitted rows a statement waits for.  The transaction is several steps
here, because who waits for whom is the question.  A request may give any name
and any code, or none.  `AtomicRegistration` has one step where the code has these
statements; the state of a transaction and the expiry, which is judged at the
clock of its beginning, are hidden from it.

**Posting.**  A request reads the cooldown, the board or thread, the board's rule
and the parent, each by a statement of its own (`pc`, `loc`), then the clock,
and inserts in one transaction; moderators act in between.  `Exempt` are the users
whom nothing holds to the cooldown: administrators, and everyone while
it is off or a read of it fails, because `post_cooldown_response` then lets the post
through.  The check and the arrival are one step, since nothing is written in
between.  Pin and lock are the same two statements on two flags, so `ReadToggle`
and `WriteToggle` take the flag as a parameter; nothing reads `pinned`, and the
runs use `locked` alone.  The trash is a state of the row: `last_post_at` and the
counter see trashed posts as the code does, `get_thread` and `get_post` do not.
The threads and posts of a deleted board go with it (ON DELETE CASCADE).
`ceiling` and `everOpen` are history.  That a session is valid and a
moderator allowed is decided before the steps modelled here, in `Governance`.

**Reading, Gates, Governance.**  The three are built alike.  `pc[r]` is the statement
a request executes next and `loc[r]` what its handler holds; everything else that
writes the tables is an action of its own, a transaction each.  Since a request reads
one fact after another, it cannot promise that they hold together, nor that any holds
at the end; what it can promise is that each held at some moment since it began.
`seen[r]` is that: a history variable to which every step of anybody (`Watch`) adds
what is so after it.  The properties then say that what a page shows, a gate lets
through or a handler writes is covered by `seen[r]`; an omitted check, a
check of the wrong row, a cached answer or an error taken for an answer breaks them.
In `Reading` a statement returns all rows it may return, so that a page shows
the most it can, and `shown[r]` is what is on it so far.  In `Gates` a path is one of
four kinds, by the gates it is exempt from; a failed statement ends the request
(`End`) where the code refuses, and is a "no" where the code says `unwrap_or(false)`.
In `Governance` a work is a kind of handler; the three roles `require_capability` may
ask for are one step, that of the statement which finds one.  Owners, `is_admin`
and the assignment of moderators to boards are constants, because no handler writes
them.

**Deployment.**  `proc[i]` is the statement a process executes next, and the release
of its binary; `Service` is the process the service manager restarts, the others
are started by hand.  Each step of a script has three outcomes: done, not done, or done
in part; what the script does next is `otherwise`.  `Interrupt` is the script being
killed.  A dump is what was in the database when it was taken, and loading it may
stop half-way (`PartsOf`); dropping and creating the database are two commands, and
between them, or when the second fails, there is none (`Gone`).  All processes are
started with the installed configuration, so they bind the same address: one of them
serves at a time, and `veil_wait_healthz` takes the answer of whichever it is
(`script.by`).  A process started by hand on another address is left out, as nothing
asks it.  The settings and the board that `seed_defaults` inserts are left out: no
property could speak of a board, since `board_delete` (`src/handler/mod.rs:4268`) removes
the last one as it does any other.  `cut` and `beside` are history: what the
properties have to except.  Its `DeploymentInit`, `DeploymentNext`, `DeploymentSpec` and
`DeploymentTypeOK` carry the module's name because `Process_proofs` extends it beside
`Captcha`.

## Runs

All bounds are constants of the configurations.  Two request slots suffice for
races of two actors, which is what every hazard listed needs; where a
third would matter (a bound that grows with the slots) the theorem covers every number.

| Run | Shows | Bounds |
|---|---|---|
| `second_factor` | guesses past the limits are at most those already in flight; pending logins implement `OneTime`; every session presented the factor, those a password change rotates included | 2 slots that log in, one of which may change the password instead; 2 pending logins, 2 attempts each and 3 for the account, 3 time steps of code window, so that a limit is reached and overrun |
| `sessions` | sessions whose deletion did not fail never outnumber slots; none from before a change of the factor survives the answer | 2 slots, one of them with 10 handlers, the other with 5; 3 session ids, one more than the slots; deletions fail where the error is ignored |
| `enrolment` | recovery codes implement `OneTime`, whether used at login or to disable the factor, while codes are reissued; a TOTP code is accepted once as long as the last step of its secret is not reset | 2 slots, both may confirm an enrolment, one logs in, the other disables and reissues; a factor at the start, 2 secrets, 2 codes, ignored errors occur |
| `captcha` | the table implements `OneTime`; five guesses; bounded | 3 ids for a table of 2, so it overflows; 2 guesses; 4 instants for a lifetime of 1 |
| `pow` | accepted once while kept; nothing left reserved; bounded | 2 challenges, one of them in two spellings, for a map of 1; 2 difficulties; 3 instants for a lifetime of 1 |
| `registration` | invites and accounts agree; the statements implement `AtomicRegistration`, so a revoked code stays put and a name goes to one account; every registration is answered | 2 requests, 2 names, 1 code of 1 use, 2 connections, 2 instants, unreadable settings occur |
| `posting` | the counter and the posts agree; a closed thread takes only the replies under way; parents stay in their thread | 2 posting requests, 1 moderator besides the one-statement actions, 2 threads, 3 posts (so that a thread gets two replies at once), 1 board; the user is exempt, so time need not pass |
| `cooldown` | posts within one cooldown are bounded by the slots; anonymous posts only where they were once allowed | 2 requests, 1 user, 1 thread, 3 posts (one more than the slots), 2 instants for a cooldown of 1, both rules and both kinds of post |
| `reading` | what is on a page was open to its reader and live at some moment of the request | 1 reader (readers write nothing, so a second adds nothing), 2 boards so that one closes while another is shown, 2 threads, 3 posts, one written later; the four pages |
| `gates` | the factor policy and maintenance let through only who is covered by a moment of the request | 1 request (requests write nothing the gates read), an owner and a member, the three policies, both switches |
| `governance` | what is written was entitled; a settled report stays | 2 requests, each of any work, an owner and a member, 2 boards of which the member may be moderator of one, 1 report; the forms of ban and expel name the member |
| `deployment` | the first administrator is the owner; what the scripts report is so | 2 releases with 1 and 2 migrations, 2 processes on one address, of which one is the service; any number of upgrades, rollbacks and restores in sequence |

Observed while modelling.  These are facts of the code that the properties have
to except, or that the repository's words do not quite match:

* Account.  The budget over fifteen minutes restarts every five, because
  `create_pending_login` deletes the expired pending logins that hold the count
  (`src/store.rs:1757`, against `src/handler/account.rs:22`); `BudgetPerLifetime` is
  what is kept.  A login that read the factor as inactive inserts its session after the
  factor was activated and the old sessions revoked (`src/handler/mod.rs:2249`); hence
  `FactorPresented` where nobody switches, and `PredatingSessionsGone` for sessions that
  were there.  Five attempts per pending login can be exceeded by overlapping
  submissions, by one for each other request in flight (`AttemptsBounded`).
  `delete_expired_pending_logins` and its siblings are not called by the program.
* TOTP codes.  `docs/operations.md:296` says "A code is accepted only once".  Two
  overlapping confirmations of one enrolment accept the same code twice: the code is
  checked against no last step (`src/handler/account.rs:793-821`) and `activate_totp`
  writes unconditionally (`src/store.rs:1628`), which may also move the last step back.
  And `disable_totp` clears the step it has just spent (`src/store.rs:1646`), so that a
  login which read the secret earlier accepts the same code.  `CodeOnce` excepts
  just these: secrets whose last step was written over or forgotten (`reset`).
* Sessions.  The account page says "One active session per account. Signing in again ends
  the previous one." (`src/handler/account.rs:483`).  Two logins that overlap leave two
  sessions, because `complete_login` deletes and inserts in two statements; and when
  the deletion fails, its error is ignored (`src/handler/account.rs:156`) and all earlier
  sessions stay.  `SessionsBounded` says what is left of the promise.
* Recovery codes.  Two overlapping reissues keep both sets, as the DELETE of the second
  does not see the rows the first inserts (`src/store.rs:1703`).
* Proof of work.  `pow_hmac` is taken as it is sent (`src/handler/mod.rs:755`), decoded
  in upper or lower case (`src/pow.rs:127`), and the map of used challenges is keyed by
  the text (`src/pow.rs:137`, `151`): one solved challenge is accepted once in each
  spelling, and `AcceptedOnceWhileKept` speaks of spellings.  A challenge submitted
  twice in its last second may be accepted twice, because its used entry is dropped on a
  later reading of the clock than the one that checked the expiry
  (`AcceptedOnceWhileKept` excepts `lapsed` challenges).
* Registration.  A mode that cannot be read counts as "invite", and a registration
  goes on while registration is closed (`src/handler/mod.rs:1918`).  The "Invite
  only" mode registers without an invite when the separate invite switch is
  off, and "Open" asks for one when it is on (`src/handler/mod.rs:1948`).
* Posting.  Posts that overlap pass the cooldown together (`CooldownBounded`); a reply
  may enter a thread locked or trashed after the check (`ClosedBounded`); `reply_count`
  counts trashed replies, so it is not what a listing shows; reply refuses to go on
  when the board cannot be read but not when it is missing
  (`src/handler/mod.rs:2476`), which the foreign key makes harmless.
* Pages.  `thread` skips the check for guests when the board is deleted between its two
  reads, although the comment there says "Fail closed" (`src/handler/mod.rs:1379`);
  the page then shows the title and no posts.  The
  sidebar takes the latest five threads before it hides those of private boards, so
  a guest may see fewer (`src/handler/mod.rs:543`).
* Gates.  Maintenance exempts `/login` but not `/login/totp`, so an administrator
  with a second factor cannot finish signing in during maintenance
  (`src/handler/middleware.rs:15`); the login itself asks for `is_admin` alone
  (`src/handler/mod.rs:2195`), the gate also accepts the roles admin and owner.
* Governance.  Ban has no check for oneself or an owner, unlike `change_role`;
  `docs/operations.md:308` says that `admin` manages users, but the handlers
  under `/admin` ask for `is_admin`, which a role does not set.  `resolve_report`
  reports success when it has changed no row, so both moderators' audit entries say so.
  `add_board_moderator` and `remove_board_moderator` are called by no handler.
* Startup and upgrade.  A crash between the two statements of `ensure_admin` leaves no
  owner for good, since the table of users is no longer empty (`src/auth.rs:89`); no
  later start repairs it.  The rollback of an upgrade does not undo migrations; the
  older binary then refuses to start, the health check fails and the script says so
  (`EndsAsReported`).  But `veil_wait_healthz` polls an address (`scripts/lib.sh:198`):
  with a process on it that was started by hand, `upgrade.sh` reports "Done" while the
  service cannot bind, or is still behind with its migrations, and a rollback reports
  that "the forum runs $OLD_VERSION again" (`docs/operations.md:362` likewise) while the
  service cannot start; hence `script.by = Service` in `EndsAsReported`.  When `DROP
  DATABASE` succeeds and `CREATE DATABASE` fails, there is no database left
  (`scripts/rollback.sh:204`), and no restore can be tried again, because the next
  `DROP` fails.  `board_delete` deletes the last board too (`src/handler/mod.rs:4268`);
  the next start inserts the default one again.

### Fairness

Only `Registration` states a liveness property; the other components promise nothing
that must eventually happen and that the code itself, not a client, brings about.
`FairSpec` asks weak fairness of `Serve(r)`, the statements of a registration that has
begun: tokio polls a task whose wait is over, and PostgreSQL wakes a statement whose
lock is free. Nothing is asked of the clients (`ReadMode` is the arrival), of
administrators, of the clock, or of `Abandon`; `Answered` therefore does not rest on the
pool's acquire timeout.

## Proofs

`Account_proofs`, for every number of slots, ids, secrets and limits, and every
assignment of handlers to slots:

* `TypeCorrect`: `TypeOK` is inductive; one step per action.
* `AttemptsSafe`: the bound on attempts is not inductive, as it does not count the requests
  that are past the check.  `AttemptsInv` adds them: attempts plus requests
  guessing at the pending login are at most `MaxAttempts + |Requests| - 1`.  A
  new guesser enters only while `attempts < MaxAttempts`; a failure moves one
  from the second term to the first.
* `BudgetSafe`: the failures of the last lifetime of a pending login are at most
  `AccountLimit + |Requests| - 1`.  They are counted as a set of pairs (pending
  login, number of the failure), so that the sum of the code is a cardinality.
  `BudgetInv` adds to the failures the requests that `TotpCount` has let through
  (`LetThrough`); one is let through only while the count of the stored rows, which by
  `RowInv` has every failure not yet a lifetime old, is below the limit.  `RowInv`
  and `ClockInv` say that a row was not deleted before its lifetime was over and that a
  request's reading of the clock is not ahead of it.  That the count looks back at
  least a lifetime is the named assumption `PendingTTL <= AttemptWindow` (five
  minutes, fifteen).
* `SingleUseSafe`: `SingleUseInv` ties the counts of acceptances to the rows: a
  pending login that is fresh or open, and a recovery code still stored or not yet
  issued, was never accepted.
* `PendingRefinement`, `RecoveryRefinement`: from `SingleUseInv`, step by step.
  Only `TotpConsume` accepts a pending login; opening one and cleaning expired ones are
  renewals of the tokens.  `TotpRecovery` and `DisableRecovery` accept a recovery code;
  `NewCodes` and `DisableCommit` are renewals (a row that a replacement is about to delete
  is still stored, and nobody consumes it meanwhile); every other step leaves the
  tokens alone.
* `RevocationSafe`, with statements that fail or not: `RevocationInv` follows the old ids
  through the loop: what is left of them is on the list of victims or spared, and the
  caller's own session is not old.
* `SessionsSafe`, with statements that fail or not: `SessionsInv` counts the unspared
  sessions together with the requests between the two statements of `complete_login`.
* `CodeSafe`, for every assignment of handlers: of a secret that was never reset, a step is
  spent at most once, and only while the secret is the active one and the step no later
  than the row's last step, so that the conditional UPDATE refuses it from then on
  (`ClaimInv`); and a request about to claim a step holds the active secret or one that
  was reset.
* `FactorSafe` under the assumption `Steady` (the account is enrolled and no slot runs a
  handler that switches the factor or the feature), which is the premise of
  `FactorPresented`.  `SteadyInv`: the feature stays on and the secret what it was; every
  session, and every request past the check that is about to insert one, presented
  the factor.

`Process_proofs`, for every number of requests, ids and limits of the captcha table, and
every number of processes, releases and migrations:

* `CaptchaTypeCorrect`, `GuessesSafe`, `TableSafe`; and `CaptchaRefinement`, that every
  behaviour of `Captcha` is one of `OneTime`.  `CaptchaInv` says that an id is
  inserted by one request at a time, that a record in the table was published and not
  accepted, and that it has guesses left.
* `DeploymentTypeCorrect`.
* `OwnerSafe`: besides the property, `PhaseInv` says that whatever a process has
  passed in its start-up is still there (the administrator, its migrations),
  although other processes and scripts write the same database; a database is only
  replaced while nobody uses it, and while there is none nobody gets past the
  migrations (`DropInv`).
* `ReportSafe`: what is reported at the end rests on every step before.
  `ScriptInv` says what a script has at hand at each step, `FilesInv` which files are
  whole before it, `StoppedInv` that files are exchanged and the database is restored
  only while no process of the service runs, `InstalledInv` that the process started
  after that is of the installed binary, `SchemaInv` that a process of the
  service runs with exactly the migrations it knows unless another has added some, and
  `EndInv` that what was reported of the schema, if it was the service that answered, stays
  so.  A failed step retreats
  (`Retreat`) to a label where none of this is claimed.

`Registration_proofs`, for every number of requests, names, codes and connections,
unreadable settings included:

* `TypeCorrect`, `InviteSafe`, `NameSafe`, `RevokedSafe`.  `RegistrationInv` says
  who holds what: the name of an open transaction is not taken and has one holder; an
  invite row about to commit has one holder and a use left, and is not revoked.
* `AtomicSafe`: every behaviour of the statements is one of `AtomicRegistration`.
  `CreateUser` and `Commit` are its registrations, and `RegistrationInv` is what makes
  the promised guard hold at the commit; all other statements are stuttering.
* `NoCircle`: as long as a registration is under way, one does not wait for anything,
  whatever the size of the pool; and a request that is served did not wait, gets to a
  later stage and moves nobody else.  That is what `Answered` rests on besides
  fairness: stages are finite and only `Serve` and `Abandon` change them.

`Pow_proofs`, for every number of requests, challenges, spellings, difficulties and limits:

* `TypeCorrect`, `UsedSafe`, `NoneLeftBehindSafe`, `AcceptedOnceSafe`.  That one spelling
  of a challenge is accepted once is not inductive: `ReservationInv` adds that a spelling
  which did not lapse has one holder at a time, that one being held was never
  accepted, and that one accepted is still in the map, of a challenge that is expired or
  signed by an earlier process, so that it cannot be reserved again.

`Posting_proofs`, for every number of users, requests, moderators, boards, threads and
posts, and every length of the cooldown:

* `TypeCorrect`; `RowsInv`, used by the others, says that a stored post is in a stored
  thread, and a stored thread on a board that is there.
* `ParentSafe`: the handler's locals are part of the invariant (`Local`, `Parent`): a
  parent that was validated is stored, and in the thread the request holds, until that
  thread is deleted; once the clock is read, it is no newer than the reply.
* `CountSafe`: the counter plus one is the cardinality of the stored posts of the thread;
  each insert adds one element to the set and one to the counter.
* `ClosedSafe`: in `ClosedInv` replies counted plus replies past the check are at most
  `ceiling`.  A reply moves one from the second term to the first, and none enters
  while the thread is closed.
* `CooldownSafe`: `CooldownInv` counts, besides the posts of the current cooldown,
  the requests past the check; each is a post still to come.
* `AnonymousSafe`: `AnonymousInv` adds that an anonymous request past the rule is on a
  board that once allowed it or, a reply, on one that is deleted.

`Gates_proofs`, for every number of users and requests and every set of policies:

* `TypeCorrect`, `FactorSafe`, `MaintenanceSafe`.  `IInv` ties each label to the answers
  that lead to it: a request past the question whether anybody is signed in has seen
  that someone was, one that asks for the second role has seen the first missing, and
  one past `totp_gate` is excused or admitted.  Since `seen` only grows, a write of
  somebody else disturbs nothing.

`Governance_proofs`, for every number of users, boards, reports and requests:

* `TypeCorrect`, `AuthorisedSafe`, `ReportFinalSafe`.  `IInv` has, for each label, the
  facts found so far (`Found`) and that the work of the request passes through it
  (`WorksAt`); at the label of the write they add up to `Entitled`.

`Reading_proofs`, for every number of boards, threads, posts and requests:

* `TypeCorrect`, `AllowedSafe`, `LiveSafe`.  `Cascade` says that a stored post is in a
  stored thread, and a stored thread on a board that is there, so that a
  deleted board has nothing left to show; `Known` what a request has seen of the board
  and the thread it goes on with; `Fit` that what is on the page is covered by that.

The theorems state properties that the runs check on small instances.  The proofs use
the named assumptions of the component modules and nothing else.

Only model-checked: `Answered`, as liveness under fairness is out of this prover's
reach; `NoCircle` is the part of it that is a safety property.  Every other property of
the runs is stated by a theorem.  `NameSafe` (one account per name), `RevokedSafe`
(`RevokedFrozen`) and `SingleUseSafe` (`PendingOnce`, `RecoveryOnce`) are proved and in no
run by themselves, since the abstract specifications the runs check imply them.
`FactorPresented` is checked in a run whose handlers satisfy its premise.

## Plan

All components the first plan named are modelled: `Account`, `OneTime`, `Captcha`,
`Pow`, `Registration`, `Posting`, then `Reading`, `Gates`, `Governance` and `Deployment`;
and all safety properties of the runs are proved.  Worth doing next: an
abstract specification of a page, of which `Reading` would be the implementation.

## Not modelled

Rate limits (the governor crate's state; a refused request does not begin), password
hashing (a pure function behind a semaphore), rendering, translations and static
files (no state), the HTML and CSRF forms (a guard before the modelled steps),
installation and release scripts, `theme_query_cookie` and the audit log (only written).
`backup.sh` and `db-maintenance.sh` are one step of `Deployment`; what they do to the
dump (encryption, retention) is left out.  So are the settings and the board that a start
inserts where they are missing.  Which posts match a
search and how they are ranked is PostgreSQL's; `Reading` models what the statement
may return at most.  Lists of governance pages are one statement behind a check that
`Governance` has.  Idle and
absolute expiry of sessions is the nondeterministic `SessionRefused`: any session
may end at any time.
