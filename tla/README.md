# Harbor services in TLA+

Harbor is a Go back end (`src/`) that gives several tenant apps their sign-in
(Auth), payments (Billing) and an administration API.  It runs as one binary
(`cmd/server`) over a Firestore database or an in-memory store; on Cloud Run
many stateless instances of it share the database
(`docs/ARCH_README.md:115`).  Nothing in the code runs a transaction or holds a
lock across two repository calls, so the interesting behaviour is what
interleaved requests, retries and failures do to shared documents.  That is
what the modules here model.

## The system

| component | state it keeps | operations | interacts with |
|---|---|---|---|
| Checkouts and orders (`internal/billing`) | `billing_orders` | CreateCheckout, GetOrder, ListOrders | config, catalogue, provider, tenant gate |
| Provider webhooks | `billing_webhook_events` | HandleWebhook | config, provider, orders |
| Provider adapters (Creem, mock) | none; sessions live at the provider | CreateCheckout, VerifyAndParseWebhook | provider's HTTP API |
| Billing configuration | `billing_configs` | Get, Put, OnAppCreated | Admin API, tenant hook |
| Product catalogue | `billing_products` | CreateProduct, UpdateProduct, GetProduct, ListProducts | checkouts |
| Tenant apps (`internal/tenant`) | `apps` | CreateApp, UpdateApp, RotateAppSecret, DisableApp, GetApp, RequireActiveApp, VerifyAppSecret | lifecycle hooks of Auth and Billing |
| Tenant app cache | one map per process, with a TTL | GetByID, Update, SoftDisable around the store | tenant apps |
| Sessions (`internal/auth`) | `refresh_tokens`, `users.token_version` | Login, Refresh, Logout, LoadUserForAccess, Introspect | users, tenant gate |
| User accounts | `users` (and an e-mail index in memory) | Register, UpdateMe, ChangePassword, ChangeEmail, DeleteAccount | verification tokens, sessions |
| Verification tokens | `verification_tokens` | VerifyEmail, ForgotPassword, ResetPassword, ChangeEmail | users, sessions |
| Login lockout | fields of `users` | Login | users |
| OAuth | `oauth_accounts`, an in-process state store | OAuthAuthorize, OAuthCallback, OAuthLink, OAuthUnlink | users, sessions |
| Auth configuration | `app_auth_configs` | GetAuthConfig, UpdateAuthConfig, EnsureAuthConfig, OnAppCreated | tenant hook |
| Rate limiter | in-process sliding windows | Allow | Auth operations |
| Admin API, seed, ops stub, platform, crypto/ids | none of their own | decode requests, start-up, formatting | everything |

What is hard in it, and what the properties are for, is listed line by line
under `hazards` in `PROJECT.json`: requests that interleave between two store
calls, whole documents written back from stale copies, a failure between two
steps, a provider that delivers events late, twice or concurrently, and
per-process caches that outlive a change.

## Billing orders: `BillingOrders`, `OrderLedger`, `BillingOrdersProofs`

`OrderLedger` is the promise: an order is opened once under terms that never
change, is never removed, and changes status only by crediting a provider event
of its own checkout, each at most once.  It does not order the credits: a payment
credited after its refund puts the order back to paid.  `BillingOrders` is the program:
`CreateCheckout` and `HandleWebhook` of `internal/billing/application/service.go`
with every repository and provider call an action of its own.

| state | code |
|---|---|
| `config` | `billing_configs`, what checkouts and webhooks read of it, with each provider's webhook secret: none, the provider's, or another |
| `orders`, `recorded` | `billing_orders`; `billing_webhook_events` by (provider, event id) |
| `pc`, `call`, `plan`, `reply` | a `CreateCheckout` call: where it is, its input, its local `order`, its answer |
| `hpc`, `event`, `draft` | a `HandleWebhook` call: where it is, its event, its local copy of the order |
| `session`, `emitted`, `acked` | the provider: its checkout sessions, the events it made, those it saw answered 2xx |
| `applied`, `late`, `before` | history, read by properties only: events whose update was stored; orders whose payment was first stored after their refund; orders stored when a request came |

| action | code (`service.go`) |
|---|---|
| `Arrive` | 393-407: the app gate, the body, the branch on the key |
| `LookupKey` | 407-424, with `ParamsMatch` = `checkoutParamsMatch` 520-537 |
| `LoadConfig` | 426-446 and 463-488: one snapshot decides provider, credentials, mode |
| `ResolveProduct` | 447-461 |
| `CreateSession` | 490-503, `providers/creem.go` 46-96 |
| `SaveOrder` | 504-518 |
| `AbortCheckout` | every early error return after a failed call, or the death of the instance |
| `Verify` | 567-588: the config of this moment, `decryptCreds`, the adapter's signature check (`Accepts`, `Verifies`) |
| `Record` | 590-605 |
| `FindOrder`, `UpdateOrder` | 607-648 (`Found`, `Ignores`, `Drafted`), 649 |
| `UpdateUnanswered`, `AbortWebhook` | the instance dies or a store call fails, after or before its effect |
| `Pay`, `Refund`, `Notify`, `Deliver` | the customer and the provider (environment) |

A request draws a fresh order id (`idgen.NewOrderID`), so an order, its
provider session and the request that made it share one name.

An event need not lead to its order.  `Naming` says what an adapter makes of the
payload of each kind of event: the checkout's own id, only the `request_id`, or
neither (Creem's `object.id` is taken for the checkout's whatever the event,
`creem.go:125`).  The first is looked up for any app, the second only counts for
the app of the webhook URL (607-624).  `HookOf` says which app that is: two apps
may share an account at the provider, whose events go to one of them.  An event
that finds no order is recorded, answered 2xx and dropped (625).

A delivery need not be let through.  The provider must be on in the config of the
app of the URL, and the stored webhook secret must be the provider's; while there
is none, Creem's adapter refuses everything and the mock nothing (`Lenient`).
`Put` accepts a default provider without one, so `Configs` has such documents.

### What the runs show

| run | instance | question |
|---|---|---|
| `orders_webhooks` | 1 order, 2 apps with one webhook URL, 2 handlers, 1 fault, 1 config change, fairness | orders agree with the provider; the handlers implement the ledger; without faults a 2xx means handled; retries end; without faults payments arrive |
| `orders_checkouts` | 2 checkouts, with or without the key, 3 bodies, 2 configs, 1 handler | mode and provider come from one snapshot; answers are about the call; a later retry makes no second order |
| `lost_payment` (violated) | 1 order, 2 handlers, 1 fault, fairness | a payment can be lost for ever |
| `refund_undone` (violated) | 1 order, 2 handlers, no fault | a refunded order can end as paid |
| `double_order` (violated) | 2 concurrent checkouts | one key can make two orders |

Two requests are enough for what a key can go wrong with, since every property
of keys is about a pair of orders; two handlers are enough for a duplicate
delivery and for two different events of one order to overlap, since a handler
touches one order.  Orders are independent but for their key, so
`orders_webhooks` needs one, and one handler is enough in `orders_checkouts` for
an order to change between two requests.  `MaxFaults = 1` lets a handler fail or
die at any one step, before or after its effect; `MaxPuts = 1` lets the config
change at any one point.  Of the two configs of `orders_webhooks` one has the mock
switched off and the other has Creem without its secret, so that either provider
stops being accepted with orders open, or is accepted only after a while.

What the properties except is what the code does, and no more:

- `OrderMatchesProvider`: a refund that is stored is undone only by a payment
  that had not been stored before (`late`), never by a redelivery.  That it is
  undone at all is `RefundStays`, which `refund_undone` refutes.
- `AcknowledgedIsHandled` speaks of events that name their order (`NamesOrder`);
  the others are dropped with a 2xx.  The order shows the event, or the other one
  of its session that was stored later.
- `EventuallyAcknowledged` and `PaymentReachesOrderUnlessFault` speak from when
  the app of the URL accepts the provider's deliveries for good
  (`<>[]Accepts(s)`).  A Creem without its secret is answered 401 for ever.
- `ReplyAnswersCall` says which replays are let through, not that every identical
  one is: a body with a product and another price id is stored with the price of
  the catalogue (460), compared with its own (524), and refused when it is
  repeated.

Deadlock is not checked: an instance has finitely many requests, and stops when
all are answered.

Fairness (`FairSpec`): a handler that was called is scheduled
(`WF(HandlerStep)`: the Go scheduler), and a provider delivers again what was
not answered 2xx (`SF(Deliver)` of an event not in `acked`: Creem's documented
retries, which `billing_prd_01.md:275` counts on; strong, because no handler of
the instance may be free all the time).  Customers, admins, checkouts and faults
have no fairness.

### What is proved

`BillingOrdersProofs` proves for every value of the constants that satisfies
`OrdersAssumption`:

- `TypeCorrectness`: `Spec => []TypeOK`;
- `OrdersMatchProvider`, `PaidSessionsHaveOrders`, `RetriesMakeNoOrder`: the
  safety properties of the same names as in the runs;
- `RepliesAnswerCalls`, `AcknowledgedAreHandled`: `ReplyAnswersCall` and
  `AcknowledgedIsHandled`;
- `Refinement`: `Spec => ImplementsLedger`.

All rest on one inductive invariant, `TypeOK /\ Inv` (theorem `Invariance`).
`OrderMatchesProvider` alone is not inductive: an update writes a copy made in
an earlier step.  `HandlerInv` says what that copy still has in common with the
stored order and that a handler past `Record` owns its event alone; `EventInv`
ties events to what the session has been through, so that a copy marked paid
belongs to a session that was paid; `CheckoutInv` ties a session to the plan of its
request; `KeyInv` carries the result of the key lookup to the moment the order
is stored.  Lemmas show one group of actions at a time to preserve each part.
The refinement then follows because `HandlerInv` makes `UpdateOrder` credit an
event that was not credited before, under unchanged terms.  Two more invariants
build on it.  `AnswerInv` says that an order under construction is what its call
asks for; stored orders keep their terms (`TermsStay`).  `AckInv` says that every
recorded event that names its order is credited or has its handler at work:
`FindOrder` ignores such an event only if its order is already paid by it.

Only model-checked: the liveness properties, which are out of the prover's reach.

### Left out, and why

`TrimSpace`, `cancel_url`, e-mail and metadata (copied, never compared);
`provider_order_id` and the customer e-mail of an event (overwritten or filled
in, no property reads them); statuses other than paid and refunded, which only
a mock payload can name; mock events without an id, which are never duplicates;
several events of one kind for one session, such as partial refunds; a
`request_id` beside a checkout id that finds the order only by then.  Whether the app counts as
active is either answer (the tenant cache decides).  The catalogue answers with
any price.

## Tenant apps: `TenantApps`, `TenantAppsProofs`

One document per app, shared by all instances, and in front of it one TTL cache
per instance (`cmd/server/main.go:117`).  No lock spans a store call and a cache
call, so each of the two is an action.

| state | code |
|---|---|
| `store` | the `apps` collection: secret hash and status of each app |
| `authCfg`, `billCfg` | which apps have a document in `app_auth_configs`, `billing_configs` |
| `cache` | `InMemoryCache` of each instance, key `app:{id}`, with the ticks that are left |
| `pc`, `call`, `copy`, `age` | an API call or seed: where it is, its request, its local `app`, how long it has run |
| `last` | history: how long ago the document had a given content; read by properties only |

| action | code |
|---|---|
| `Begin` | the Admin handlers, the tenant gate, `seed.Run` (`admin/presentation/handlers.go:38-135`) |
| `ReadCache`, `LoadApp`, `Fill` | `CachedAppRepository.GetByID`, `cached.go:48-64` |
| `Decide` | what `RequireActiveApp`, `UpdateApp`, `RotateAppSecret`, `DisableApp` and seed do with the copy (`tenant/application/service.go`) |
| `Write`, `Refresh` | `CachedAppRepository.Update`, 70-79 |
| `SoftDisable`, `Evict` | `CachedAppRepository.SoftDisable`, 81-87 |
| `CreateApp`, `Prime`, `EnsureAuth`, `EnsureBilling` | `CreateApp` with its cache entry and its two hooks |
| `Fail`, `Restart` | an error return at any step; an instance that dies with its cache and its calls |
| `Tick` | time; no call is older than `MaxFlight`, entries expire |

| run | instance | question |
|---|---|---|
| `apps_instances` | 1 app, 2 instances, 2 calls of any kind, TTL 2, 1 restart, fairness | how stale an instance can be; one creator; success means complete; caches agree with the store in the end |
| `app_secret` (violated) | 1 instance, 2 calls | an update can bring the old secret back |

Two instances show what one does not tell the other; apps do not interact, so
there is one; every property is about one reader or writer that overtakes
another, a pair of calls.  The lookups come back (`Again`), every other call runs
once.
`MaxFlight` is the platform's request timeout (`--timeout=30s`,
`docs/DEPLOY.md:407`); the TTL is 300 s, so `TTL >= MaxFlight` in the runs.
Deadlock is not checked: when all calls are over and all entries have expired
the system rests.  Fairness: calls are scheduled, and time goes on (`SF(Tick)`,
strong because a call that is `MaxFlight` old holds the clock until it ends).

`CachesConverge` is the claim that the TTL repairs whatever the caches do to each
other; `BoundedStaleness` says how soon.  The bound is not the TTL: a copy is up
to `MaxFlight` old when it is put into the cache, and another call may use the
entry just before it expires and write it back.  So the disabled app may be active
for a while on any instance, that of DisableApp included, when a lookup has read it
before and fills the cache after (`cached.go:61, 85`), where
`tech_details.md:687-689` says that the cache is invalidated.

`TenantAppsProofs` proves `TypeCorrectness` and `StalenessIsBounded` for every
value of the constants that satisfies `AppsAssumption`, from the inductive
invariant `IInv` (theorem `Invariance`).  The bound is not inductive: how old an
entry is depends on how old the copy was that filled it.  `AgeInv` therefore
bounds what each call is about to cache by the time the call has run, and
`CallInv` says which copies exist.  `PutPreserves` and `SetCachePreserves` carry
the argument once for all actions that write the document or an entry, and
`TickPreserves` ages all of them together.  `CreatedAppsAreComplete` and
`CreatorsAreAlone` follow from `CreationInv`, which says at which steps a call has
created its app (`Creator`) and what it has configured by then (`Stage`).  Only
`CachesConverge`, a liveness property, is left to TLC.

Left out: names, URIs and settings; the `deleted` status, handled like
`disabled`; ListApps, which does not use the cache; the admin users that seed
creates.  `Delete` and `Set` in `Update` are one action, and a `Get` that drops an
entry it found expired never drops its successor: both only cost a load.  The
in-memory store loses all apps on a restart; it is for one process and
development.

## Billing configurations: `BillingConfig`, `BillingConfigProofs`

`Put` reads an app's document, edits the copy provider by provider, then checks
what has become of the default provider, and writes the copy back whole.
`OnAppCreated` writes an empty document when it finds none.

| state | code |
|---|---|
| `store` | `billing_configs`: the default provider and each provider's switch and secret |
| `pc`, `call`, `copy` | a `Put` or hook: where it is, its body, its local `existing` |
| `ledger`, `overlap` | history: the secrets that the stored bodies add up to; apps whose calls have overlapped |

| action | code (`billing/application/service.go`) |
|---|---|
| `Begin` | `PutBillingConfig`, `admin/presentation/handlers.go:169-181` |
| `ReadForPut` | 114-191: the read and all work on the copy (`Merged`, `Accepted`) |
| `ReadForHook` | 64-81 |
| `Upsert`, `Fail` | 192-195; a failing call, before or after its effect |

`billing_config` runs four calls on one app with bodies that set a provider up,
make it the default, replace or omit its secret, switch it off, name an unknown
provider or clear the default; three Puts set up, select and spoil a
configuration, the fourth call can overlap any of them.  `StoredConfigUsable` is
what `BillingOrders` assumes of configurations (`ValidConfig`).  It survives
overlapping Puts because every writer checks the whole document it writes.
Updates do get lost when Puts overlap; `SecretsAddUp` therefore speaks of apps
whose calls have not overlapped, and there it says that nothing is lost, whatever
was refused in between.  Deadlock is not checked: there are finitely many calls.
No liveness is stated and no fairness assumed.

`BillingConfigProofs` proves `TypeCorrectness`, `ConfigsStayUsable` and
`NoSecretLost` for all constants that satisfy `ConfigAssumption`, from one
inductive invariant (`Invariance`): a copy about to be written is usable
(`CopyInv`), calls of an app without overlap are alone (`AloneInv`), and a lone
copy holds the secrets the ledger will have after it is written (`LoneInv`).
`MergedIsUsable` is the lemma about the merge itself.

Left out: `enabled` and `test_mode`, which are those of the latest body; the
decryption of secrets; `account_id`, `webhook_secret` and `extra`, which are
carried like the key.

## Users, sessions, codes, identities: `AuthService` and its proofs

Everything in the Auth service that writes to the database, within one app.  A
request reads a user, changes its copy and writes it back whole, with no lock and
no version check; sessions, codes and links are documents of their own, written
in further calls.  Each repository call is a step, and `Program` says in which
order an operation makes them.

| state | code |
|---|---|
| `users`, `index` | `users`; the e-mail index of `MemoryStore` |
| `pairs` | `refresh_tokens`, each with the access token that was issued with it |
| `codes`, `links` | `verification_tokens`, `oauth_accounts` |
| `backend` | which store the process was started with |
| `pc`, `call`, `who`, `copy`, `pending` | a request: its next repository call, what it was called with, its user, its copy of the user, the documents its query found |
| `before` | history: the requests that were over when it began |

| action | code |
|---|---|
| `Begin` | the first repository call of each operation, with the checks before the next one (`auth/application/service.go`, 304-1155; access tokens are checked by `LoadUserForAccess`, 1330-1348) |
| `ReadUser`, `MatchEmail`, `CheckEmail` | `GetByID`; the address of a first OAuth sign-in; the address of ChangeEmail |
| `CreateUser`, `UpdateUser`, `SetUser` | `users.Create`, `users.Update`: one step under the lock in memory, a query and then a write in Firestore |
| `IssueTokens`, `SpendToken` | `issueTokens`; the revocation in Refresh |
| `RevokeInMemory`, `QueryTokens`, `RevokeNext` | `RevokeFamily`, `RevokeAllForUser`: at once in memory, one by one in Firestore |
| `MailCode`, `MarkUsed` | a code of Register, ChangeEmail or ForgotPassword; its use |
| `CheckOwner`, `LinkInMemory`, `QueryLink`, `AddLink`, `ListLinks`, `DropLink` | linking and unlinking |
| `Fail`, `Skip`, `SkipLink` | a failing call: the request ends, or the code drops the error and goes on |
| `Expire` | `locked_until` passes |

| run | instance | question |
|---|---|---|
| `auth_sessions` | a signed-in user with a reset code, 3 requests among 8 operations, both stores, 1 fault | what a session, a code and a lock are worth when handlers interleave |
| `auth_accounts` | a registered, a federated or a local user, 3 requests among 7 operations, 2 addresses, 2 identities, both stores, 1 fault | addresses and identities belong to one user; nobody is left without a way to sign in; a deletion is complete |

Three requests are the smallest number at which one can look back at a pair that
raced, and every property is about a pair of requests and a user (in
`FailuresLock`, `LockAfter = 2` of them and one in between).  The two runs split
the operations, because those of one run never write what the properties of the
other are about, but for the user's whole-document copy, which `update` and
`password`, respectively `verify` and `email`, exercise in each.  One fault lets
a request die, or a dropped error pass, at any one step; the memory store cannot
fail.  Deadlock is not checked: there are finitely many requests.  No liveness is
stated and no fairness assumed: a request that is not scheduled is one that died.

The code has no protection between repository calls, so most of what it promises
holds only for requests that do not overlap, while the documents state it without
a word about overlap.  Each property names the race it excludes and no more, and
TLC finds a counterexample without the exclusion.  `refresh_twice` (violated) keeps
one of them as a run: two refreshes with one token both get a pair
(`RotationIsSingle`, `tech_details.md:361`).  The others are the lines below:

- `RefreshIsSingleUse`, `CodesWorkOnce`: two requests that present one token or
  code together both succeed; it is checked first and marked used afterwards.
  The code is "一次性" in `tech_details.md:308`.
- `ReuseEndsFamily`, `EndedSessionsStayEnded`: hold under every interleaving for
  tokens issued before the request.  A pair that a request in flight stores
  afterwards survives, where `api.md:226` has logout revoke all of the user's, so
  they speak of `before`.  They need `faults = 0`,
  because Refresh, Logout and the other operations drop the error of a revocation.
- `AccessEndsWithSession` needs requests that write the user one after the other
  (`Serial`), `DeletedStaysDeleted` a deletion that no such request overlaps
  (`Alone`): a stale copy brings back the old token version, or the account.
  Old access tokens end at once in `api.md:226`.
- `FailuresLock`: wrong passwords one after the other are all counted; those
  that overlap, or another write in between, are not (`tech_details.md:368`: 5 in
  a row lock).
- `EmailsUnique`: Firestore gives two users one address only to a request that
  writes the one and another that writes the other, at the same time.  The memory
  store looks and writes under one lock, but in its index.  The address is unique
  in `tech_details.md:290`.
- `EmailFindsUser`: the memory store drops the old index entry before it finds
  the new address taken, so a refused write (`taken`) may leave a user that
  nobody finds.  Login drops the error of that write, so a wrong password may be
  such a write.  `Unindexed` says that there was one.  From then on another user
  may get the address, and then no wrong password of the first one is counted:
  both `FailuresLock` and, in memory, `EmailsUnique` hold until then.
- `OneUserPerIdentity`: never broken in memory, in Firestore only by two requests
  at once (`tech_details.md:294`: unique).
- `CanSignIn`: broken by two unlinks that count on each other's link
  (`tech_details.md:427` forbids it without exception), by
  whoever links the identity of a user that is being made, by a deletion that a
  stale copy undoes (`Contend`), or by a sign-in that stops after it has created
  the user.
- `LinksGoWithUser`: DeleteAccount drops the errors of its deletions.

### What is proved

Every invariant of the two runs is a theorem, for any number of requests, users,
addresses, identities and failures, under the module's assumptions:
`IdsAssumption` (a request's id is new), `EmailAssumption` (an identity has an
address or none), `StartsAssumption` and `SettledAssumption` (the stored documents
refer to each other, and are what requests leave behind that came one after the
other: addresses differ, a deleted user has none, no token is ahead of its user's
version, who has no password has a link and no reset code), `NoneAssumption` (no
document is `None`), `LockAssumption` and `FaultsAssumption` (natural numbers).
TLC evaluates them on the instances of both runs.

`AuthServiceProofs` proves `TypeCorrectness` for all constants that satisfy the
module's assumptions.  `TypeOK` is not inductive: that `Edited` yields a user
depends on the copy that the request took earlier.  `CallInv` says which
operations get to a step (`Placed`), at which steps they have a copy of their
user (`Carries`), and that what a request names was there before it began
(`Named`).
`IInv == TypeOK /\ CallInv` (theorem `Invariance`) is what the module
`AuthSafetyProofs` builds on, with one further invariant for each promise:

- `CodeInv`: the code of a request that is done is marked used, and later
  requests present another (`CodesAreUsedOnce`);
- `DropInv`: of the links that are older than a deletion, those that are left are
  on its list, and none is when it is done (`LinksAreDropped`);
- `RevokeInv`: the same of the tokens that are older than a request that revokes
  (`SessionsEnd`);
- `RotateInv`: the token that a request rotates was revoked first, the new pair
  has its family, and a request that began later does not get to rotate it
  (`TokensAreSingleUse`, and with `RevokeInv` `ReuseIsAnswered`);
- `LinkInv`: whoever has linked an identity that a request is about to link is in
  flight with that request (`IdentitiesAreLinkedOnce`).

They use `Follows`, the order of the steps of each operation, and `Acts` and
`Begins`, what any step and any beginning does to the requests, so that each
invariant is argued from those and the one table it is about.

`AuthUserProofs` is about the copies.  `Walks` and `Enters` say what a step and a
beginning do to the copy of a request, and `StepPuts` that a user is stored only
by the request that creates or edits it.  None of the properties is inductive,
for a copy says nothing of what is stored; these are, each on top of those before:

- `RefInv`: a request that makes a user has the user's id, and whatever else a
  request works on, or a token, code or link belongs to, is stored;
- `CopyInv`: as long as no other request that writes its user overlaps, the copy
  that a request is yet to write is what is stored.  Everything that excludes
  races of writers rests on this one;
- `TvInv`: while requests write a user one after the other, no token and no copy
  is ahead of the user's version, and those tokens are behind that are older than
  a request that has raised it (`AccessEnds`);
- `DelInv`: whoever begins after a deletion that was alone finds the user deleted,
  and gets no token for it (`DeletionLasts`).

`AuthAccountProofs` is about addresses, failures, passwords and links:

- `PlaceInv` and `IndexInv`: only Firestore has a step between a query and its
  write; the index has every user until a write is refused (`EmailsAreFound`);
- `FailInv`: a user whose wrong passwords came one after the other, with no write
  in between, has counted them all (`Series`), so that the last but one leaves
  `LockAfter - 1` (`FailuresAreCounted`, with `FiniteInv` to count them);
- `UniqueInv`: until two writing requests overlap, addresses differ, the index is
  exact, and what a request has looked up is still so; `ApartInv`: in Firestore
  that is so of each two users whose writers have not overlapped, for what is
  stored and for what is about to be (`AddressesDiffer`);
- `LivesInv`, `PwInv`, `AgreeInv`, `OwnInv`, `WayInv`: nobody gets a first password
  or loses the last but with the account; all copies of a user agree on whether
  it is deleted, unless a request overlaps its deletion; a link belongs to the
  user of the request that made it; whoever has no password keeps a link, or a
  request that is about to link (`UsersCanSignIn`).

TLC checked them on the instances of the runs before they were proved.  Two
proofs changed the property.  `FailuresLock` was stated without `Unindexed`, and
its proof stopped at a wrong password whose write the memory store refuses.  It
can: after refused changes of address two users may share one that only one of
them is found by; when the other moves away it takes the entry along, and a third
may take the address while the first one's password is being checked.  That takes
more requests than a run has.  `EmailsUnique` allowed duplicates after any race of
writers; the proof showed which two requests it takes.

Left out: requests refused before their first repository call (the tenant gate,
the rate limiter, a malformed body), which change nothing; Introspect, GetMe and
ListAccountLinks, which only read; profile fields; the status `disabled`, which
nothing sets; the expiry of tokens and codes, which only refuses more; the
delivery of mail, and what Google and Apple are asked: an identity has an address
or none.

## The memory of an Auth process: `AuthMemory`, `AuthMemoryProofs`

The rate limiter and the OAuth state store are maps under a mutex in each
process; one method is one action.

| state | code (`auth/application/service.go`) |
|---|---|
| `hits` | `MemoryRateLimiter.hits`, 46-85 |
| `entries` | `MemoryOAuthStateStore.data`, 104-153 |
| `now`, `lives` | the clock; how often each process was started again |
| `pc`, `at`, `place`, `subject`, `before` | what became of each request, when and where it came, and what about |

| action | code |
|---|---|
| `Allow` | `MemoryRateLimiter.Allow`: forgets the hits that the window no longer holds, then counts |
| `Authorize` | `OAuthAuthorize`, 728-758: `Put` |
| `StatelessCallback` | `OAuthCallback` without a state, 779: goes on, nothing is looked up |
| `Callback`, `UseState` | `OAuthCallback` with a state, 779-787: `Get`, and later `Delete` |
| `Tick`, `Restart` | time; a process that starts again with empty maps |

`auth_memory` runs three requests on two processes over four ticks and two
restarts, with two requests in two ticks allowed and a state good for one: enough
for a window that begins at any tick, for three requests to compete for two
places, and for two callbacks of one state, in the right process and in the wrong
one.  `WindowBound` speaks of every window, not only of those that end at a
request.  `StateIsFresh` and `StateWorksOnce` speak of callbacks that bring a
state (`Passed`); one that brings none is not checked and goes on
(`StatelessCallback`), although `tech_details.md:418` does not mark the state as
optional.  `StateWorksOnce` excepts callbacks that were under way together, which
both find the state.

`AuthMemoryProofs` proves `TypeOK` and the three properties for any processes,
limits, windows and lifetimes.  The invariant needs the past: the requests that a
process has granted and that are still in the window are all among its hits
(`HitInv`), an entry is the state of a request of this life of the process
(`EntryInv`), and a state whose callback is over is in no process (`PassedInv`);
`PastInv` orders the times.

## Plan

A run covers a whole component here: its invariants, action properties and
liveness on one instance, so that each run answers several questions.

1. `OrderLedger`, `BillingOrders`; `TenantApps`; `BillingConfig`; `AuthService`;
   `AuthMemory`; their proofs: done.
2. The proofs of the properties of `AuthService` that exclude races of writers:
   done.  No safety property of a passing run is left without a theorem.
3. `ProductCatalog`: create and update of products, if it can be joined to the
   checkouts' instance.

## Not modelled

Product edits (one document, read and written back whole, with no rule across
fields), the auth configuration (the shape of `BillingConfig`), the seed's
administrators, the HTTP layer and the platform utilities (no protocol state),
the ops stub; cryptography and ids are taken as ideal.

Every component, modelled or not, is listed in `PROJECT.json`.
