# Smart-Connect SAP: TLA+ specifications

Smart-Connect moves data between HubSpot and SAP (Business One and S/4HANA) for several tenants.
HubSpot webhooks become SAP documents and prices; SAP objects are synchronised to HubSpot on a
schedule; a panel lets clients and staff operate it. All of it runs over parts that share no
transaction (MongoDB, Redis with BullMQ, SAP's Service Layer or OData, HubSpot), in two processes (API
and workers) that may die at any point. This directory models the parts whose difficulty is that
combination, checks them with TLC on small instances and proves their main properties with TLAPS
for all.

- [1 The system](#1-the-system)
- [2 Modules](#2-modules)
- [3 Runs](#3-runs)
- [4 Documents from webhooks](#4-documents-from-webhooks)
- [5 Prices from webhooks](#5-prices-from-webhooks)
- [6 Jobs, locks and windows](#6-jobs-locks-and-windows)
- [7 Records from SAP](#7-records-from-sap)
- [8 Setting a tenant up](#8-setting-a-tenant-up)
- [9 Connections](#9-connections)
- [10 The panel](#10-the-panel)
- [11 What is proved](#11-what-is-proved)
- [12 Where code and documentation part](#12-where-code-and-documentation-part)
- [13 What is not modelled](#13-what-is-not-modelled)
- [14 Plan](#14-plan)
- [15 Running the checks](#15-running-the-checks)

Paths below are relative to `src/src/` unless they begin with `src/`.

## 1 The system

| component | state it keeps | operations | talks to |
|---|---|---|---|
| Webhook events (`infrastructure/webhook`, `application/use-cases/ProcessWebhookDealEventBatch.js`, the `ProcessHubspot*` use cases) | `WebhookEvents`, `SapDocumentLinks` | queue a webhook, claim a batch, process an event, mark it, resend | Mongo, SAP, HubSpot |
| Webhook queue (`infrastructure/queue/webhook.queue.js`, `infrastructure/scheduler/webhookDispatcher.service.js`) | one BullMQ job per tenant | add, look up, remove, take, finish; cron; manual run | Redis, webhook events |
| Business partners, quotation lines (`infrastructure/sap/SapWebhookOrderAdapter.js`, `domain/orders`) | partners, contact employees, documents of SAP; `SapDocumentLinks` | find or create a partner, reconcile contacts, patch a quotation, convert it | SAP, HubSpot |
| Line item prices (`infrastructure/webhook/*LineItemPriceWebhook.service.js`, `application/use-cases/Sync*LineItemPrices*.js`) | price events, in-flight and debounce records | take an event, value the deal's lines, reconcile | HubSpot, SAP |
| SAP sync job and scheduler (`interfaces/jobs/sap-sync.job.js`, `infrastructure/locks`, `infrastructure/scheduler/sapSyncScheduler.service.js`) | BullMQ jobs and schedulers, `lock:sap-sync:<tenant>`, `ClientConfigs` | check window, lock, renew, synchronise; register, bootstrap, sweep, purge | Redis, Mongo |
| Fetch and log (`application/use-cases/SyncSapConfigToHubspot.js`, `infrastructure/sap`) | sync logs | build a window, fetch, enrich, send, report | SAP, Mongo |
| Partners, employees, products, orders, invoices to HubSpot (`ProcessCrmObjectBatches.js`, `SyncCompanyContactsInBatches.js`, `SendMappedItemsToHubspot.js`, `HandleHubspotAssociations.js`, `infrastructure/hubspot/handlers`) | association registry | sweep, plan, batch, fall back one by one, associate | HubSpot, Mongo, SAP |
| Stock, dropdowns, mappings (`domain/warehouses`, `SyncDropdownOptionsToHubspot.js`, `application/services/mappingValueResolver.service.js`, `ManageOwnerMappings.js`, `ManageDealMappings.js`) | stock and options in HubSpot, `FieldMappings`, owner and stage tables | read, merge, rewrite, resolve | SAP, HubSpot, Mongo |
| Provisioning (`infrastructure/tenants`, `HandleHubspotOAuthCallback.js`, `ManageClientConfigs.js`) | client, subscription, configs, templates, default mappings | provision, replicate, seed | Mongo |
| Connections (`infrastructure/sap/sapSessionManager.js`, `infrastructure/sap/transport`, `infrastructure/hubspot`) | SAP session and login lock, CSRF token, buckets, OAuth tokens, call audits | log in, wait, invalidate; pace and retry; refresh; record | Redis, Mongo, SAP, HubSpot |
| Panel (`application/use-cases/panel`, `infrastructure/auth`) | users, tokens, tickets, work log, idempotency keys, attempt counters | log in, change, deactivate; reply, resolve, publish | Mongo, Redis |

What is hard, and what makes each part correct:

- **Events and queue.** Concurrent requests and runs, retries, resends, failed writes after SAP has
  answered, answers that never arrive; a fixed job id whose lookup, removal and add are three calls.
  Correct: one open event per deal; one run per event; an event ends once and for good; no second SAP
  document except where the code cannot know better; a stored event gets a run.
- **Partners and quotations.** Every PATCH carries a whole array as it was last read. Correct: nobody
  and no line is lost to a stale copy; an order has the quotation's lines.
- **Prices.** HubSpot repeats, bursts and answers late; a valuation outlives the deal it read. Correct:
  at rest the price is that of the last edit, and what one line misses costs no other its price; no line is silently left out.
- **Jobs.** A lock with a time to live against a job without one; registrations call by call. Correct:
  one synchronisation per tenant; what is registered is what is saved; a window runs when due.
- **Records.** No transaction between find and write, a search that trails, batches refused, answered
  in part or lost. Correct: one record per SAP object, each written by its owner, each id registered
  for what it belongs to; a change is sent without a watermark; nothing is blanked for a failed read.
- **Tenant.** Steps over two databases and two callers at once. Correct: what is answered with success
  is complete; what is doubled is doubled for a known cause.
- **Connections.** A login, a token, a bucket shared by all. Correct: one login; a write is applied
  once and told truly; the last grant stays; an audit is lost only to what the code does not cut.
- **Panel.** Reads and writes with a slow password check in between. Correct: a session ends with its
  password, a deactivation with its tokens; one publication per key.

## 2 Modules

| module | models | checked with | proofs |
|---|---|---|---|
| `WebhookEvents` | events, runs, SAP documents, links of one tenant | itself | `WebhookEventsProofs` |
| `WebhookQueue` | one tenant's job, its adders and runners | itself | `JobProofs` |
| `BusinessPartners` | the partner of a deal's document and its contact employees | `MCDocuments` | `RecordsProofs` |
| `QuotationLines` | the lines of a quotation in HubSpot, SAP and the link | `MCDocuments` | `WebhookEventsProofs` |
| `PriceWebhooks`, `LinePricing` | the price events of a deal; one valuation | `MCPrices` | `PricesProofs` |
| `SapSyncWindow` | pure: cron pattern, window check, due minutes | (extended) | `TenantProofs` |
| `SapSyncJob` | jobs of one tenant, lock, timer, clock | itself | `JobProofs` |
| `SapSyncSchedule` | configs, schedulers, requests, bootstrap | `MCTenant` | `TenantProofs` |
| `SapFetch` | a run from its filters to its log | `MCCatalogs` | `CatalogsProofs` |
| `CrmIndex`, `CrmBatches`, `ChildContacts` | partners and employees in batches | `MCRecords` | `RecordsProofs` |
| `ItemSync` | partners and employees one by one | `MCRecords` | `RecordsProofs` |
| `ProductBatches`, `DealSync` | products in batches; orders and invoices as deals | `MCRecords` | `CatalogsProofs` (products), `RecordsProofs` (deals) |
| `ProductStock`, `Dropdowns` | stock columns and batches of a product; options of HubSpot's dropdowns | `MCCatalogs` | `CatalogsProofs` |
| `Homologation`, `DealStages` | owners and sales persons; pipelines and stages | `MCDocuments` | `RecordsProofs` (owners) |
| `FieldValues` | the mapping rows and what they make of a record | `MCTenant` | `TenantProofs` |
| `TenantSetup` | provisioning, the OAuth callback's replication, default mappings | `MCTenant` | `TenantProofs` |
| `SapSession` | SAP's session, its login lock and the calls made with it | `MCConnections` | `ConnectionsProofs` |
| `SapGateway` | S/4 credentials, CSRF token, writes and walks | `MCConnections` | `ConnectionsProofs` |
| `HubspotTransport`, `HubspotAuth` | the limiter with its retries; OAuth grants and refreshes | `MCConnections` | `ConnectionsProofs` |
| `CallAudit` | the recorder, the audits, the error list | `MCConnections` | `ConnectionsProofs` |
| `PublishOnce` | abstract: a key publishes at most once | (refined by `SupportTicket`) | |
| `SupportTicket`, `PanelAccess` | a ticket with its work log; an account with sessions and tokens | `MCPanel` | `PanelProofs` |

An `MC` module extends several components that share nothing, gives their constants values and explores
them one at a time: a variable (`explored`, `part`) chosen at the start says which, and the others stay
in one of their initial states. One run then answers for all of them.

Every property of a run is preceded by the sentence it means. Components define more properties than
the runs check (types, and weaker or narrower statements); they held when they were written, except those section 12 names, and can be
checked by adding their names to a `.cfg`. `PROJECT.json` maps each definition to the lines it is
translated from (a helper whose lines the entry of its action already names has none of its own) and lists the runs, a mutant of the code for every checked property, and the hazards
with the properties that watch them. Operators that only mutants use (`NoIndex`, `ReclaimInProcess`,
`EmailFirst`...) stand before the definition they are a plausible mistake for.

## 3 Runs

| run | explores | checks |
|---|---|---|
| `webhook_deals` | three events of one deal (original, resend, resend of the resend), two runs, two requests, three failed writes, a dead run, lost answers | `OneOpenEventPerDeal`, `SingleOwner`, `DuplicatesExplained`, `ErroredExplained`, `ErroredIffRetriesSpent`, `SettledIsFinal`, `EventsSettle` |
| `webhook_quotations` | create, update and convert of one deal, whose links are shared between types | `LinkedIsNotRecreated` |
| `queue` | two requests, the cron, two slots, a manual run, a fault, a stall | `Coalesced`, `WaitingIsClaimed` |
| `sync_lock` | a scheduled and a manual job, renewals that may fail, a worker death | `SingleExecution`, `LostOnlyByExpiry`, `LockIsFreed` |
| `tenant` | a config over a day beside the bootstrap; a company provisioned twice beside two callbacks; rows, chain and template that change between the runs that map a record | `SettledIsScheduled`, `WindowServed`, `TwinsExplained`, `ErasedOnlyWhenSilent` |
| `panel` | three requests of any kind on one account or one ticket, a failed call or a death | `SessionsKnowThePassword`, `DeactivationRevokes`, `PublishesOnce` |
| `connections` | three calls of each kind, two refreshes beside two installations, two requests to the gateway beside two admins, four recorded calls | `OneLoginAtATime`, `WrittenAtMostOnce`, `CreateToldTrue`, `GrantKept`, `PerformedOnce`, `LostToWhatIsWhole` |
| `records` | three partners, two with three employees, or five rows of which two are one partner's, in chunks of two, twice; two partners one by one, twice; three product rows, twice, with registrations that fail or die with the process; two orders and two invoices | `OneRecordPerPartner`, `OwnedRecordKept`, `RegistryPointsHome`, `TwinDealsExplained`, `OwnersKept` |
| `catalogs` | two dropdowns, two products under eight stock configurations, two SAP records over eight ticks | `HiddenOnlyWhenSapDropsIt`, `BlankedOnlyWhenNoneRead`, `SteadyRunsLoseNothing` |
| `documents` | two events of a company with two contacts; two updates and a conversion of a quotation; the tables of owners, pipelines and stages, upserts of owners included, while a deal changes | `NewRowsAreNew`, `ContactsKept`, `OrderIsWhole`, `RoundTrip` |
| `prices` | two lines under every strategy with two handlers, three edits and one failure, of a call, a process or some lines of an execution; three rows in a valuation | `PriceFollowsEdits`, `NoLineForgotten` |
| `finding_zeroed_stock` | the stock of `catalogs` in a tenant of S/4HANA, with a failed read | `ZeroedOnlyWhenRead` is violated (section 12) |

Bounds. Two or three actors of a kind reach every order of two of them and a third that meets what they
left; two rounds (runs, attempts, days) make what one round leaves the start of the next; one or two
faults, of every kind and at every call, are enough for a property that excuses no fault, since a state
with more faults differs by what was already lost. Where a property is about numbers (windows), the
numbers are small in the run and the theorem is for all. Every bound is a constant of the `.cfg`; the
ones that cap a counter (`MaxRuns`, `MaxFaults`, `MaxEdits`...) stop the environment, not the code.
`CHECK_DEADLOCK FALSE` stands where requests, edits or runs are used up and nothing is left to do.

Fairness, in the three runs with liveness: each started thread of the code goes on, since nothing in it
waits for anything but its own next call. Nobody has to send a webhook, call an endpoint, or fail.
`webhook_deals` adds that runs keep being started and `queue` that the cron ticks, which is the cron of
`webhookDispatcher.service.js`, one job per tenant and minute; it is off by default (section 12).
`sync_lock` adds that time passes and that a synchronisation ends some time. One weak fairness per run
suffices: an enabled run is never disabled by another, because every alternative of a step of a run is
a step of that run.

## 4 Documents from webhooks

### WebhookEvents

One tenant's collection. An event is its position in creation order; what the code stores of it that
matters is in `status`, `key` (event type, deal), `retries` and `dedupActive`. A run is one
`ProcessWebhookDealEventBatch.execute`; runs overlap because the manual endpoint runs in the API
process and BullMQ runs a stalled job again.

| code | actions |
|---|---|
| `QueueHubspotWebhookEvent`, `webhookEvent.service.js` | `CheckDuplicate` (the read), `CreateEvent` (the insert, under the partial unique index), `LoseInsertRace` (E11000) |
| `claimWaiting`, the batch loop | `StartRun`, `ClaimEvent`, `ClaimDone`, `NextEvent` |
| the use cases up to SAP | `Prepare` (context, link, business partner, payload), `CreateDocument`, `PatchQuotation` |
| after SAP's answer | `RecordDocument` (`markOrderCreated` or the `SapDocumentLink`), `RecordDocumentFails`, `UpdateHubspot` |
| `markCompleted`, `handleProcessingError`, `handlePostSapBookkeepingFailure`, `safelyHandleProcessingError` | `MarkCompleted`, `MarkFailed`, `MarkPostSap`, `Release`, and each with a write that throws (`...Throws`), `applyUpdates`' second try without the audit trail included |
| process death, claim loop error | `AbandonRun` |

A run keeps the retries it read with the claim (`snap`), as the code does. `unseen` and `reopened` are
history: events with a document SAP never acknowledged, and events released to waiting after SAP had
answered. They let `DuplicatesExplained` say which duplicates exist: not "there are none", which is
false of the code, but "each comes from one of these two causes".

`EventsSettle` is conditional: an event settles unless the run's own fallback write fails too or a
worker dies (`Stranding`), which leaves it `inprocess` for good. `UnackedWrites` (an update applied and
reported as failed) is off in the runs: with it, a completed event can be written over as errored by
the run's own fallback and its deal opened again, so that one open event per deal does not hold. The
assumption is explicit in the theorems. Deals do not interact, so one is enough.

### WebhookQueue

An event is absent, waiting, inprocess or closed; the module is about how it gets a run. `adder` is
where each call of `addWebhookTenantJob` is: `LookUpJob`, `RemoveJob` and `AddJob` are its three Redis
calls, of a request after `StoreEvent`, or of `CronTick`. `job` and `lock` are the BullMQ job and its
lock: `TakeJob`, `EndRun`, `RunFails`, `SlotDies`, `JobStalls` (the lock is lost, the run goes on),
`ForgetJob` (`removeOnComplete`, `removeOnFail`). `StartManual` is the manual endpoint, which runs
without a job. BullMQ is external: it is modelled from how the code uses it (an add with a known id
does nothing; a locked job cannot be removed; `attempts: 1`). Three adders reach every overlap of
lookup, removal and add: two race and the third removes.

### BusinessPartners

`resolveBusinessPartnerForDocument` over `SapWebhookOrderAdapter`, for several events of one company:
`FindByCard`, `FindByField`, `Create`, `FetchCreated`, `LinkPartner`, then the contacts
(`MatchContact`, `AppendContact`, `RereadPartner`), `WriteCodes`, `MakeDocument`. An event keeps the
array of employees as it last read it, and every PATCH sends that array; `overtaken` records whose copy
somebody's write has put out of date. Whether SAP replaces the array by a PATCH or merges it depends on
a header of the client that the repository does not set everywhere, so both readings are explored.
`ContactsKept` says nobody is lost to an event whose copy is good. Left out: the partner's own fields;
one value stands for an employee's.

### QuotationLines

`PlanUpdate`, `PatchRows`, `RereadQuotation`, `SaveLink` of an update and `BuildOrder`,
`PostOrder` of a conversion, over line items that may share article and sku (`RowOf` follows the
matching order of `resolveQuotationLinkLine`). People add, remove and move line items, and add,
remove and close rows in SAP. `OrderIsWhole`: an order has every row of the quotation, unless its link
was out of date. `NewRowsAreNew`: an item without a row is given no number SAP's rows had. Headers, prices and taxes are payload and left out.

### Homologation and DealStages

The owners' table with its two unique indexes (`SeedOwners`, `CreateRow`, `PatchRow`, `DeleteRow`,
`UpsertFinds` and `UpsertSaves` apart), the translation of a SAP record's owner (`FetchRecord`,
`LoadDirectory`, `PreprocessOwner`, `WriteRecord`) and of a deal's into a document's (`WriteDocument`).
A row holds a list of codes. `RoundTrip`: a deal whose document got the code of its owner is not given
to somebody else by the run that reads the document back, as long as the table was steady and the code
is in one row. `DealStages` is the same for pipelines and stages, whose lookup the code makes twice.

## 5 Prices from webhooks

`PriceWebhooks` is the intake of one deal's price events under the four strategies (business partner,
price list of the deal, S/4 price list, skipped): the duplicate check, the in-flight record, the
debounce window, execution and bookkeeping, in two handlers, with redeliveries and a crash. A price is
the edit it was read after, which is what `PriceFollowsEdits` compares. An execution succeeds when some
of its lines did: those whose reading failed, that HubSpot's index did not list, that SAP did not price
or that HubSpot refused of a batch stay as they were (`LeavesOut`, at the reading and at the write; the
legacy recalculation has one line and fails with it). Two excuses are of a line: `raced`, it was edited
after a reading that still counted, and `omitted`, an execution left it out and none has written it
since. They excuse that line and no other. Two are of the whole deal: `lost`, a failed attempt whose
event another attempt beside it answers (as a duplicate, or by its own success), and `crashed`, a dead
process. The strategy of the tenant stays as it is.

`LinePricing` is one valuation by each of the three use cases: two rounds with a reconciliation
between, partial batches, HubSpot's index of a deal's lines that trails, lines added and removed
meanwhile. `NoLineForgotten`: when the second pass ends, every line is written, reported, or was
refused in the second batch (which the code does not report). Left out: miscelaneo, discounts, taxes
and the notes; a price is 0 or 1.

## 6 Jobs, locks and windows

### SapSyncJob

Time is counted in ticks of one backoff delay (15 s). `state` follows `processSapSyncJob`: waiting,
`CheckConfig` (config active, window), `AcquireLock` or `LockTaken`, running, `EndSync`, `ReleaseLock`.
`owner` and `ttl` are the Redis key, `renewIn` the job's timer, `Renew` and `RenewFails` its callback.
`AttemptFails` is BullMQ's attempts with exponential backoff. A release may throw in the `finally`
block (`ReleaseThrows`), a worker may die (`WorkerDies`), and the user may switch the config off
(`ToggleActive`). The synchronisation takes any number of ticks and succeeds or fails. The manual task
of `interfaces/jobs/tasks/sapSyncTask.js` takes no lock, by design, and is left out. `expired` (jobs
whose lock ran out under them) and `contended` (jobs that were due and found the lock taken) are
history. Two jobs are enough: exclusion is a property of pairs.

`Tick` waits only for due timers, so it is not held up by a job; a timer that is late by more than
the bound is a missed renewal, and `MaxMissed` bounds those. If the lease is shorter than the renewals
that may be missed, two synchronisations can run at once: that is the meaning of a lease, and the
assumption `LeaseIsLong` of the theorems says it.

### SapSyncWindow and SapSyncSchedule

`SapSyncWindow` is pure. `FiresAt` is the cron pattern the scheduler builds of a window (`HourField`,
`MinuteField`), `RunsAt` the check the job makes again when it is taken, `Due` what a window means: its
start, then every interval until its end. `Exact` names the windows of which both together make the
due runs. What it excludes is what the code gets wrong:

- an interval that does not divide 60 (45, say): the pattern repeats its minutes every hour;
- a window that ends before it starts, within the same hour: its pattern has that hour only;
- windows that begin in or reach the hour after midnight, where `Intl.DateTimeFormat` with
  `hour12: false` prints that hour as 24 (`MidnightIs24`; it depends on the ICU version).

`SapSyncSchedule` composes it with the registrations. A scheduler is the set of minutes it fires at;
each config has one plain name and `MaxTimes` slots (`Name`). A request is `FindConfig`, `SaveActive`,
`SaveSetting` or `SaveNothing`, then the registration `ListKnown`, `RemoveKnown`, `AddSlot`; it
registers the document it read with its own change, while Mongoose saves the changed field only. A
tenant's own requests need an active subscription; activate and deactivate need the internal key alone
and check none, so a config of a tenant without one is registered too (and `processSapSyncJob` does not
ask for the subscription either). The
bootstrap is `StartBoot`, `LoadTenant`, `NextConfig` with the same registration, `TenantDone`, then
`ListOrphans`, `RemoveOrphan`, `EndBoot`. `SyncFails`, `LoadFails`, `BootFails` are failing calls and
deaths between steps. `ToggleTenant` is a subscription that begins or ends, `Purge` is
`purgeTenantJobs`. Init holds what earlier versions left.

The code does not promise that concurrent registrations of one config agree, and they do not. What it
can promise is about registrations nobody disturbed: `overlapped` records who worked on a config while
another did, `settled` the configs whose last registration ran alone and to its end. `SettledIsScheduled`
says: whatever earlier failures, overlaps and versions left behind, one registration alone repairs it,
and nothing that goes on elsewhere breaks it again until the next. `WindowServed` adds the window
check. One hour length in the run says little about the arithmetic; that part is proved for all.
Left out: two bootstraps at once, creating a config, execution days, the keys of BullMQ's former API,
the jobs `purgeTenantJobs` removes from the queue. A request changes one field, or none.

### SapFetch

A run of a config from its filters to its log: `StartSync`, `BuildOptions`, `FetchData`, `EnrichRows`,
`Send`, `Report`, each with its failures, `FetchCrash`, and `AdminRepairs`. There is no watermark: the
window comes from the clock and the configured interval, and SAP stamps a change with a day and a time
of day. `SteadyRunsLoseNothing`: with clean runs that follow each other within the interval, every
change older than the last run has been sent, except around midnight when the filter compares day and
time apart. Time zones agree and paging is atomic.

## 7 Records from SAP

### CrmBatches and ChildContacts

`ProcessCrmObjectBatches`: `Sweep` reads the portal once into `CrmIndex`, `Plan` resolves each row by
the tiers (id, phone, email) and groups rows that are one record, then creates and updates go in waves
of chunks (`SendCreate`, `Settle`, `SendUpdate`): a batch is answered, answered in part, refused or
lost, a 409 splits it, and what a batch cannot take goes one by one (`Item`). `SomeoneCreates` is the
portal's users. `OneRecordPerPartner` holds over two runs whatever answers are lost: of two records of
one partner at least one was made by the one-by-one path, for another row of the partner in the same
run. `OwnedRecordKept` says a record that bears a SAP key keeps it. `ChildContacts` continues the same
run with the employees of the partners it placed. The search may miss what the same run has made; emails
are unique; the object is reduced to its keys. The company type is the same code with a tier less and is
left out.

### ItemSync

`processSingleItem` for partners and `syncCompanyContacts` for their employees: `FindOne`,
`CreateOne`, `UpdateOne` or `UpdateSapItem` (when HubSpot is the master), `AssociateItem`, then
`FindKid`, `WriteKid`, `LinkKid` for each employee. HubSpot is searched through an index that trails
(`IndexCatchesUp`). `OwnersKept`: no write changes a record that bears somebody else's key, though
partners and employees share telephones and emails. Five settings, two partners and three employees.

### ProductBatches and DealSync

`ProductBatches` is `processProductBatches`: `ReadKnown`, `ReadExisting`, chunks of creates and
updates, and the one-by-one path of a refused chunk. `RegistryPointsHome` ties every answer to its row,
in whatever order HubSpot answers. The products of an answer are registered one after the other
(`RegisterResult`, `RegisterProduct`); the error of a registration is swallowed, and the process may die
before one (`RunDies`): such a product is never registered later, since the next run finds it and updates
it. `missed` holds these, and only these are excused. `DealSync` runs orders (`PreprocessOrder`, `FindDeal`, `WriteDeal`,
`AssociateDeal`) beside invoices (`ResolveInvoice`, `ReadStage`, `MoveDeal`), while deals are renamed
and the search trails. `TwinDealsExplained`: two deals bear one order only if the later run could not
see the first. `DealHoldings` is what HubSpot may hold at first: deals with ids of their own.
How prices and stock are computed, owners, pipelines and line items of a deal are left out.

### ProductStock and Dropdowns

`ProductStock` reads warehouses (B1) or plants and batches (S/4) beside a product run while SAP moves
and days pass, under eight configurations (overlapping columns, exclusions, an invalid formula, a
missing credential, an unknown strategy). `BlankedOnlyWhenNoneRead`: the batches a product shows are
blanked only when they were read and there are none. Its counterpart for quantities is false of the
code (section 12). `Dropdowns` rewrites option lists from catalogs while SAP and users change them:
`HiddenOnlyWhenSapDropsIt`. A property may have an invalid name; the sources' configuration is taken
as normalised.

### FieldValues

The rows of `FieldMappings`, read once to ask SAP and once to map (`FetchFields`, `ReadMappings`), and
`MapRow` with the fallback chain, collections, telephones, users, and `Compose` for descriptions.
`ErasedOnlyWhenSilent`: with the chain on, a property is erased only if no row of it had anything to
say. Booleans, extensions, source contexts and the parsing of the template are left out; telephones
have up to four symbols.

## 8 Setting a tenant up

`TenantSetup`: `ProvisionStep` is `provisionTenant` from the client to the filters, each step a write
that may fail; `CallbackStep` is the OAuth callback that copies the master's templates
(`ReadTemplates`, `CreateReplica`, `SeedReplica`); `CreateClientConfig`, `CreateAdminMapping`,
`CreateTenantMapping` and `StartEnsure`/`FinishEnsure` are the administrator and the runs over the same
collections. The defaults of an object type are one row, whose key in the unique index is the type.
`TwinsExplained`: two replicas of one template come from two callbacks one of which read the names
while the other was replicating (nothing but that read keeps a template from being copied twice).

## 9 Connections

`SapSession`: the session cached in Redis, the login lock with its expiry, waiters, invalidation, and
the calls made with a session by the service layer, the webhooks and the price clients, which repeat a
rejected call once. The login is part of the attempt: one that SAP refuses (401, 403) is taken for an
invalid session, so that `Invalidate` deletes what is cached and the call logs in again; one that fails
otherwise ends a call of `withSession` (`LoginFails`, `ReleaseLock`, `AttemptEnds`). `OneLoginAtATime`: two logins overlap only if a lock ran out. `WrittenAtMostOnce`:
SAP applies a write at most once, whatever is rejected, lost or repeated. A waiter never takes the lock.

`SapGateway`: credentials changed through screens that show masks, one transport at a time, a CSRF
token that its requests share and SAP forgets, a walk over pages. `PerformedOnce` is the same promise
for its writes. The gateway token of a proxy and the formats of OData are left out.

`HubspotTransport`: the bucket (`acquire`, `pauseFor`) in intervals of 250 ms and the retries of
`sendWithRateLimit`; `CreateToldTrue`: a create is applied at most once, and what its caller is told is
true. `HubspotAuth`: refreshes beside OAuth callbacks; `GrantKept`: a document bears the refresh token
of the grant last stored in it. A refresh does not rotate the refresh token.

`CallAudit`: `sapCallRecorder`, the audits stored with an event and the error list of a run, each with
its caps, and MongoDB's refusals for a key or a size. Only objects are cut (`Preview`): a text, the
error of a call and what an audit carries beside its calls (the documents sent and answered, rounds,
unresolved lines) are stored whole. `LostToWhatIsWhole`: the audit of an event is refused only for one of
these, never for a key or for an object; the event itself is then written without it. `CallsAddUp`: an
audit of prices that is stored owns up to every call it does not show.

## 10 The panel

`PanelAccess` is one account: log in, change and reset of the password, deactivation, API tokens,
log out, as reads and writes with the password hasher's bounded queue between them and the attempt
counters in Redis or memory. `SessionsKnowThePassword` and `DeactivationRevokes`.

`SupportTicket` is one ticket: a request reads it, uploads an image, and writes under a
compare-and-set on the status alone; a publication goes through its Idempotency-Key (reserve, take
over a stale reservation, replay, release, expiry). `PublishesOnce` is its refinement of
`PublishOnce`: however often a publication is tried under one key, it is published at most once.
A publication whose second write loses to its own retry is answered 409 though its entry exists
(`StaffWorkLog.js:266-273`), which the refinement allows.

## 11 What is proved

Each theorem holds for every value of the constants that meets the named assumptions of its modules
(sets of any size, any bound). All of them are met by the values of the runs. A property that is not
inductive is proved from an inductive invariant that TLC had checked first; the table names it.

| module | theorem | says | argument |
|---|---|---|---|
| `WebhookEventsProofs` | `TypeCorrect`, `OneOpenEvent`, `ClaimExcludes`, `RetriesSpent`, `ClosedForGood` | the safety of `WebhookEvents`, if `~UnackedWrites` | `IInv`: the unique index covers exactly the open deduplicated events (`IndexedIffOpen`); a run holds only events in process, each with a retry left (`HeldInProcess`) |
| | `SecondDocumentsExplained`, `GivenUpExplained` | which second documents exist, under the same assumption | `DInv`: an event's document is accounted for by `unseen` or `reopened`, or its status says that it has one (`DocsOpen`); an event held before its document has none but accounted ones (`HeldUndone`) |
| | `LinkStopsCreation` | no quotation is created once its link is stored, under the same assumption | `LInv`: a run that is to create has a key without link (`CreatesUnlinked`); the links that another run would store are of another key, since the types that link are deduplicated |
| `JobProofs` | `QueueTypes`, `JobsCoalesce` | at most one slot, plus one per lost job lock, runs a tenant's job | `QueueInv`: the running slots are the lock's holder and `Zombies`, of which a stall makes one |
| | `SyncTypes`, `LocksAreLostByExpiry` | a lock is lost only by running out, whatever renewals fail | the owner changes only by expiry, by taking a free lock, or by its own release |
| | `LockExcludes` | exclusion, if `LeaseIsLong` | `Lease`: the running job owns the lock, whose time outlasts its next renewal and the failures still to be allowed (`ttl > renewIn + Reserve(missed)`) |
| `TenantProofs` | `WindowsAreExact` | pattern and check meet `Due` on every `Exact` window, for every length of hour and day | all three reduce to "the start's rest modulo the interval", which an interval that divides the hour shows in the minute |
| | `ScheduleTypes`, `RegistrationIsExact` | an undisturbed registration is exact | `ScheduleInvariant`: alone on a config, an actor holds its saved document and has registered part of its plan (`Progress`); the phases of the bootstrap (`BootOrder`) and what it knows of each config (`BootKnows`) |
| | `WindowsAreServed` | a settled exact window runs at its due minutes | `RegistrationIsExact` with `WindowsAreExact` |
| | `ProvisioningIsAsAsked` | a provisioning answered with success left what was asked for | `ProvisionInv`: the steps done so far |
| | `TwinConfigsAreExplained` | `TwinsExplained` | `CallbacksInv`: a running callback knows the names it has copied, and all others that are not a rival's |
| | `ReplicasFollowTheTenant` | a replica has its tenant's flavor and filters | `ReplicasInv` |
| | `ChainsEraseWhenSilent`, `NamedUsersStay`, `TemplatesAreFed` | what a run may do to a mapped property, to a user put by hand, to a template | `MapInv`: what a run has made of the rules it has read (`RunKnows`), for sources that spoke (`SpeakersAreHeard`) and users that the directory names (`UsersAreNamed`) |
| `PanelProofs` | `SessionsEndWithThePassword` | `SessionsKnowThePassword` | `VersionsBindPasswords`: whoever holds the account's present version holds its present password |
| | `DeactivationLeavesNone` | `DeactivationRevokes` | `WaitersWant` and `RevocationsOnTheWay`: a token active at the save is revoked or still on the list of its deactivation |
| | `KeysPublishOnce` | `SupportTicket` implements `PublishOnce`, lost acknowledgements included | `EntriesSettled` and `AtWork`: a key's entry, its reservation and the request that works under it |
| `ConnectionsProofs` | `LoginsExclude` | `OneLoginAtATime` | `LockHeld`: who logs in holds the lock, unless it ran out |
| | `WritesAreNotRepeated`, `WritesPerformedOnce`, `CreatesToldTrue` | a write, of each of the three transports, is applied at most once | `UnendedNotApplied`, `PerformedIsOver`, `PendingNotApplied`: a call that may still be sent has not been applied |
| | `LastGrantIsKept` | `GrantKept` | `GrantsKept`: what is read of a document and what is held for it agree on the refresh token |
| | `AuditsAreLostToWhatIsWhole`, `CallsAreAccounted` | MongoDB refuses an audit only for what is not cut; a stored audit of prices counts every call | `AuditInv`: the recorder keeps to its cap and counts what it drops; without a long text or error each body is at most its cap, so the sizes add up to no more than calls times cap (`SizesAddUp`) |
| `RecordsProofs` | `OwnersAreKept` | `OwnersKept` | `OwnersInv`: what a search found bore the partner's key or none, and the found employee its own code, until the write |
| | `TwinDealsAreExplained`, `TakenOnlyWithoutOwnDeal` | when an order gets two deals, or takes another's | `OrdersInv`: what the search could see when an order was looked up |
| | `InvoicesMoveTheirOrders`, `InvoicesReportTheirMoves` | an invoice moves the deals of its orders, and tells | `InvoicesInv` |
| | `EmployeesAreKept` | `ContactsKept` | `StaffInv`: an event whose copy nobody has overtaken holds every employee SAP has |
| | `OwnersComeBack` | `RoundTrip` | `EquivalenceInv`: while nobody edits the table, the code of the document is one of its owner's row (`CodeCameFrom`), and what a run has in hand is that code or that owner (`StayedTrue`) |
| | `OneRecordForPartners`, `OwnedAreKept` | `OneRecordPerPartner`, `OwnedRecordKept` | `CrmInv` (below) |
| `CatalogsProofs` | `SteadyRunsAreComplete` | `SteadyRunsLoseNothing`, for every pair of cadence and interval | `FetchInv`: a record changed since the last clean run and before the options were built is in hand or delivered (`RowsFetched`, `RowsDelivered`); what the date and time filters miss within the interval lies around midnight |
| | `BatchesAreBlankedWhenRead` | `BlankedOnlyWhenNoneRead` | `StockInv`: the lots in hand are those of the rows read, and no lots means that none were read |
| | `RegistryIsTrue` | `RegistryPointsHome` | `RegistryInv`: ids are new, each result carries the sku of the row it is paired with, and a product made is registered, missed, or in the hands of its chunk |
| | `OptionsHiddenBySap`, `OptionsAreKept` | `HiddenOnlyWhenSapDropsIt`, `NothingVanishes` | `DropdownInv`: one option per value, and what a run holds is offered by some source; `SeenIsNow`: the list in hand is HubSpot's until somebody edits it |
| `PricesProofs` | `EditsAreFollowed` | `PriceFollowsEdits`, under every strategy | `PricesInv`: who sees to a line that is dirty, at every moment (below) |
| | `AssociationsArePricedOnce`, `InFlightRecordsAreHeld` | `AssociationPricedOnce`, `InFlightIsHeld` | `RecordsHeld` and `NoneLeftInFlight`: executions and records in flight belong to each other; an association has one record |
| | `NoLineIsForgotten` | `NoLineForgotten` | `PricingInv`: a known line that stays is listed, and what the second pass made of those it found |

`CrmInv` in words. A row of a run is in one place only: still to be placed, in a chunk to be created or
updated, with the one-by-one path, or done; and while it is not done this run has made no record for it
(`MakingTidy`, `UpdatingTidy`, `UpdatesTidy`). What is created in batches is one row per key, of keys the
portal's sweep had not found (`CreatesTidy`). A planned update writes the key its record already bears,
or its record bears none (`WritesItsOwn`), and employees, in the same portal, write only records that
bear no other employee's code (`GroupsKept`). A create of unknown outcome leaves its row done, which is why no
answer that is lost makes a second record.

`PricesInv` in words. A line is dirty when it lacks the price of its input or a base price. Every dirty
line is due (`DirtyIsDue`): an execution that covers it is at work, or an event that covers it is open,
that is, unanswered and repeated by no record. A webhook is dropped only where that stays true: a record
that debounces has read the line since it got dirty, or is about to (`SilenceIsDeserved`), and a legacy
edit dropped before the association is done leaves the line to that association (`AssociationIsDue`). A line
that is raced or omitted is not dirty, and `InputsKnown` keeps it from costing another line anything: what
an execution has read of every other line is its input still. At rest nothing is due, so nothing is dirty. The first attempt at this proof failed for a good reason: with
three handlers two deliveries of one event may be at work together, and the failure of one is followed by
the good answer of the other. `lost` now covers this (`AnsweredBesides`), and `prices` was also run with
three handlers.

What a recursive function computes has no induction theorem here that the provers can use. `SizesAddUp`
(a fold), `PlanHasNumbers` (a plan built item after item) and `GreatestIsThere` (the greatest of a finite
set) take a least counterexample instead: `Least`, from the well-foundedness of strict inclusion on
finite sets, gives one to every set of numbers that is not empty. That a recursive definition has a
solution at all is shown in the same way. `OrdersAreWhole` (`LinesInv`) needs no more than that: rows
have numbers of their own and are ranked by them, so the link read from them names each
(`InOrderListsRows`), and a conversion has an item for each entry of the link it read.

Assumptions worth knowing. `~UnackedWrites` (section 4) is a hypothesis of four theorems, and false of
a MongoDB that loses an acknowledgement. `LeaseIsLong` is `(MaxMissed + 1) * RenewEvery < TTL`: with the
defaults (a renewal every third of the time to live) it allows one failed renewal in a row, not two.
`CapsAssumption` says that calls at their caps, and `BesideRoom` beside them, fit in a document, which
the code's numbers do (200 calls with two bodies of 20000 characters are 8 MB of 16, in characters of one
byte; an audit of prices keeps no body of a call that went well). `PartnerTiers` and `EmployeeTiers` say
that records are looked for by their SAP key first, `DataAssumption` and `PortalsAssumption` what rows
and portals hold at the start, `LinesAssumption` that a quotation is created with a line. `OwnersAreNoCodes`
keeps owners and sales codes apart, which are of different systems; `FeedsAreListed`, `CatalogsAreRows` and
`ListsAreOptions` type the catalogs, and HubSpot's rule that an option's value is used once is in the last.
The others say that sets are disjoint, finite or not empty and what a collection may hold at the start.

Only model-checked is liveness (`EventsSettle`, `WaitingIsClaimed`, `LockIsFreed`), which is out of the
prover's reach. Every other property of the passing runs is a theorem.

## 12 Where code and documentation part

`finding_zeroed_stock` (run): a product run in S/4HANA whose stock query fails, or whose strategy's name
is unknown, writes 0 into every configured column (`infrastructure/sap/products/WarehouseStockEnrichmentAdapter.js:150`,
`infrastructure/hubspot/handlers/product.handler.js:107-113` says the opposite). The run starts from tenants of S/4HANA only: in
Business One the same branch reads the stock the record itself carries.

The following were reached by TLC in the same way and have no run here. The property is defined in its
module, and is violated as soon as a `.cfg` names it with a bound that lets the case happen.

| property, module | what the code does | what is said of it |
|---|---|---|
| `AcknowledgedIsNotRequeued`, `WebhookEvents` | `safelyHandleProcessingError` (`ProcessWebhookDealEventBatch.js:206`) releases an event to waiting though SAP has answered | `webhookEvent.service.js:5`: that would create a second document |
| `ErroredHasNoDocument`, `WebhookEvents` | a POST whose answer is lost counts as not created and may end as `errored` | `webhookEvent.service.js:3`: errored guarantees there is no document |
| `WaitingIsClaimed` without the cron, `WebhookQueue` | an event stored after the active job's claim loop gets no job (`webhook.queue.js:87`) | `src/README.md:246`: almost in real time |
| `LockedJobIsRetried`, `SapSyncJob` | a due job that found the lock taken comes back 15 s later or more, outside its minute, and is skipped | the retry exists to run it |
| `SweptIsOrphan`, `SapSyncSchedule` | a tenant that fails in the bootstrap is skipped, and its schedulers swept as orphans | the log line says skipped |
| `RetriedDeactivationRevokes`, `PanelAccess` | the retry of a deactivation that failed half way revokes nothing | `ManagePanelUsers.js:263-264`: the admin retries |
| `LeadTakenOnce`, `CrmBatches` | a lead taken one by one is written over by the update wave (`ProcessCrmObjectBatches.js:535`) | `sap-record-ownership.js:19-21` |
| `IncrementalSeesToday`, `SapFetch` | the seeded filters of companies and contacts compare midnight with now minus the interval (`defaultSapFilters.seed.js:69`) | `handoff-sap/decisiones-y-problemas.md:347` has it as solved |
| `PartialIsNotSent`, `ProductBatches` | rows missing from a 207 count as sent (`SendMappedItemsToHubspot.js:718`) | `hubspotBatching.utils.js:21-24` |
| `UpdatesKept`, `BusinessPartners` | a PATCH writes back an array read before somebody's edit (`SapWebhookOrderAdapter.js:576`) | the comments there |
| `LookupsAgree`, `DealSync` | the registry's two lookups differ on a contact registered again without an email | `associationRegistryService.js:87` |
| `RaceCausesNoBadPrice`, `PriceWebhooks` | an edit within the debounce window, after the reading, is dropped (`lineItemPriceWebhook.service.js:396`) | lines 386-388, 429-431 |
| `RetryIsExecuted`, `PriceWebhooks` | HubSpot's retry of a failed association ends in a duplicate key (`dealPriceListLineItemPriceWebhook.service.js:152`) | lines 201-202 |
| `AmountCountsLinesOnce`, `UnresolvedWasNotWritten`, `LinePricing` | a line of both rounds counts twice (`SyncLineItemPrices.js:711-716`); a line told unresolved was written (`88-95`) | |
| `NothingSentInPause`, `HubspotTransport` | a request that has its slot is sent in a pause | `hubspotRateLimiter.js:45-47` |

Also met while modelling, as consequences the code does not speak of: `Exact` (section 6) excludes
intervals that do not divide the hour; two concurrent first callbacks leave two credentials; a waiter of
`SapSession` times out though the lock is free; provisioning that fails half way leaves a tenant served
and unseeded, and its retry is refused; a product without `hs_sku` is created again by every run; two
price lists of one name give one sku; a lost create with a fixed CardCode fails for ever, and with a
series makes a twin; `FieldValues`' test endpoint lacks the fallback; two SAP fields on one dropdown
write over each other; an employee's code may be written on another's record (`CodeOnItsOwnRecord` of
`ChildContacts`); `ProductStock` compares batch dates in UTC; a code in two owner rows breaks the
round trip; failures of a sync's API modes come back as empty lists and close a green log.

## 13 What is not modelled

- **HTTP interface and middlewares.** Routing and validation. Whether a tenant is served is
  `TenantSetup`'s `Served`.
- **Panel read models.** Queries.
- **S/4HANA documents and addresses.** Construction of payloads; the calls they end in are `SapGateway`'s
  and `WebhookEvents`'.
- **Sync log.** Written by `SapFetch`'s `Report`; its screens are reads.
- In the parts that are modelled: contents of payloads, texts of errors, metrics, and what sections 4 to
  10 name. The notes of `components` in `PROJECT.json` say it per component.
- BullMQ, MongoDB, Redis, SAP and HubSpot are external, and modelled from how the code uses them.

## 14 Plan

Of the models: two bootstraps at once, the company type of `CrmBatches`, execution days of a window. Of
the proofs: the properties of `QuotationLines`, `ProductStock` and `SapFetch` that no run names yet.

## 15 Running the checks

    tlc -config records.cfg MCRecords.tla
    tlapm RecordsProofs.tla

A `.cfg` names its properties; `runs` in `PROJECT.json` says which module it belongs to and what is
expected (`webhook_deals`, `queue` and `sync_lock` have the component itself for module). The proof
modules take about half an hour together, `RecordsProofs` a good third of it; the longest run takes less
than five minutes.
