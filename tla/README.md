# TLA+ models of the school management server

The repository is a NestJS server (TypeScript, TypeORM over PostgreSQL) that runs a
school: applications, enrolment, registers, marks, report cards, fees, invoices,
receipts, messaging, accounts. This directory holds TLA+ models of the parts whose
correctness is hard to see and hard to test, the TLC runs that check them on small
instances, and TLAPS proofs of what matters most for every instance. `PROJECT.json`
lists the components, runs, theorems, hazards and, for each definition, the lines it
is translated from.

## Inventory

| Component | State it keeps | Operations | What is hard | What makes it correct | Model |
|---|---|---|---|---|---|
| payment: invoices (`payment/services/invoice.service.ts`) | invoices with cached paid/balance/status, bills, link to an enrolment | save (new/edit), group save, void, reconcile, rebuild from scratch, exemption refresh | cached fields against rows; operations that reconcile at the end; transactions that overlap | cached fields equal the rows; a void takes nothing with it; reconciliation converges | `Billing`, `InvoiceService`, `StudentLedger`, `LedgerTransactions` |
| payment: receipts (`receipt.service.ts`) | receipts, receipt-to-invoice allocations, receipt credits | create (allocate, credit the rest, reconcile), void, balance | duplicate search and numbering outside the transaction; a void that leaves rows | a receipt is never spent twice; numbers identify receipts | `ReceiptService`, `ReceiptDesk`, `LedgerTransactions` |
| payment: credit (`credit.service.ts`) | one balance per student, credit-to-invoice allocations, audit trail | add, deduct, verify | verified before the row that explains the change is written; no lock on the balance | balance = receipt credits + overpayments - allocations | `CreditService` |
| payment: validation (`financial-validation.service.ts`) | none | limits per term, per student, field checks | an abort in the middle of a multi-step operation | limits hold, an abort leaves nothing | guards of the above |
| payment: reference ledger (`payment/ledger/invoice-ledger.ts`) | none (pure) | compute a ledger, simulate rebuild and reconciliation | nothing calls it but its tests | the services compute the same | `InvoiceLedger`, `LedgerConformance` |
| payment: audit log | append-only rows | log | a failure is swallowed | - | - |
| exemptions | one exemption per student | save, deactivate, delete | rewrites balances of existing invoices, outside a transaction | existing invoices keep their payments | `Billing`, `StudentLedger` |
| finance | fees, bills, balances | CRUD | - | - | - |
| enrolment (`enrolment/enrolment.service.ts`) | classes, terms, enrolments | enrol, migrate a class, update, unenrol; create, edit and delete terms | checks before inserts, by different keys, no transaction; rows saved from stale copies; a count before a delete | a student is once in a class; migration into one class per term; an enrolment keeps its term; what is unenrolled stays out | `Enrolment` |
| marks | marks | upsert, delete, lists | check before insert | one mark per student, subject, exam | `ReportCards` |
| reports | report cards (JSON), release flags | generate, save, comment, release, view | whole-document saves from stale copies; release checked at view | comments survive a save; unreleased cards stay hidden | `ReportCards` |
| attendance (`attendance.service.ts`) | one row per pupil and day | mark, class sheet, report by day and week, summary | find, then insert; days stored at local midnight and grouped in UTC; today's enrolment for past days | a sheet shows what was entered last; a report counts every presence once | `Registers` |
| continuous assessment | one row per pupil, day and topic | upsert, roster, analytics | find, then insert; the key leaves the subject out | a roster shows what was entered last | `Registers` |
| messaging (`messaging.service.ts`, `messaging.gateway.ts`) | conversations, participants, messages, read marks; socket rooms and the map of sockets | create, send, edit, delete, mark read, connect, join, leave | saves without a transaction; find-or-create; rows saved from stale copies; membership checked at join only; clients that leave while they are let in | a conversation has everyone it is meant for; strangers hear nothing; who joins misses nothing; a retry settles | `MessagingService`, `MessagingGateway` |
| applications (`applications.service.ts`) | applications | submit, review, accept with a registration | accept in several saves, copies kept over them, retry | one student per accepted application; the applicant knows the outcome | `Admissions` |
| profiles: students (`students.service.ts`) | students, keyed by a number drawn from the last one | create, update, delete | number drawn before the save, save by primary key, order of numbers as strings | one row per person; a row stays the same person's | `Admissions` |
| notifications | none | e-mail, SMS | fire and forget, in any order | the last notice says what is so | `Admissions` (applicants) |
| auth and accounts | accounts | sign up, change login, deactivate, restore | rows saved whole from stale copies | a change of one column keeps the others | `Roles` |
| roles and permissions (`roles-permissions.service.ts`) | roles, permissions, grants, assignments | CRUD, grant, assign, seeding | counts before deletes; `save` of a row with its relations; seeders that meet | a role in use stays; system roles are there | `Roles`, `StartUp`, `Catalogue` |
| settings, grading system | one row of settings; thresholds per level | create on demand, update, reset; default scales at start-up | created by whoever finds none; a start overlapping with edits; a stop half way | an administrator's values stay in force | `StartUp` |
| profiles: teachers and parents, guards, calendar, integrations, analytics, activity log, AI comments, dashboard | rows | CRUD, lookups | little | - | - |

Components call one another through injected services (reports reads marks and
enrolment, payment reads enrolment and exemptions, applications registers students,
nearly all call notifications after their commit). They share one PostgreSQL database
at its default isolation, READ COMMITTED; one Node process serves requests
concurrently, and a request may be suspended at every `await`. Only the payment
services open transactions; everywhere else a query is a transaction of its own.

## What is modelled

Conventions. Outside the payment services a request is a record with a phase, and one
step is one query with the code up to the next `await`. `save` of a loaded row writes
every column that differs from the table, so a stale copy undoes what others saved; its
own read and write are one step; a row that is gone is inserted again. A request that
is refused writes nothing and is no step. Variables and fields marked as history
(`seen`, `raced`, `doubled`, `stale`, `crossed`, ...) record what was so at an earlier step; no guard and no
other variable depends on them. Definitions whose name ends in `Mutant` (or a comment
that begins so) are deliberately wrong variants of the definition that follows them:
nothing uses them, they serve to show that a property can fail.

### The ledger of a student

`LedgerDb` holds the rows of one student as a record of columns, with the sums and
the recalculation every service uses. `Billing` computes what a bill comes to after an
exemption and what `financial-validation.service.ts` lets through. `CreditService`,
`InvoiceService` and `ReceiptService` are the three services: one operator per method,
from a database to a database (or to `[ok, db]` where the method can throw).
`StudentLedger` is the state machine of the operations one after the other: one action
per route of `payment.controller.ts` that changes the ledger.

| Action | Code |
|---|---|
| `TakePayment` | `receipt.service.ts` `createReceipt`: validate, allocate to open invoices by due date, credit the rest, reconcile |
| `CancelReceipt` | `voidReceipt` |
| `IssueInvoice`, `ReviseInvoice` | the two branches of `saveInvoice`: the bill less the exemption, validation, credit, and the reconciliation both end in |
| `CancelInvoice` | `voidInvoice` |
| `ReconcileNow`, `RebuildNow` | `reconcileStudentFinancesForStudent`, `reconcileStudentFinancesFromScratch` |
| `ChangeExemption` | `applyExemptionToExistingInvoices`, as `saveExemption` calls it |

Each is one database transaction and one step; an operation that throws rolls back and
is a step not taken. What the model says and leaves out:

* Amounts are integers in cents and `Tol` is the code's 0.01. Floating point error is
  not modelled. A percentage is exact in `Billing`, which counts hundredths, and the
  invoice column rounds it.
* Of a bill two sums count: the food fee, of which a staff sibling still pays half, and
  the rest, of which he pays nothing.
* `Open` stands for Pending, PartiallyPaid and Overdue. The code always queries the
  three together.
* Where `ORDER BY` leaves ties open, the id decides.
* A row with amount 0 cannot exist (CHECK constraints), so an amount 0 is "no row",
  and one transaction never creates two rows for one receipt and invoice.
* `validateInvoiceBeforeSave` compares the exempted amount with what remains AFTER the
  exemption, not with the bill: nobody can be exempted from more than half.
* `validateMaximumInvoiceAmountPerTerm` sums the invoices of all students of a term;
  with one student it sums his.
* The repair of allocations whose `invoiceId` is NULL (`verifyReceiptAllocations`)
  never applies, as the column is NOT NULL, and is left out; so are `balance brought
  forward`, legacy invoices, group invoices, the audit log, notifications and PDFs.
* Every date is in the past, as most are by the time an invoice is paid; a date in the
  future changes only the status Pending, which is part of `Open`.
* `voidReceipt` loads one copy of an invoice per credit row it reverses and saves all
  copies: the model keeps the last one saved.
* The last loop of the rebuild, which would spend credit on unpaid invoices, never
  finds one: credit exists only when every invoice is paid up to the tolerance (this
  is the second part of `RebuildIsSound`).

`InvoiceLedger` translates the pure functions of `ledger/invoice-ledger.ts`, and
`LedgerConformance` states that the services, and the balance `getStudentBalance`
asks for (`AmountDue`), agree with them up to the tolerance. How far they may drift apart
is part of the property. A remainder within the tolerance (0.01) is spent by the service
and dropped by the reference, and on an invoice that is paid but for the tolerance the one
stops and the other does not; so a rebuild drifts by up to twice the tolerance for each
receipt. Reconciliation spends one credit, the stored one, against the reference's,
computed from the rows: three times the tolerance on an invoice and four times on the
sum, however many there are. Once per receipt is not enough for the rebuild: with three
invoices and three receipts of a few cents there are states the operations reach where an
invoice is further from the reference than that. For the reconciliation, one
tolerance per invoice is not excluded: simulation of reachable states found no
drift beyond it, but the invariants below do not rule it out, so the property states what
they prove.

### Ledger transactions that overlap

`LedgerTransactions` runs the same operators on the same tables, but as transactions of
two requests under READ COMMITTED without row locks on what is read. `Begin...` is what
a transaction loads and decides, `Finish...` what it writes: from the first write on it
holds the locks of its rows and reads again what is committed by then, so the rest is
one step. It extends `StudentLedger`, for its operators and its properties, and
`AloneIsSerial` says that a transaction nobody commits into is a step of
`StudentLedger`.

| Actions | Code |
|---|---|
| `BeginPayment`, `FinishPayment` | `createReceipt`: open invoices and headroom; then the receipt, the loaded invoice rows, the credit, the reconciliation |
| `BeginVoid`, `FinishVoid` | `voidReceipt`: receipt, allocations, invoices; then those rows and the credit as it is by then |
| `BeginInvoice`, `FinishInvoice` | `saveInvoice` of a new term: lookup and credit; then the credit as read less what is applied, the invoice, the reconciliation |
| `BeginCancel`, `FinishCancel` | `voidInvoice`: the invoice with its allocations and credit rows; then the removal of the rows that were loaded, the credit, the invoice, the reconciliation |
| `BeginReconcile`, `FinishReconcile` | `reconcileStudentFinancesForStudent`: the live invoices; then every step, each of which loads again what it works on |
| `BeginRebuild`, `FinishRebuild` | `reconcileStudentFinancesFromScratch`: live invoices and live receipts; then the DELETEs, the invoice rows, the rows planned from what was loaded, the verification |
| `RollBack` | a failed query, a deadlock victim, an exception |

What overlapping does, and the model says:

* An invoice voided between the load and the save of a payment is live again if the
  save writes `isVoided` of the loaded copy, and voided with money on it if not. TypeORM
  writes the columns in which the copy differs from the row when it looks, so both happen,
  and the model chooses (`Stale`, for a rebuild `Outdated`, which has the term besides).
* `voidInvoice` removes the rows it loaded; a payment or a credit that commits between
  that load and the removal leaves its row on the voided invoice (`RemoveRows`; what
  others have committed since a load is `renewed`, by receipt, and `fresh`, by credit row).
* A rebuild gives rows to the receipts it loaded, also when they are voided by then. The
  DELETE of a table clears what is committed when it runs, so rows that others insert later
  stay beside its own: the model chooses which of those committed since the load it was too
  early for (`fresh`, `paying`, `giving`). `receipt_credits` has no unique constraint, so two
  rebuilds that overlap can give one receipt two credit rows. `rcred` is their sum, `doubles`
  keeps the amounts, and a void takes back the one `findOne` returns.
* Credit read by two transactions is spent twice; two voids of a receipt take its credit
  back twice.

`crossed` collects the invoices and receipts such a write may have upset, and
`MoneyMisplacedOnlyByOverlap` says that no money is misplaced elsewhere: each way onto
the list takes a commit between the load and the writes of a payment, an invoice void or a
rebuild. Left out is what the model has no second half for: an edit of an invoice and an
exemption refresh do not overlap here.

### The receipt desk

`ReceiptDesk` models `createReceipt` as concurrent requests see it: the search for a
duplicate within five minutes and the drawing of the receipt number are queries before
the transaction, the insert is inside it, and others see the row after the commit. One
step is one query with the code up to the next `await`. Ids come from a sequence, are
taken inside the transaction and burnt by a rollback. The number is drawn from the
committed receipts of the year whose prefix was computed at the start of the request,
so a request that straddles the year's end is covered. `seen` and `known` record what
was committed when the request searched and drew; they are history and decide nothing.

### Messaging

`MessagingService` models `messaging.service.ts` as concurrent requests see it: no
method uses a transaction, so one step is one query with the code up to the next
`await`, and a request that fails midway (`Fail`, `Restart`) leaves what it saved.
`MessagingGateway` adds the sockets of `messaging.gateway.ts` and composes the two.

| Actions | Code |
|---|---|
| `StartConversation`, `OpenClassConversation`, `OpenSchoolConversation` | `createConversation`, `createClassConversation`, `createSchoolWideConversation` up to the first save |
| `InsertConversation`, `InsertCreator`, `InsertInvited`, `InsertClass` | the four saves of `createConversation` and `addClassParticipants` |
| `Send`, `SaveMessage`, `TouchConversation`, `Emit` | `sendMessage`, and `handleSendMessage` around it |
| `LoadToEdit`, `SaveEdit`, `LoadToDelete`, `SaveDelete` | `updateMessage`, `deleteMessage` |
| `FindRead`, `InsertRead`, `LoadRead`, `MarkRead` | `markAsRead` |
| `Connect`, `Verified`, `Rejected`, `DropEarly`, `Disconnect` | `handleConnection`, `handleDisconnect` |
| `AskToJoin`, `Join`, `Leave`, `Fetch` | `handleJoinConversation`, `handleLeaveConversation`, `getMessages` |

What the code does that a reader may not expect, and the model says:

* TypeORM 0.3 ignores `leftAt: null` and `deletedAt: null` in a `where` clause. Nothing
  sets `leftAt`, so a participant stays one; a deleted message is fetched and counted.
* `markAsRead` does not ask whether the reader is a participant.
* `addClassParticipants` takes the enrolments of every term (its comment says the
  current one) and every teacher. `Pupils` and `Teachers` are that audience, fixed
  while the model runs.
* `save` on a loaded row writes every column that differs from the table, so a stale
  copy undoes what others saved. Its own read and write are one step.
* A message sent over HTTP is pushed to nobody, and nothing calls the gateway's
  `emitMessageUpdate`, `emitMessageDeleted` and `emitConversationUpdate`.
* socket.io lets no socket join a room once it has disconnected.

Left out: attachments, replies, typing notices, pages (`Fetch` is one page), the
listing of conversations, and the bootstrap user, who has no account. `text` is the
request that wrote it, `seen` is history and decides nothing, `synced` and `view` are
what the client knows. A request that is refused, or the join of a socket that is
refused, changes nothing and is no step.

### Enrolment

`Enrolment` models the terms and enrolments of `enrolment.service.ts`. No method uses
a transaction; one step is one query with the code up to the next `await`. Nothing is
written before the last query of a request, so a request that throws changes nothing
(`GiveUp`, at any point).

| Actions | Code |
|---|---|
| `ResolveDto`, `CheckDto`, `SaveEnrolments` | `enrolStudent`: term and duplicate check for each dto of the body, then one save of all |
| `ReadSource`, `ReadDestination`, `ResolveDestination`, `SaveMigration` | `migrateClass` |
| `ResolveUpdate`, `FindEnrolment`, `SaveUpdate` | `updateEnrolment` |
| `Unenrol` | `unenrolStudent` (the read before the DELETE only gives the value returned) |
| `CreateTerm` | `createTerm`, `addTerm` |
| `FindTerm`, `CountEnrolments`, `RemoveTerm` | `deleteTerm`, `deleteTermById` |
| `FindTerm`, `SaveTerm` | `editTerm` |

An enrolment names its term twice, by the foreign key `termId` and by copies of number
and year; deleting a term sets the first to NULL and leaves the copies. A term created
again has a new id, so an old enrolment stays without one. `enrolStudent` and
`updateEnrolment` search by the copies, migration by the copies and by term only, the
check before a deletion by either. `save` of a row that was deleted meanwhile inserts
it again with its id, for enrolments as for terms.

`seen`, `fresh`, `removed`, `contested` and `raced` are history and decide nothing. Left
out: classes (CRUD on a name), role checks (they only refuse), residence, dates, and
the lists and statistics. `createTerm` and `addTerm` differ in a role check; in the
controller the second `@Post('terms')` and `@Delete('terms/id/:id')` are never reached,
since an earlier route matches first.

### Marks and report cards

`ReportCards` models the marks of one class, term and exam, and the cards made of them
(`marks.service.ts`, `reports.service.ts`). Again there is no transaction and a step is
one query. A card is stored as one JSON document; of it the model keeps the `note`, the
comments of head and form teacher, which a session fetches with a card, changes at the
client, and sends back with the whole document.

| Actions | Code |
|---|---|
| `FindMark`, `UpdateMark`, `InsertMark`, `DeleteMark` | `createMark`, `deleteMark` |
| `ReadMarks`, `Draft` | `generateReports`: the marks; positions, filter and the notes of the stored cards |
| `WriteNote` | the client, before it saves |
| `FindStored`, `StoreReports` | `saveReports` |
| `FindRelease`, `SaveRelease` | `setReportReleaseStatus` |
| `ListReports`, `IsReleased` | `getStudentReports`: one query per report, in any order |
| `AskDownload`, `Download` | `downloadReport` |

`classList` counts how often a student is enrolled, since `getEnrolmentByClassByTermId`
returns every enrolment; a student twice in it gets two cards and, at the first save,
two rows. Neither marks nor reports have a unique constraint, so a search may find any
of several rows (there is no ORDER BY). An UPDATE of a mark deleted meanwhile is lost
without an error. Equal averages get consecutive places in any order; equal marks in a
subject share a position. `filterStudentsWithMarks` drops whoever has only zeros, though
its comment keeps those with "any marks". `seen`, `since`, `viewed`, `open`, `mine` and
`saves` are history and decide nothing.

Comments enter only through `saveReports`: `saveHeadComment`, `saveFormTeacherComment`
and `saveExtraActivities` call `findOne` with `relations: ['student']`
(`reports.service.ts:890`, `921`, `951`), a relation `ReportsEntity` has not, so TypeORM
refuses the query before anything changes. Left out: PDFs, grades, points, e-mails,
role checks, the opening day of the next term, statistics.

### Accounts, roles and permissions

`Roles` models `roles-permissions.service.ts` and the account part of `auth.service.ts`.
`findRoleById` loads both relations of a role, and `save` writes both back: the junction
rows of its permissions and the `roleId` of its accounts.

| Actions | Code |
|---|---|
| `CheckRoleName`, `ChoosePermissions`, `SaveRole` | `createRole` |
| `LoadRole`, `RenameRole`, `ChoosePermissions`, `SaveRole` | `updateRole` |
| `LoadRoleToDelete`, `CountAccounts`, `RemoveRole` | `deleteRole` |
| `CheckPermissionName`, `LoadPermission`, `RenamePermission`, `SavePermission` | `createPermission`, `updatePermission` |
| `LoadPermissionToDelete`, `RemovePermission` | `deletePermission` |
| `FindSystemRole`, `FindDefaults`, `SaveDefaults` | one round of `seedRolePermissions`, run at each start: it sets the grants of a system role back to the defaults |
| `CheckSignup`, `SaveSignup` | `signup` |
| `LoadAccount` with `ChangeLogin`, `SetActive`, `DeleteAccount`, `RestoreAccount` | `resetPassword`, `setCustomPassword`, `updateAccount`, `updateProfile`, `deleteAccount`, `restoreAccount` |
| `LoadAccount`, `FindRoleToAssign`, `AssignRole` | `assignRoleToAccount` |
| `GiveUp` | an exception, a constraint, a failed query |

Left out: password hashing, tokens and guards, and what `updateProfile` saves of the
profile. `missed` and `late` are history.

### Start-up: settings, grading, seeding

`StartUp` models what the server does one second after it starts, and the requests
that do the same when they find nothing or change it meanwhile. The process may stop
between two queries and start again (`Stop`); a second process is not modelled.

| Actions | Code |
|---|---|
| `CountGrading`, `FindLevel`, `SaveLevel` | `initializeDefaultGradingSystems`; `EditGrading`, `FindLevel`, `SaveLevel` are `saveGradingSystem` |
| `FindSettings`, `CreateDefault` | `getSettings` |
| `LoadSettings`, `CreateDefault`, `SaveSettings` | `updateSettings` |
| `LoadToReset`, `RemoveSettings`, `CreateDefault` | `resetToDefaults` |
| `CountRoles`, `FindRole`, `InsertRole` | `findAllRoles`, `seedSystemRoles` |
| `CountPermissions`, `FindPermission`, `InsertPermission` | `findAllPermissions`, `seedPermissions` |
| `CreateRole`, `DeleteRole`, `CreatePermission`, `DeletePermission` | an administrator's, as one step (`Roles` has the queries) |

`computeGrade` uses the defaults written out in `computeGradeDefault` when a level has no
row; `FallbackAgrees` compares the two on every mark. `Catalogue` is the abstract
specification of seeding: entries appear one at a time and never go, and all are
there in the end. `StartUp` refines it with `present` mapped to the names of the enum that have a row
no administrator can delete, or that an administrator gave to a role of his own
(`SystemRoles == INSTANCE Catalogue WITH ...`): `CatalogueOnlyGrows` is its safety part,
`SeedingCompletes` contains its liveness.

### Admissions

`Admissions` composes `applications.service.ts`, the student part of
`students.service.ts` and the notices of `notification.service.ts` to an applicant.

| Actions | Code |
|---|---|
| `CheckApplicant`, `GenerateApplicationId`, `SaveNewApplication`, `Notify` | `createApplication` |
| `LoadApplication`, `SaveApplication`, `Notify` | `updateApplicationStatus` |
| `LoadApplication`, `AutoRegisterStudent`, `DrawNumber`, `SaveStudent`, `LinkApplication`, `SaveApplication`, `Notify` | the same for a first acceptance, with `autoRegisterStudent` |
| `CreateStudent`, `DrawNumber`, `SaveStudent` | `createStudent`, `nextStudentNumber` |
| `LoadStudent`, `UpdateStudent` | `updateStudent`, `updateStudentByParent` |
| `DeleteStudent` | `deleteStudent` |
| `AdmGiveUp` | a failure anywhere: what was saved stays |

A student number is a sequence within a month with a check digit. It is stored as a
string, and the last one is the greatest as a string: with `MaxSeq` standing for 999 and
`Lead` for 100, the number after `MaxSeq` sorts next to `Lead` and is drawn again.
`createStudent` saves an object whose primary key is given, so a row with that number
is overwritten. It looks the name up first; `updateStudent`, by which staff may change it,
does not, so a rename makes two students of one name without any overlap. `seq` orders the
times at which students were given their names, and `seen` says up to when the names had been
looked through by then: 0 for an update. `SharedNameUnseen` is what the lookup is
nevertheless good for: no registration passes over a name some student has.

Accepting saves three times; after a failure in between, the retry finds the name taken
and the application cannot be accepted any more. A stale status save takes the link back. An application nobody is at work on may say something else than its applicant was
told only after such a failure or copy (`loose`). Left out: lists, PDFs, role checks,
documents.

### Registers

`Registers` models attendance and continuous assessment of one class and term: both
find a row and then update or insert one, and no constraint keeps a second row out.

| Actions | Code |
|---|---|
| `FindMarked`, `SaveMarked` | `markAttendance`, per entry of the body |
| `FindAssessment`, `SaveAssessment` | `createAssessment` |
| `Enrol`, `Leave` | a pupil joins or leaves the class (`Enrolment` has the queries) |

`DailyMetrics`, `WeeklySummaries`, `Trend` are `getAttendanceReports`, `SummaryRate` is
`getAttendanceSummary`, `SheetShows` and `RosterScores` are the two sheets. Marking does
not ask whether a pupil is enrolled, and a report counts who is enrolled now as
possible on every past day. Rows hold midnight by the server's clock and are grouped by
their day in UTC: with `east` that is the day before, which moves a Monday into the week
before. Left out are a server west of UTC (the day is right there, but `getWeekStart` takes the
local weekday of midnight UTC, the day before), the filters by date of the report and the summary
and by assessment type of a roster, which drop rows before anything is counted,
`getStudentAttendance`, a list, and the analytics of assessment, which add up
`numeric` columns as strings.

## Properties and runs

| Run | Instance | Properties | Shows |
|---|---|---|---|
| `student_ledger` | 2 invoices, 2 receipts, bill 100 (food 40), no exemption or a staff sibling's, payments 60, 160 and 201 against a maximum of 200, credit limit 250, term limit 400 | `TypeOK`, `ReceiptNeverOverspent`, `VoidedHoldsNothing`, `RebuildIsSound`, `ReconciledIsCoherent`, `OnlyInvoiceVoidLosesMoney` | whatever the order of operations: no receipt is overspent, what is void holds nothing, the rebuild is idempotent, places all money and conserves it, explicit reconciliation restores every cached field, only voiding an invoice loses money |
| `ledger_edits` | 2 invoices, 1 receipt, a bill of 100 with 40 per cent exempted or nothing, payment 101, two dates, `Tol` 1 | `ServicesMatchReference` | rebuild, repeated reconciliation and the balance asked for agree with the reference ledger, up to the tolerance, when bills and dates are edited and a payment is one cent over |
| `ledger_overlaps` | 2 requests, 2 invoices, 2 receipts, payment 160, bill 100 | `TxTypeOK`, `MoneyMisplacedOnlyByOverlap`, `RebuildRepairs`, `AloneIsSerial` | which overlaps leave money on a voided invoice or receipt and that nothing else does, that a rebuild repairs the rows, and that a transaction on its own is a step of the serial model |
| `receipt_desk` | 2 clerks, 1 student, 1 amount, window 2, year 3 ticks, 4 ids | `DeskTypeOK`, `DuplicatesOnlyByOverlap`, `NumbersInOrder` | when a duplicate slips through; numbers without gaps; when they are unique |
| `messaging` | 3 users (teacher, admin, pupil), 1 class, 2 conversations, 2 messages, 2 requests, 1 socket, 3 ticks, an empty school or one chat to start with | `TypeOK`, `ConversationsSound`, `RoomsSound`, `ChangesStand` | who ends up in a conversation and in its room, what a client is shown, what overlapping edits lose, what a retry repairs |
| `enrolment` | 1 student, 2 classes, 2 terms, 2 requests, bodies of 2, 3 inserts and removals, 2 term ids | `TypeOK`, `PlacedOnce`, `TermLinksSound`, `UnenrolledStaysOut` | which duplicates, orphans and revivals overlapping requests cause, and that nothing else does |
| `report_cards` | 2 sessions, 2 students, 1 subject, marks 0 to 2, 2 enrolments, 2 marks, 3 saves | `TypeOK`, `CopiedOnlyByOverlap`, `ShownIsFair`, `NotesLostOnlyByStaleDraft` | which duplicates and lost notes overlap can cause; places agree with marks whatever the ties; nobody is shown a card that was not released during the request |
| `roles` | 2 requests, 1 account, 1 system role, 3 role names, 1 seeded permission, 2 logins | `TypeOK`, `RolesStand`, `OverwrittenOnlyByOverlap` | system roles stay and nothing names a row that is gone; what one save undoes of another was written between its load and its save |
| `start_up` | the server and 1 request, 2 settings, 2 system roles, 1 permission, 1 stop, 2 rows of settings | `TypeOK`, `ConfigurationLostOnlyByOverlap`, `CatalogueOnlyGrows`, `SeedingCompletes` | a start puts no default over an edit but in an overlap; seeding implements the catalogue; it completes |
| `admissions` | 2 reviewers, 2 people of different names, 2 applications, 3 rows, 1 removal, 1 application left loose, 1 student earlier in the month, `MaxSeq` 1 | `AdmTypeOK`, `SharedNameUnseen`, `RegistrationAgrees`, `RowTakenOnlyByOverlap` | when two students share a name, which application names which student, when a student's row becomes another's |
| `registers` | 2 teachers, 2 pupils, days 7, 8 and 10 (a Sunday, its Monday, a Wednesday), 1 topic, 2 subjects, 2 scores, 3 marks or 2 entries | `RegTypeOK`, `EnteredTwiceOnlyByOverlap`, `ReportAddsUp` | rows are doubled by overlap only; the report counts each presence once and agrees with the summary where both are defined |
| `voided_invoice` (a violation is expected) | 1 invoice, 1 receipt | `ReceiptMoneyIsKept` | the documentation says it, the code does not do it (see Findings) |

Bounds. *Ledger*: one payment below the bill and one above it that leaves credit are
what the allocation code distinguishes, and 201 is what validation refuses; two invoices and two receipts give
first and later payer, paid and unpaid, live and voided in every combination, and let
credit of one receipt pay the invoice of another. 101 against 100 is the tolerance
boundary. The credit limit 250 is reachable with two payments, so aborts happen; the
term limit is the bound on edits. `FewCreditRows` and `OneCreditRow` bound the credit
rows: an exemption refresh followed by an edit adds one every time, without limit.
*Overlaps*: any transaction of the six may be overtaken by one commit of another, which
may itself have been open before. Once an overlap has upset a row (`crossed`), transactions
follow one after the other, so the run shows what each overlap leaves and what the operations
after it make of that; overlaps that upset nothing go on, and the theorems have no bound. A
payment of 160 pays one invoice and leaves credit for the next, so every
transaction has credit to fight for; one invoice and one receipt may be voided
(`OneCreditRow`), which leaves another of each to be upset. *Desk*: two requests suffice
for every overlap of two; a window of 2 and a year of 3 ticks let duplicates expire and
the year turn within `MaxTime`. *Messaging*: every overlap of two requests is there, and
a failed request with its retry; two conversations let two searches create two;
`SocketsFirst` keeps sockets out of runs about opening conversations (they need members,
so a conversation that exists) and lets them connect before the other requests begin,
but join, leave, fetch and disconnect at any time. The three users are creator, member
and stranger. *Enrolment*: one student makes every conflict there is, as students meet
only in the batch of a migration, which the proof covers for any number; two classes
tell the check by class from the check by term, two term ids let a term be deleted and
made again, and three changes are an insert, a conflicting insert and a removal, or a
removal and two inserts. *Report cards*: two sessions and one student give every overlap of
two saves; the second student is there for places and ties. `Bounded` keeps the two
apart: sessions and saves overlap in a class where one student has one mark, and marks
vary while one session drafts; announcements overlap with at most one save. *Roles*: one
role an administrator made beside a system role, one account to hold either, and a
second name to rename to; a login changes (`MaxLogin`) in other behaviours than a name,
since no row has both; the theorems cover any number. *Start-up*: two names in
the list have a first, a next and a last; one stop is a crash at any query, with the
whole start after it; two rows of settings are the race; `Bounded` keeps changes of
configuration and of names in different behaviours, as only the server's order of parts
connects them. *Admissions*: the 1000th number is reached at once with `MaxSeq` 1, which
keeps the wrap-around (0, 1, 2, then 1 again) and its string order; the second person
applies without an address, so that he may apply twice; three names given are two registrations and a rename; the student of earlier in the
month is there to be sorted before or after. `MaxLoose` cuts the
behaviours in which a second application (or the reception) is excused as well. *Registers*: the three days are two weeks,
one with two days and one with one; two requests overlap about one key, since about two
they do not meet; `Bounded` keeps the two registers in different behaviours, since they
share nothing but who is enrolled.
`CHECK_DEADLOCK FALSE` is set because the ids of an instance run out
and a finished system may stop.

Fairness. Only `start_up` checks liveness. It assumes weak fairness of each actor's
next query (`WF_vars(Proceed(p))` for the server and every request): the event loop
runs whatever a query has answered, and PostgreSQL answers. Nothing is assumed of
administrators (`Ask`, `CreateRole`, ...), and `Stop` may strike up to `MaxStops` times. `SeedingCompletes` has two exceptions,
both of the code: a name an administrator takes between a seeder's look and its insert
(`clash`) makes the seeder throw; and a server that loses the race for a role to a
request gives up the rest of its start, permissions included, until it is started
again (`cutShort`). The other parts wait for nothing, so their properties are safety
properties.

`RebuildIsSound` states conservation for students without rows of voided receipts: those
rows survive a rebuild (second finding), and with them money is counted twice. The
second half of `NumbersInOrder` has a premise because a request that draws its number and then waits
can commit a number used long before; numbers are unique only while requests draw after
everything with a smaller id has committed. `FullOnlyByStrays` (in `ReportAddsUp`) has
one because rows of pupils who left count as present in a class they are not in.

## Findings

The first is checked by a listed run. Those with a `.cfg` are recorded counterexamples:
`tlc -config X.cfg` under the module named shows the trace. The others are
what the passing properties name as their exceptions.

1. Voiding an invoice drops the receipt money it held: the query does not load the
   student of the receipt, so the amount to credit is computed for nobody
   (`voided_invoice`, `MCStudentLedger`).
2. Voiding a receipt leaves its allocation rows. The next reconciliation counts them,
   so the invoice is paid by a void receipt (`voided_receipt`, `MCStudentLedger`).
3. The stored credit is verified before the row that explains a change exists, so an
   operation can commit a balance that its rows do not add up to (`stored_credit`,
   `MCStudentLedger`).
4. Reconciliation is not idempotent: one run gives credit to one invoice
   (`reconcile_twice`, `MCStudentLedger`). It does converge (`ServicesMatchReference`).
5. Two overlapping requests can create the receipt that `DuplicateReceiptException`
   exists to refuse (`duplicate_receipt`, `MCReceiptDesk`).
6. A message is emitted to the sockets in the room, not to all participants
   (`emit_to_room`, `MCMessaging`).
7. An exemption of more than half of a bill cannot be billed: the exempted amount is
   compared with what remains (`financial-validation.service.ts:183`). A staff sibling's,
   which `invoice.service.ts:4561` computes as all but half the food fee, is refused
   with any other fee on the bill (theorem `StaffSiblingIsRefused`).
8. Overlapping transactions spend credit twice (`BeginInvoice`). A payment that overlaps
   `voidInvoice` leaves its allocation on the voided invoice or makes it live again
   (`WriteInvoices`, `RemoveRows`); a rebuild that overlaps `voidReceipt` gives the voided
   receipt credit, and two that overlap can give a receipt its credit row twice
   (`Rebuilt`). A later rebuild repairs the amounts of live rows (`RebuildRepairs`), not the
   rows of voided receipts.
9. After the 999th student of a month a number is drawn again, and the new student is saved over
   the one who has it (`students.service.ts:354`; `RowTakenOnlyByOverlap` names it `over`).
10. An acceptance that fails after the student was saved cannot be repeated
    (`applications.service.ts:367`; `loose`).
11. East of UTC, every attendance row is reported under the day before
    (`attendance.service.ts:205`; `east` in `ReportAddsUp`).
12. A start that meets a request seeding the same roles leaves the permissions
    unseeded until the next start or request for them (`cutShort`).
13. `createStudent` refuses a name that is taken, `updateStudent` saves any
    (`students.service.ts:267`; `Renamed`).

## Proofs

`StudentLedgerProofs` proves, for any sets of invoices, receipts, terms, dates and
amounts, that the invariant `IInv` is inductive: ids in use are ids of the tables,
voided ones are issued ones, no receipt or credit row points at a voided invoice, and
no voided receipt holds credit (`SoundAlways`). `VoidedStayEmpty` follows. Neither half
of it is inductive alone: a payment keeps the
first only because it allocates to live invoices, which needs that voided invoices
were issued; the rebuild keeps the second only because it credits live receipts. Each
operation is shown to preserve the invariant by a lemma on its operator, the common
part (a reconciliation writes no row at a voided invoice) once for all.
`ReconciliationRestoresCaches` proves the action property `ReconciledIsCoherent`: the
four operations end in `Recalculate` over all live invoices, and nothing between
the last change of a row and that pass touches a row again. `ExemptedAtMostHalf` and
`StaffSiblingIsRefused` are about what passes validation, by arithmetic.

Amounts need sums and the ordered loops of the services, both of which are folds over
sets of any size. What the provers cannot do is apply an induction theorem to an operator.
`SetLemmas`, which the modules that count share, does without: `SubsetInduction` says
that a *set* of subsets of a finite set which has the empty one, and has s whenever it
has every s without one element, has them
all; it follows from the well-founded order of the numbers. `SetRecursion` draws from it
that a fold which always takes out one element has one value (`Folds` is its equation),
`FoldStays` that it keeps what a step keeps. The laws of sums (`SumStep`, `SumAdd`,
`SumMonotone`, `SumSwap`, ...) are read off by the same induction, and the loops of the
model are written as such folds (`FoldInOrder` of `LedgerDb`: the last element in the
loop's order is applied last). On these rest

* `LedgerTypeCorrect`, the CHECK constraints of the columns: one lemma per operation and
  per helper that writes. What it takes is that amounts are subtracted only where the code
  guards or clamps, and that loops never take more than is left (`FoldStays`).
* `ReceiptsNeverOverspent`. It is not inductive. `Balanced` is: for every receipt the
  allocations and its credit come to the amount at most, and a receipt that was
  not issued has amount 0, without which the payment that issues it could add to rows that are
  there. A payment shares out its amount (`SharesWithinPayment`: the shares in the order
  of due dates never exceed it), a rebuild spreads each receipt's amount
  (`SpreadPours`: what is poured onto invoices and what is left are the amount).
* `OnlyVoidingLosesMoney`, from `LosesNothing` of each operation but the void of an invoice.
* `RebuildsAreSound`: after a rebuild the money of live receipts is on live invoices or
  is credit, and credit is left only when no invoice wants any (`FifoPlanFills`: while a
  receipt has something left, the invoices seen so far are paid up to the tolerance); the
  plan reads ids, amounts, totals and dates, none of which a rebuild changes, so a second
  one gives the same (`RebuildTwice`); and summed by invoice or by receipt it is the same
  money (`SumSwap`), so nothing is lost or made (`RebuildConserves`).

Its last part proves every property of the run `ledger_overlaps`, for any number of
transactions open at a time, from `TxInv`, which has three parts. `Excused` is what holds of
the database with the rows in `crossed` left aside: types, an enrolment's one invoice
(`TermsOnce`), voided invoices without money (`Bare`), receipts spent within their amount
and without credit once void (`Within`). Neither part of a row would survive in `IInv`'s form,
since old copies are written back; that it survives for the others is because copies are
of invoices only (`WriteInvoicesTyped`) and because whatever a transaction puts on an
invoice or gives to a receipt beyond what the database has it records as crossed. `Doubled`
says that only crossed receipts have several credit rows. `DesksInv` is what an open
transaction can rely on: `Holds` is what nobody else can take away (an id still free,
shares within the payment and only on invoices the same save writes, a receipt that is
issued), and `OwnIds` is needed with it, as two payments must not insert one receipt;
`Current` says that a desk marked `alone` holds what the tables hold now. The last is not needed
for the safety of the money, only for `UndisturbedIsSerial`, where a copy that is
current, written back, gives the columns of the operation in one step (`WrittenBack`).
Each operation has a lemma on the database it leaves (`PaymentKeeps`, `VoidKeeps`,
`InvoiceKeeps`, `CancelKeeps`, `ReconcileKeeps`, `RebuildKeeps`); `OpensKeeps` and
`FinishKeeps` carry over what the others hold, whoever opens or commits.
`OverlapsAreRepaired` is the proof for a rebuild once more, which asks only for the
types.

`LedgerConformanceProofs` compares the services with the reference ledger
(`ServicesAgree`). Both sides are loops over the live invoices from the oldest on, but
each reads other data, and neither result is a function of the other. So the loops are
compared through what
they have in common: `Taken` says of balances before and after that an amount was taken from
them in order, so that every first part of the invoices got what it owed or all
there was, up to the tolerance, and an invoice got something only if those before it are paid.
Two such takings of nearly the same amount from nearly the same balances leave nearly
the same (`LeftApart`, `DueApart`): the amount the first invoices get is what
they owe or what there is, on either side, so the error does not grow with their
number.

* *The rebuild* (`RebuildMatches`). One receipt of the service keeps `Taken`
  (`SpreadOne`), so does one of the simulation, and `Drift` says how far the two are
  after each receipt (`Alongside`): twice the tolerance more. It needs nothing of the state
  but `Typed`.
* *Reconciliation* (`RunsConverge`, `RunsMatch`). One run gives credit to the oldest open
  invoice. When the first one comes to the credit (`Started`), the database is `Quiet`:
  voided invoices are unlinked, overpayments corrected, and the caches are the rows. A
  further run keeps that (`QuietReconciles`) and pays the next invoice, or is the identity
  (`Settled`). `Progress` counts: with n + 1 runs for n invoices the last one finds
  nothing to do. What all of them together gave is `Taken` from the balances after the
  first correction (`Ran`), which are those the reference starts from.

`Typed` is not enough for the second. Without a credit row the service gives no credit,
while the reference counts overpayments, so the two agree only because a student without
a credit row has none: no credit, no rows that give any and no live invoice paid beyond its
bill (`NoCreditYet`). And `getStudentBalance` asks for invoices by status, so a voided
invoice must be marked as such (`VoidedMarked`). `MarkedAlways` proves that `Balanced`
with these two is inductive. The first is the harder one: an edit that lowers a bill
below what receipts paid does not create the row itself, the reconciliation at
its end does, and if the credit limit stops it there, nothing is committed; a payment is
committed in either case, but puts no more on an invoice than its bill.

`FindThenInsertProofs` is about three components whose steps find a row, or none, and
insert in a query of its own; its names for the desk (`DeskSpec`) and the registers
(`RegSpec`) are prefixed so that one module can speak of all three. Of `ReceiptDesk` it
proves type correctness, that duplicates need an overlap
(the invariant relates `seen` of every request to the receipts committed with an
earlier date), that numbers have no gap, and that orderly drawing gives growing,
hence unique, numbers, for any number of clerks, students, amounts and any window.

Of `StartUp` it proves that it implements the safety of `Catalogue`
(`SeedingImplementsCatalogue`): every step adds one entry or none. An insert adds the
name it inserts, unless an administrator has it; an administrator's role is an entry as
soon as it is named and stays one when deleted, since the seeder then finds the name free;
`DeleteRole` takes only administrators' own. `StartUpKeepsConfiguration` proves
`ConfigurationLostOnlyByOverlap`, and `StartUpTypeCorrect` the types, from `StartUpInv`:
a level, or the settings, that no overlap has touched holds what was last meant for it
(`GradingKept`, `SettingsKept`), and whoever is between two queries holds what the tables
still say or is marked as overtaken (`DesksOK`).

Of `Registers` it proves every property of the run `registers`, for any requests, pupils,
days, topics and scores. `RInv` says: a request that found a row still finds it,
one that found none is still right or is marked as having missed one (`MarkingOK`,
`AssessingOK`), and a key that is not `doubled` has one row, which holds what was entered
last, or none (`SheetOK`, `RosterOK`). `SaveRow` is the counting both tables share. The
proof asks that no day is a topic, since both registers keep their history in one
function (`SlotsAssumption`), and that there are finitely many pupils. `ReportAddsUp`
follows from the types: `DaysOK` and `WeeksOK` say what the records of a report are, and
counting row by row under the day or the week it falls in (`SumByKey`) makes every total a
number of rows (`TotalsAre`, `WeekTotals`). `RateIs` says what a rounded percentage
bounds without its quotient; the rate of the report is between those of its weeks because
these bounds add up (`RateBetweenWeeks`), and not above the summary because no day has
more rows than the class has pupils, who are counted as possible on every day
(`RowsHavePlaces`, from `SheetOK`).

`MessagingProofs` proves every property of the run `messaging`, for any users, classes,
conversations, messages, requests and
sockets, and any tables earlier requests may have left. `IInv` has two halves.
`ServiceOK` says what a request still knows of the tables while others change them:
rows are never deleted and their conversation, type, class, sender and creation date
never change, so what was read of these holds (`StillOK`, `Kept`); and how far a
creation has peopled its conversation, which no other request touches (`PeopledOK`,
distinct conversations). `GatewayOK` says rooms, pending joins and the socket map fit
the sockets. `ConversationsStaySound` needs the first to know that a
fresh conversation is empty, `RoomsStaySound` that a request still to emit names a
saved message of its conversation, so that whoever joins in time is either told or
finds it. A service action is one lemma that ends in `ServiceStep`, which carries over
to the gateway once (`GatewayKept`).

`RegistrationProofs` is about enrolment and admissions (`Admissions` prefixes the names
both would have: `AdmSpec`, `AdmTypeOK`). Of `Enrolment` it proves every property of the run
`enrolment`, for any students, classes, terms and requests, in layers that each assume the ones they need: types and
ids (`TInv`); which term an id names (`LinkInv`: whatever still holds an id, a term, a
row, a request or a batch, says the same of it); what a deletion that has counted knows
(`OrphanInv`); what an update holds of a row deleted meanwhile (`ContestInv`); what a
check has ruled out (`GuardInv`: nothing that conflicts with a row about to be saved
was there when it was checked, except what an update brings back). `Steps` sorts
`Next` into queries, of which only what they add to their request matters (`Read`),
and the six steps that write, so each layer has seven cases instead of seventeen.
`GuardStays` is the argument of the last layer: rows change their link only, or go, or
are later than every check.

`ReportCardsProofs` proves every property of the run `report_cards`
for any requests, students, subjects and enrolments. `Inv` says what a request knows
between two of its queries: the mark it will insert is the first of its kind but for
those its search came too early for (`MarkDesk`); the same of the cards it will insert,
and the rows it will rewrite have a card (`CardDesk`); an untouched card has the stored
note unless one was stored since (`NoteDesk`); and whoever is shown something asked
while it was released (`OpenDesk`). Ten queries only read: each is shown to give its
request a record with these four (`Holds`), and `ReadInv` does the rest once. The five
steps that write have a lemma each. That a save gives its rows the next ids, without
gaps and one each, is a counting argument (`Ranks`: distinct places number a finite set
from 1), which also gives the last card of a student (`LastPlace`). `ShownFair` adds that
places agree with marks (`PositionsFair`): `Ranked` says in closed form what the ranking
loop has kept after any set of marks, `RankedStep` that one more mark, the lowest, keeps
it so, and `PositionCounts` follows by induction over the marks of the subject; the cards
of a request have places by the averages of the marks it has read (`Placed`).

`RolesProofs` proves every property of the run `roles`, for any accounts, names and
permissions. `Inv` has the shape and uniqueness of the tables (`TablesOK`), the
references between them, and what requests hold (`DeskOK`): a loaded system role is that
row to the letter, so saving it back changes nothing of it (`Holds`); a copy of an
account, or of the accounts and grants of a role, differs from the tables only in what
`missed` and `late` record (`KnowsAccounts`, `KnowsGrants`); an account once opened stays. `OverwritesNeedOverlap` reads the last two off
at every save.

Of `Admissions` it proves every property of the run `admissions`, for any requests,
people, names and `MaxSeq`. `TablesOK` says of the tables what the properties say of them
while requests are under way: an application that is not `loose` is linked to the student
registered for it, or a request is about to link it (`Registers`); its notice is its
status, or a request is about to tell (`Tells`). `Knows` is what a request relies on: the
number it drew is free unless marked stale or over, the row it loaded is still there, the
copy of an application differs from the table only if marked `old`. A query goes through
`ReadInv`; the two saves of an application through `WriteApplicationInv`; saving,
updating and deleting a student through `RowWritten`, which says what any of them
must record, and `StudentWritten`. For names it keeps that whoever was there when a request looked
through the names has another one, or was given it later (`KnowsStudent`, `NamesOK`); a rename
is later than every search under way, and has itself `seen` 0, before any naming.

Assumptions are the named ASSUMEs of the modules: ids are positive numbers, tables
finite, `Tol` and the limits naturals, the server is not a request, nobody is called
`None`. TLC evaluates them on every run.

Every safety property of the passing runs is the statement of a theorem. Only
model-checked is `SeedingCompletes`, liveness under fairness, which is out of the prover's
reach.

## Not modelled

* PDFs, e-mail templates, lists, statistics and role checks of every component: they
  change nothing, or only refuse.
* `saveHeadComment`, `saveFormTeacherComment`, `saveExtraActivities` of reports, which
  always throw (see Marks and report cards).
* `createGroupInvoice`: `saveInvoice` in a loop, one transaction per student; what the
  group promises as a whole is written nowhere. `generateInvoiceNumber`: the unique
  column turns its race into a failed save, which is `RollBack`.
* An edit of an invoice or an exemption refresh that overlaps another transaction: both are
  steps of `StudentLedger` only.
* Teachers and parents, calendar, integrations, activity log, AI comments, dashboard,
  guards, audit log, fees and bills: CRUD on rows that do not depend on one another, or
  calls to external services that leave no state.
* Analytics of continuous assessment and the school's statistics.
* Migrations, which run before the program.
* Several server processes: the models have the one that `npm run start:prod` starts.

## Plan

1. Edits of invoices and exemption refreshes in `LedgerTransactions`.
2. A statement of account (bills, receipts, exemptions by date) against the ledger.
3. The drift of a reconciliation from the reference ledger: whether one tolerance per
   invoice is the true bound, for which an invariant would have to say how far the stored
   credit of a state can be from its rows.
