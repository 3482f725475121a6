# A verification development for the LDT consultation service

The repository is the back end of an app in which business users book
consultations with inspectors of government authorities: a Go server
(`src/api`) over Postgres, a Rasa chat bot (`src/bot`) and the charts that run
them (`src/deploy`). There are no tests in the repository. This directory holds
TLA+ models of the server, the TLC configurations that check them on small
instances, and proofs, checked by TLAPS, that carry all safety properties of the
passing runs over to instances of any size.

## 1. The system

| component | state | operations | source (under `src/api`) | module |
|---|---|---|---|---|
| Consultation booking | `consultation_appointment` rows | create, cancel; deletion of an account leaves them | `internal/storage/consultations.go`, `internal/app/v1/consultations.go`, migrations 00005, 00006 | `Booking` |
| Connection pool and replicas | 16 connections per replica; open transactions | take, release; a replica stops and starts | `internal/storage/db.go`, the chart's `deployment.yaml` | `PooledBooking` |
| Consultation listings | none (queries) | topics, dates, slots, appointments | `internal/app/v1/consultations.go`, `internal/storage/consultations.go` | `Listings` |
| Accounts and sessions | `account`, `business_user`, `inspector_user` rows; tokens held by clients | register (user, inspector), log in, read, update, delete | `internal/storage/{account,business_user,inspector_user}.go`, `internal/app/v1/{user,session}.go`, migrations 00001, 00002, 00004 | `Accounts` |
| Token authorizer, admin sessions | signing key; cookie with expiry | issue, verify, dispatch | `internal/auth`, `internal/admin/session.go`, the generated gRPC handlers | `Sessions` |
| Authority upload | `authority`, `authority_consultation_topic`, `authority_consultation_slots` rows | upload of a workbook | `internal/admin/authority.go`, `internal/storage/authority.go`, migration 00003 | `AuthorityUpload` |
| Workbook parser | none (algorithm) | sheets to topics and slots | `internal/excel/excel.go` | `SlotSheet` |
| Chat bot | `chat_message` rows; the bot's conversation | send, rate | `internal/app/v1/chatbot.go`, `internal/storage/messages.go`, `internal/bot/client.go` | `ChatBot` |
| Process life cycle | goroutines, channels, timers | start, serve, shut down | `cmd/api/main.go` | `Shutdown` |
| Health check | none | ping through the pool | `internal/platform/health.go` | `PoolRecovers` of `PooledBooking` |
| Rasa bot, charts, configuration, logging | settings only | | `src/bot`, `src/deploy`, `internal/platform` | - |

**How they interact.** A gRPC request passes the authorizer's interceptor
(except registration and login), which decodes the token into a `Session`; the
handler checks in the database that the session's account exists and then issues
its own SQL statements, one after another, some inside a transaction. Requests
run in goroutines of their own and, since the chart asks for three replicas, in
several processes: they share nothing but the database and, within a process,
the pool of connections. Administrators use the HTTP panel of the same process
to upload workbooks and register inspectors. Both servers belong to one `main`
goroutine, which starts and stops them. Clients go from the topics to the dates
of an authority, from a date to its slots, from a slot to a booking, and from
their appointments to a cancelation, while others do the same.

**What is hard.** Statements of different requests interleave; a handler uses
what it has read some statements earlier, and a client what it was shown
minutes ago; inserts wait for open transactions with the same unique key and
updates for locked rows, keeping their connection meanwhile; uploads deadlock;
any statement may fail, and a commit may succeed although its acknowledgement is
lost; a replica may stop with transactions open; app tokens never expire and
share their key with the cookies; the bot has a memory that no rollback reaches;
dates are compared in one time zone and meant in another; the parser moves its
row and column counters itself; the shutdown races its timeouts, its channels
and the last requests. `PROJECT.json` lists each of these hazards at its line,
with the properties that cover it or the reason why none does.

**What makes it correct.** Nobody is booked twice and a reply says what
happened (booking); no connection is lost and waiting ends (pool); what was
shown can be booked or canceled unless somebody was faster (listings); one
account per address, one profile per account, tokens that die with their account
and profiles that outlive it (accounts); endpoints serve those they are for
(sessions); workbooks are read as they are written and stored whole, under the
right authority (parser, upload); stored exchanges took place (chat); requests
are finished or given their five seconds, and the process ends (life cycle).

## 2. The modules

| module | models | variables and the code's state |
|---|---|---|
| `Consultations` | rows, requests and queries shared by the booking modules | - |
| `AppointmentLedger` | what the booking service promises: each request changes a ledger at most once, atomically with its answer | `ledger`, `staff`, `alive`, `asked`, `granted`, `answer` |
| `Booking` | the handlers of creation, cancelation and account deletion, one action per SQL statement | `appointments`, `hired`, `alive`: committed rows; `uncommitted`: rows of open transactions; `pc`, `call`, `chosen`, `reply`: the handler's position, arguments, `chosenInspector`, answer |
| `PooledBooking` | `Booking` in replicas with bounded pools that may stop and come back; its actions are those of `Booking` with a connection taken, kept or given back | `conns`: who keeps a connection; `up`: running replicas; `lost`: requests whose replica stopped under them |
| `Listings` | the four listings between the steps of `AppointmentLedger`, the database's clock, and a client that fills in its requests from the pages it was shown | the ledger's, and `now`; `state`, `query`, `page`, `before`, `at`: each listing, what it showed, the appointments and the time then; `basis`: the topic and listing a booking was chosen from |
| `AccountRegistry` | what the account service promises: atomic registrations, updates, deletions | `registry`, `profiles` and the answers |
| `Accounts` | registration, login, reading, update, deletion, one action per statement | `accounts`, `users`: committed rows; `lastId`: the sequence; `inserted`, `unlinked`: what open transactions hold; `tokens`: issued sessions; `pc`, `call`, `reply` |
| `Sessions` | the way of a call through the generated handler, the interceptor and `authorizeSession`, and of an admin request through the cookie check | `now`, `alive`, `gone`; `issued`: tokens and cookies; `req`: each request with its token, time and answer, and whether the lookup of its account failed |
| `AuthorityUpload` | the upload transaction, one action per row of its three multi-row inserts | `committed`, `inserted`: rows; `known`: `authorityIDByName`; `stage`, `at`, `pc` |
| `SlotSheet` | `ParseTimeSlotFile`, one action per row and, in the schedule, per cell, with the counters as the code moves them | `sheet`, `row`, `column`, `rowIndex`, `info`, `infos`, `error`: the parser's; `book`: the workbook |
| `ChatBot` | sending and rating; the bot as a process that may have heard what the server believes failed | `rows`, `lastId`: `chat_message`; `heard`, `said`: the bot's side; `undecoded`: requests whose call came back with an error status (only observed); `quit`: canceled contexts; `pc`, `call`, `response`, `reply`, `handed` |
| `Shutdown` | `runAPI` from its start to the end of the process | `main`, `loop` (server goroutines and their channels), `drain` (the goroutines of `GracefulStop` and `Shutdown`), `signal`, `timeout`, `forced`, `work` |
| `...Proofs` | theorems about the module of that name | - |
| `MC...` | small instances for TLC | - |

Three modules compose others: `PooledBooking` extends `Booking`; `Booking`
implements `AppointmentLedger`, on which `Listings` builds instead of on the
statements, so that what is shown about listings rests on the refinement and not
on a second model of bookings; and `Accounts` implements `AccountRegistry`.

Definitions marked `Mutant:` in their comments (`InsertAccountNoIndex`,
`FreeRowsUnjoined`, ...) are plausible bugs, used to show that each property can
fail. No specification uses them.

### Statements, transactions and failures

All database modules treat Postgres the same way, from how the code uses it.
Transactions are opened with `&sql.TxOptions{ReadOnly: false}`, so they run at
the default level, READ COMMITTED: each statement sees the rows that are
committed when it starts and those of its own transaction. A statement outside
`RunInTx` is atomic. Within a transaction

- an insert whose unique key belongs to a row another open transaction has
  inserted waits until that one is over (`~Occupied(uncommitted, ..)`,
  `~Taken(inserted[q], ..)`, `~Blocked(u)`);
- an update waits for a row that an open transaction has updated and then
  evaluates its condition again (`Unlocked`);
- rows appear or change for others at the commit only. Where the last statement
  of a transaction cannot be observed apart from the commit (the insert of a
  profile, the deletion of an account), the two are one action; in `Booking`
  the insert and the commit are apart, because others wait in between;
- ids come from a sequence, which a rollback does not turn back.

`Fail` is a statement that does not take effect (a broken connection, a client
that went away and whose context is canceled), for the requests in `FaultyReq`;
the transaction is rolled back and the handler answers as the code does. In
`Sessions` the lookup of an account, a registration and a deletion may fail for
anybody (`LookupFails`), in `ChatBot` every call. `Commit`, `InsertUser`,
`DeleteAccount` and the single updates have a second outcome: the effect is
there and the acknowledgement is lost. When a replica stops (`StopReplica`), its
requests go no further, but their transactions stay open, and block others,
until the database notices (`Resolve`); a commit or single statement that was
under way may still be carried out.

### What is abstracted

- Requests carry valid arguments: field validation and the password comparison
  refuse a request before any state changes. Of the profile's fields `Accounts`
  keeps the one that is optional (`Patronymic`).
- The primary key of an appointment is a fresh uuid: the request that inserts
  the row stands for it, and so does it for a profile row's own id.
- `canceled_at` is kept as whether it is set; `rand.Intn` is a choice among all
  available inspectors.
- In `Booking` an inspector is registered in one step, users are registered
  beforehand and a deletion is one step (its commit); `Accounts` has the steps
  of these.
- A token is the record of its claims. Decoding one into the other service's
  struct leaves the missing fields zero, which is what `AsSession` and `AsAdmin`
  do: a cookie is a session of no account, an app token an admin session without
  a name and without an expiry. Encryption, signatures and password hashing are
  taken as what they are for: a token that was not issued is not accepted.
- Clocks are numbers. A replica's clock differs from the true time by a constant
  `Offset`; `jwt.NumericDate` cuts to a whole `Second`.
- Times of slots are numbers of hours; `timestamptz::date` and `?::date` are the
  divisions `DbDate` and `ArgDate`, which differ by the session's time zone. A
  sort leaves rows of equal starts in any order, `lo.UniqBy` keeps any of a
  day's times, as the queries have no ORDER BY that would tell.
- The client of `Listings` follows the comments of `app.proto`: its requests use
  "the information received via prior requests". The other modules' clients send
  anything.
- A cell of a workbook is what the parser's tests make of it: empty, a date, a
  range of times, or other text. `AuthorityUpload` starts from what the parser
  returns for a workbook with at least one authority sheet. A workbook with a
  cover sheet only makes the first insert fail, which is the same as `Fail` at
  that insert.
- The bot's answer is a set of messages. An error status, whose body the client
  does not decode, gives none (`ErrorStatus`); it may come from the bot or from
  something in between, so before or after the bot has heard the message.

## 3. The runs

| run | instance | what it shows |
|---|---|---|
| `booking_safety` | 2 replicas with 1 connection each, 2 users, 2 inspectors, 1 slot, 3 requests; one replica may stop, and the request sent to it may fail in other ways too | `NoDoubleBooking`, `AnswersMatchTable`, `DeadUserFrozen`, `HistoryKept`, `PoolKept`, `NoCircularWait`, and that the statements implement `AppointmentLedger` |
| `booking_liveness` | the same with 1 user and 1 inspector | every request is answered (`EveryRequestAnswered`), every pool has a free connection again (`PoolRecovers`) |
| `booking_race` | 2 users, 2 inspectors, 3 requests, no failures | violated: see below |
| `accounts` | 1 address, 4 requests, one may fail | `EmailUnique`, `LinksIntact`, `RepliesTruthful`, `NoCircularWait`, `TokensStayTheirs`, `ProfilesKept`, that the statements implement `AccountRegistry`, and that every request is answered |
| `accounts_update` | 1 address, 2 patronymics, 3 requests | violated: see below |
| `sessions` | 2 replicas, a second of 2 and an hour of 3 units, clocks 1 unit apart, an account of each type, endpoints of every access rule, every route | `EndpointsGuarded`, `LoggedOut`, `AdminHour` |
| `listings` | 2 users, an inspector and 2 slots of different days of the authority that is looked for, another authority with both, zone UTC+1, 2 requests, 3 listings | `TakenOnlyByNewer`, `ListedCanBeCanceled`, `HistoryShown`, `DatesHaveSlots`, `SlotsOnDate`, `OneAuthority` |
| `upload` | 3 overlapping workbooks, all may fail | `NamesResolve`, `OnlyDeadlocksBlock`, `WholeWorkbooks`, every upload ends |
| `sheet` | every sheet of up to five rows of the kinds in `MCSlotSheet`, and pairs of sheets | `ParsedAsWritten` |
| `sheet_rows` | the same, without read errors | violated: see below |
| `chat` | 1 account, 3 requests, an answer and none | `ExchangesHappened`, `OnlyRatingsChange` |
| `shutdown` | 2 gRPC calls, 1 HTTP request | `NothingCutEarly`, `ShutdownEnds` |

The runs of `Booking`, `Listings`, `SlotSheet` and `Shutdown` also check the
module's `TypeOK`, which relates variables there or which a plausible bug would
break. The type invariants of `Accounts`, `Sessions`, `ChatBot` and
`AuthorityUpload` say little but types and are proved only.

**Bounds and why they are enough.** A conflict between bookings needs two
requests on one slot; a third lets a cancelation, a deletion or another booking
fall between their statements, and two inspectors are the least with which a
booking can lose one and have another. All requests may ask for anything, so
three bookings on two inspectors (someone is turned down) are among the
behaviours. With one connection per replica and two requests on one of the
replicas, every wait for a connection and every wait for a row across replicas
happens; the limit of 16 differs only in how many requests it takes. For
accounts, four requests are what it takes to register, delete, register the same
address again and use the first token; there is one address because requests
that do not compete for it do not meet. Sessions interact only through accounts and
`issued` tokens: one call at a time that may be dispatched again after others
have changed both is enough for `gone` and `now` to move between its steps. The
instance of the listings lets a listing, another client's booking and a
cancelation or deletion fall between a client's look and its booking; the slots
lie away from midnight in UTC and in the zone, which the code needs (see the
proof of `SlotsAreOnTheirDate`). The workbooks of the upload contain the same
authorities in opposite orders (a deadlock), one authority twice (a conflict
with the own transaction) and shared topics and slots. The sheets cover a missing
name, missing topics, a schedule that follows directly, blank rows, two pairs in
a row and every misplaced date. Two calls to the bot and a rating, or one call and
two ratings, in any order, with every failure between them, and ids that exist
only later, fit into three requests. For the shutdown, the second call
distinguishes "no call is left" from "this call is over". Requests are finite in
number, so every behaviour ends with nothing to do: deadlock checking is off
(`CHECK_DEADLOCK FALSE`) and the liveness properties say that nobody is left
waiting. Symmetry is used only in runs without liveness, over sets whose elements
the module and its constants do not tell apart.

**Fairness.** Each handler's steps are weakly fair: the Go scheduler runs every
goroutine and the database executes every statement that waits for nobody.
Nothing is fair about clients, administrators, failures, or the stop and start of
replicas. A waiting insert is served when the key becomes free for good; with
finitely many requests weak fairness suffices. The database's detection of dead
clients (`Resolve`) and of deadlocks (`BreakDeadlock`) are fair, being timers of
its own. In `Shutdown` the goroutines of the process and its two timers are
fair, the requests are not: a request may hang forever, and the ping of the
bot during the start may, too.

**Three disagreements with the documentation.**

- `booking_race`: `CreateConsultationAppointment` "creates a new consultation
  appointment ... with a random available inspector" (consultations.go:68-69).
  Two bookings may choose the same inspector; the second waits at its insert,
  meets the unique index and is answered with an internal error, although the
  other inspector is available at that moment. The code neither tries the others
  nor reports the slot as taken.
- `accounts_update`: "UpdateBusinessUser updates all of the information of a
  business user" (business_user.go:66). The update is built with `OmitZero`, so
  an empty patronymic name, which validation allows, is not written: the reply
  is ok and the old name stays.
- `sheet_rows`: a malformed range of the schedule is reported with the number of
  the row above it (excel.go:95): the row that ends the topics has been read when
  the loop breaks, and the break skips its `rowIndex++`.

**Described but not stated as properties.** A client that repeats a booking
whose answer was lost books twice, since requests have no key of their own. A
deleted account's future appointments keep their inspector occupied and nobody
can cancel them. An upload that was rolled back is answered 200, because the
result of `WithTx` is discarded (authority.go:37). A booking checks neither that
the slot lies ahead nor that the topic belongs to the slot's authority: only
clients that follow the listings keep them together (`OneAuthority`). A slot is
listed once for each free inspector. The row that ends the topics of a sheet is
dropped even if it holds slots, which `ParsedAsWritten` takes as the format. A
second cancelation moves `canceled_at`. The call to the bot has neither a timeout
nor the request's context, and an error status of the bot is stored as an
empty answer, also when the bot has answered. A database failure during
`authorizeSession` or a login is answered like a lost session or a wrong
password; `EndpointsGuarded` says that nothing else turns an entitled token
away.

## 4. The proofs

The theorems hold for any sets of users, inspectors, slots, requests, replicas,
workbooks and so on, and any values of the other constants that meet the
modules' named assumptions, which TLC evaluates for the instances of the runs.
`PROJECT.json` lists each with what it establishes.

| module | theorems | about |
|---|---|---|
| `BookingProofs` | `TypeCorrect`, `NeverDoubleBooked`, `RepliesTruthful`, `HistorySafe`, `DeadUsersAreFrozen`, `Refinement` | the statements of the booking handlers implement the ledger |
| | `PoolsKept`, `RequestsNeverWaitInCircles`, `PooledNeverDoubleBooked`, `PooledRepliesTruthful`, `PooledHistorySafe`, `PooledDeadUsersAreFrozen`, `PooledRefinement` | the same with any number of replicas and limits, and the order of their waits |
| `AccountsProofs` | `AccountsTypeCorrect`, `AddressesAreUnique`, `ProfilesAreLinked`, `AccountRepliesTruthful`, `RequestsNeverWaitInCircles`, `TokensNeverChangeHands`, `ProfilesOutliveAccounts`, `AccountsRefinement` | the statements of the account handlers implement the registry |
| `AuthorityUploadProofs` | `UploadTypeCorrect`, `UploadNamesResolve`, `UploadsBlockedOnlyByDeadlocks`, `UploadsAreWhole` | any finite set of uploads of any workbooks |
| `SlotSheetProofs` | `SheetTypeCorrect`, `SheetsParsedAsWritten`, `ErrorsNameTheRowAbove` | workbooks of any size |
| `ShutdownProofs` | `LifeTypeCorrect`, `ShutdownIsGraceful` | any number of requests under way |
| `SessionsProofs` | `SessionsTypeCorrect`, `EndpointsAreGuarded`, `TokensDieWithAccounts`, `AdminSessionsLastAnHour` | any accounts, replicas and clocks |
| `ChatBotProofs` | `ChatTypeCorrect`, `ChatRecordsWhatWasSaid`, `ChatOnlyRatingsChange` | any accounts and requests |
| `ListingsProofs` | `ListingsTypeCorrect`, `RefusedOnlyWhenOvertaken`, `ShownAppointmentsAreFound`, `HistoriesAreComplete`, `FollowersNeverMixAuthorities`, `SlotsAreOnTheirDate`, `ListedDatesLeadToSlots`, `ListingsKeepToTheLedger` | any slots, times, zone, users and listings |

**Booking.** `NoDoubleBooking` speaks of open rows, and that a commit adds
exactly one row, the one the handler inserted, needs to be known; whether an
insert keeps it depends on the chosen inspector being one of the table's. The
inductive invariant `IInv` adds `Control` (where a handler stands says what its
request asks for, that its chosen inspector is a registered one of the slot's
authority, and whether it has answered), `OpenRows` (the open rows are those of
the handlers that are about to commit) and `CommittedRows` (a committed row
belongs to a request that was answered "ok", or with an error whose outcome the
client cannot know). Each conjunct has its lemma, with a step per action. The
action properties follow from `TableChanges`: only `Commit` and
`UpdateCanceledAt` change the table. For the refinement the point is
`ChosenIsFree`: between the select and the commit others may take and free
inspectors, but at the commit the open row holds the unique key, so the
inspector is available *then*, although it was chosen on an older view. That is
why the abstract step `Book` is the commit and not the select.

**Replicas and pools.** Every step of `PooledBooking` is a step of `Booking` or
leaves its variables alone, so `IInv` carries over. `PoolInv` adds that the
connections in use are those of the open transactions of requests that were not
lost, and that each pool's are finitely many and at most its limit. The properties
of `Booking` and the refinement follow for replicas that stop at any point, and
so does the order of waits: `NoCircularWait` says that no group of requests, not
all of them over, waits only for what the group itself keeps. A request waits
for an open row or for a connection of a full pool, with 1 as the least limit;
the row's request is about to commit and waits for nobody, and a full pool's
connections belong to transactions that are about to commit or wait for such
a row. This is the safety that `EveryRequestAnswered` rests on: fairness then
only has to move the one who can go on.

**Accounts.** `AInv` strengthens `EmailUnique` and `RepliesTruthful` by `Where`
(what each handler holds at each statement), `Ids` (an open registration's
account is nobody else's, and tokens agree with accounts on the type), `Links`
(accounts and linked profiles belong together one to one), `Locks` (a deletion
that has cleared a link holds that profile, alone) and `Owners` (a profile exists
because its registration was committed). `Locks` is the heart: it is why an update
that was authorized before a deletion, and waited for it, finds no profile and
cannot link it back. Addresses and row locks are held only by a request whose
next statement ends its transaction and waits for nobody (`Where`), so waits have
length one and are never circular. Tokens stay theirs because the sequence never goes back. In
the refinement a registration takes effect with its profile's insert, a deletion
with the account's, everything else at its one statement; a failed statement is a
stutter or a refusal.

**Uploads.** `PassedHeld` says that every row an upload has passed is committed
or its own: a row it skipped as a duplicate was committed, and an open
row of another upload would have made it wait. This gives `NamesResolve` at the
select, and at the commit the whole workbook. Uploads do wait in circles;
`OnlyDeadlocksBlock` says that nothing else blocks them. Who waits, waits for an
upload that still has open rows, so in a group that gets nowhere the uploads that
have not ended wait among themselves; a least such group (`CircleIn`, which is
where the uploads have to be finite in number, `FiniteAssumption`) is also waited
for all through, which is what the database's detector looks for.

**Parser.** The proof needs no induction over data, because the program is one:
the counters `sheet`, `row` and `column` are its variables, and the invariant
`SInv` says what has been found behind them. `Behind`: the sheets done are well
formed and have their results. `InTopics`: every row so far has one column and is
in the result. `InSchedule`: the topics are complete, the slots are the dates
above and to the left of the position (`Passed`), in order, each followed by its
range, and `rowIndex` is one behind the row. `Rejected`: what was rejected is not
well formed. `SheetsParsedAsWritten` reads this off at the end of the book;
`ErrorsNameTheRowAbove` is the finding of `sheet_rows` for all workbooks: every
error of a schedule, not only that of a counterexample, names the row above.

**Sessions.** The invariant says of a request under way or answered what was
checked for it, against the accounts of the moment: account ids never come back
(`NoReturn`), and a cookie's expiry is its login's time plus an hour on the
replica of the login, cut to a second. A request that was denied had no session,
one of the wrong type, one of an account that is gone, or a lookup that failed:
the last is why `EndpointsGuarded` cannot promise service to every account that
exists. `AdminHour` is arithmetic on the two clocks, which differ by at most
`Spread`.

**Chat.** Before the bot is asked nothing was heard, and asking takes a request
on, with the answer, to where it stores it, or ends it (`AskMovesOne`). What a
request is about to store, or has stored, was heard once and has the answer, or
came back with an error status and is empty, whatever the bot heard (`Stored`).
Nothing is stored of a request that is not over; ids come from the sequence.

**Shutdown.** When a graceful stop has returned, nothing runs on its server
unless its time was up or it was forced (`Drained`), and main stops the servers
only then (`Decided`).

**Listings.** `LInv` keeps of each page what can still be said of it now: a
listed slot is free or was booked by an appointment that is not in `before`
(`Bookable`, and `BookableStays` is the step that others cannot spoil), an
appointment in a page still exists with its parties, and each request names a page
that shows what it asks for (`Bookings`, `Cancelations`). `LedgerMoves` says what
the ledger's steps may do to all this, `SortedRows` that sorting neither drops
nor invents rows. `SlotsAreOnTheirDate` and `ListedDatesLeadToSlots` have the hypothesis
`OneDate`: every slot begins and ends on one date, the same in UTC and in the
database's zone. It is what the date comparisons rely on: with `Zone` = 3 the
instance of the run violates `DatesHaveSlots`, and nothing in the code makes
`SlotsOnDate` hold for a slot that ends on another day than it starts.
`ListingsKeepToTheLedger` justifies the composition: what clients fill in from
pages is always a call the ledger knows, so listings, clients and clock take no
other step on its variables.

**Only model-checked.** The liveness properties (`EveryRequestAnswered`,
`PoolRecovers`, `EveryUploadEnds`, `ShutdownEnds`): fairness and ENABLED are
beyond the prover; of the first three the proofs have the safety part, that
nobody waits in a circle (other than one the database breaks). The properties of
the three violated runs have counterexamples and nothing to prove.

## 5. Not modelled

The cryptography of tokens and passwords (libraries), marshalling in the
generated code, configuration and logging, the Rasa bot's training data, the
charts beyond their number of replicas, and the mobile app (in another
repository) keep no state that interacts with what is modelled, or belong to
third parties. The administrator's web pages are static. Field validation
(`user.go`, `authority.go`) is a filter in front of the modelled steps and holds
no state.

## 6. What is left

Everything of the server that changes state or answers from it has its module.
What could follow:

1. `Listings` over the statements of `Booking` with replicas, in place of
   the ledger, to see the listing's own transactions fail.
2. Uploads and listings together: slots and topics that appear between a
   client's requests. (Rows are only ever added, so the properties of `Listings`
   are expected to hold.)
