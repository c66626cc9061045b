# Verification of the event platform

This directory specifies and checks the core of the platform: on the server (`src/backend`,
Go over PostgreSQL) who may attend an event, who holds a ticket for it and who is signed in;
in the two clients (`src/frontend`, React, and `src/mobile`, React Native) what the screens
show, offer and send while answers come late, out of order or not at all. The specification
is TLA+; TLC checks small instances of all modules, and TLAPS proves for instances of any size
the invariants of the event lifecycle and of its tickets, that the lifecycle implements an abstract
specification, what the row locks guarantee, how sessions are kept, and what the event page with its
comments and ratings, the forms, the list of events, the profile and the ticket screens show.
Server paths below are relative to `src/backend/internal` unless they start with `docs` or
`migrations`.

## Inventory

The server has handlers (`adapter/out/httpapi`), application services
(`application/*/service.go`), repositories (`adapter/in/postgres`) and two background jobs
(`bootstrap/container.go`). All durable state is in PostgreSQL; handlers run concurrently, in
any number of requests; a service groups its writes with `UnitOfWork.RunInTx` (READ
COMMITTED, rolled back on error). Services call each other inside one transaction;
notifications and badges are sent after the commit. The clients are view models (hooks) that
hold what the server said, the user's input and flags; their handlers are asynchronous, a
handler goes on with the values it closed over when it started, and little of it cancels
what is under way. Clients and server meet in HTTP calls only.

| Component | State | Operations | What is hard | What makes it correct | Modules |
|---|---|---|---|---|---|
| Event lifecycle, participation | event row, participation rows | create, edit, join, leave, reconfirm, cancel, complete, minute job | reads before the transaction, bulk updates, a start that moves | statuses of event, participation and ticket agree; nobody approved on stale terms; capacity | `EventLifecycle`, `Attendance` |
| Join requests, invitations | a row per user | ask, approve, reject, invite, accept, decline, revoke; cooldowns | rows are used again; an answer races closure | an open offer can be honoured | `EventLifecycle` |
| Tickets, check-in | ticket row (status, expiry, QR version, hash) | activate, issue QR, scan, bulk cancel/expire/pend | two devices without a lock, copied expiry | one admission per activation, access lasts as long as the event | `EventLifecycle`, `TicketAccess` |
| Counters and locks (`migrations/000015`) | two counters on the event row | recount after each participation change | count, then wait, then write | a count under the lock is exact, no circle of locks | `SeatCounting` |
| Sessions | refresh tokens; memory and storage of each client | sign in, refresh, sign out, restart | parallel refusals, lost answers, tabs, writes after checks | no token used twice, no live token lost, no call stuck | `Sessions` |
| Event page | event detail, busy flags, overlays | join, ask, withdraw, leave, reconfirm, answer, heart | overlapping handlers over a stale page | offers only what is accepted, hides nothing | `EventPage` |
| Comments, host's lists | pages, cursors, drafts | page, post, moderate, invite, rate | pages against posts, captured cursors | nothing unreachable, no draft lost | `EventPanels` |
| Accounts without a session | one-time codes, accounts; form, step and token of each device | register, verify, ask for a code, exchange it, set a password, sign in | a challenge read before it is used, lost answers, two devices, mails that fail | one account per address and name, passwords set by the owner of the address, no code works twice | `AccountForms` |
| Forms | fields, errors, change preview, place | fill in, search, save, upload | late names, partial failure, edits by others | one event per form, nothing reverted, the place picked | `EventForms` |
| Discovery | text, filters, place, pages | type, choose, page, refresh | loads overtake each other | the list answers the form, and settles | `Discovery` |
| Inbox, invitations, push, ticket screens | rows, badge, device key, polling loop | read, delete, answer, register, poll, scan | optimistic changes taken back, loops beside loops | lists are the server's, pushes reach the user, good codes pass | `MyPages` |
| Favorite places | saved rows; list, window with search, flags | add, remove, read, search, name | an addition beside a reading, a window closed over a save | the list is what is saved, one addition at a time | `MyPages` |
| Profile | the user's row; what was read, form, flags | read, edit, pick a place, save with a picture | a save that compares with an older reading, a save in parts | what is reported saved is stored, address and point agree | `MyPages` |
| Administration, notification delivery, scores, image versions, badges, categories, reports, ... | | | | | not modelled, see below |

## Modules

The server: `EventLifecycle` is one event, all users but the host, one database transaction
per action. `Attendance` is what it promises, and `EventLifecycle` holds the refinement
mapping. `TicketAccess` extends `EventLifecycle` with ticket expiry and QR tokens: each of its
steps is a step of `EventLifecycle` together with what it does to the extra columns.
`SeatCounting` takes the transactions apart into statements, for the counters and locks.
`TicketAccessProofs` (the lifecycle with its refinement, and the tickets) and
`SeatCountingProofs` hold the theorems.

The clients: `Sessions` composes the token service with both session managers. `EventPage`
composes the page with the server's rules for its viewer. `EventPanels` composes
`EventComments` and `HostLists`, `EventForms` composes `CreateForm`, `EditForm`,
`PlacePicker` and `AccountForms`, `MyPages` composes `NotificationList`, `MyInvitations`, `PushDevice`,
`TicketScreen`, `FavoriteLocations` and `ProfileForm` over `Exchange` (calls and answers lost or
reordered). The members of these
three compositions share no client state - their hooks are mounted apart and meet on the
server only - so that a behaviour follows one of them (`panel`, `part`, `screen` in Init).
`SessionsProofs`, `EventPageProofs`, `EventPanelsProofs`, `EventFormsProofs`, `DiscoveryProofs` and
`MyPagesProofs` hold the theorems about them. `Ordered` has the lists in an order: a set in ascending
or descending order and what is left of a sequence, each member put where the number of those before
it says. TLC and the proofs use the same definitions; the community modules' `SetToSortSeq` and
`SelectSeq` could not be reasoned about without an induction over data. `MC*` are the instances for
TLC.

### EventLifecycle, Attendance and the code

Rows become functions from users: `part`, `ticket`, `request`, `invitation` hold the status,
`"NONE"` for a missing row. `uq_event_user` gives one participation per user, and
`CreateTicketForParticipation` reuses the ticket row, so one ticket per user is enough. The
host's own participation has no ticket, is outside the counters and is left out. `updated_at`
is kept where it is read: `leftAt` (re-entry), `rejectedAt` and `declinedAt` (cooldowns),
`touched` (the seven-day rule of the job).

* `JoinEvent`, `LeaveEvent`, `RequestJoin` and `ApproveJoinRequest` read the event before
  their transaction. Each is two actions, `JoinCheck`/`JoinEvent` and so on; between them
  anything may happen. The second repeats exactly the guards that the transaction's SQL
  repeats: a direct join tests privacy and capacity again and the status not at all. A call
  that was refused, canceled or interrupted by a restart is one whose second half never comes.
* `UpdateEvent` covers minor and material edits, a moved start or end, raised and lowered
  capacity; it marks participations and tickets as the two statements do.
* `TransitionEventStatuses` is one run of the minute job for this event.
* `ConfirmEventImageUpload` is only its effect on `updated_at`.

Abstracted: ids, texts, locations, the distance of the scanner, age and gender (the set
`Eligible`), notifications, badges, history snapshots. `now` is in unit ticks; 60/30/7 days,
72 h and 14 d are constants. The host calls of one event take the event's lock in code and
are single steps.

`Attendance` knows a seat and a door per user, who is barred, how many seats there are and
whether the event is over. It has no clock, versions, offers or calls under way. The mapping
takes APPROVED to a seat, PENDING to a waiting one, the ticket's status to the door, and the
late leavers to the barred. Its steps say what a change of rows may mean: an edit asks
everybody again or nobody; whoever is barred stays barred, and only they are kept out;
the step that completes or cancels the event shuts every door; checking in is
possible once per seat; a seat never changes by somebody else's act. Entering is possible
after the end, because a join checked before it is (finding 1).

### SeatCounting and the code

One transaction per user and one of the host. A statement reads the committed rows plus its
own writes (`Visible`). A participation write fires the trigger: `Recount` is its `SELECT
COUNT`, `WriteCounters` the moment its `UPDATE event` gets the row lock, and the value
written is the one counted before the wait - the re-evaluation PostgreSQL does after a wait
keeps the statement's snapshot. Lock strengths: `FOR UPDATE` of approvals, accepted
invitations, reconfirmations and edits; `FOR KEY SHARE` of the foreign-key check of an
inserted participation (a rejoin updates its row and takes none); `FOR NO KEY UPDATE` of the
counters. A direct join has no lock on the event when it reads the counters and the version.
`Rollback` stands for errors, disconnects, restarts and the database's deadlock detection.
One transaction per user at a time is a bound of this module.

### TicketAccess and the code

`Activate` is `CreateTicketForParticipation` inside the four transactions that approve
somebody; it resets version and hash and refreshes `expires`. `ReadAccess` and `StoreToken`
are the two halves of `IssueQRToken`, whose read takes no lock (`ticket_repo.go:229` drops
`forUpdate`), per device. `ScanToken` locks the ticket and is one step: signature life-time,
version and hash, then the status checks of `ScanTicket`. A token is its version and the
moment it was issued. Every other step keeps these columns.

### Sessions and the code

A session is the number of its token pair. `Refresh` of `application/auth/service.go` is a
read and a rotation, because the row is not locked; the revocation of a family at reuse is
rolled back with the error that reports it, so it changes nothing. The phone keeps the
session in `currentSession` and the secure store and shares one `refreshPromise`; a tab keeps
it in React state and all tabs share `localStorage`. A call that is refused starts or joins a
refresh, waits, and is repeated once. Restarts, sign-outs in the middle of a refresh, lost
answers and two tabs are actions. `disturbed` records them for the properties.

### EventPage and the code

`srv` is the viewer's part of the database, with the server's rules as `CanJoin`,
`CanRequest` and so on. `page` is what `normalizeEventDetailParticipation` (mobile) or
`getEventDetail` with its overlays (web) makes of an earlier `srv`. Every handler is a task:
guard and busy flag, request, server, answer, and what it does then, usually loading the event
again. The outside (host, others, time) changes `srv` between any two steps. `drift` remembers
that the page cannot be current. The seats of the event are free, held (the last ones by participants
who have to reconfirm) or taken: the server counts both kinds of participants before it admits,
the pages are told the number of the approved ones only, and take held seats for free ones.

### EventPanels and the code

`EventComments`: the discussion, the reviews or the replies of one comment, newest or oldest
first as the view models load them, `applyResponseCollection`, merging by id on mobile and
appending on the web, posting with a draft, and reloading of the page under a draft;
deletions, which only an administrator makes, are left out. A panel that is left takes its calls along, but a post that was sent may still reach the
server (`abandoned`), in any order with the later ones. Under an event that is over the web shows
reviews and discussion in two tabs, and the form of a review is gone with its tab (`ChangeTabs`), also
while it is sending: what `Held` says is still on a form is what the user has left of it. `horizon` is how many comments had been
stored when the list was last read; a further page renews it. `HostLists`: participants with
ratings, requests or invitations, whose loaders close over cursor, list and flag; approve, reject,
revoke, invite in a batch, remove, rate, cancel and complete with the refreshes each of them starts
on its client.

### EventForms and the code

`CreateForm`: validation, audience and tags, people search with its timers, and the chain
create - invite - upload. `EditForm`: the difference between form and loaded event, the
preview of what makes participants confirm again, the server's `UpdateEvent` with its
refusals, upload, reload. `PlacePicker`: text search with debounce, map taps with reverse
geocoding, way points with road geometry, the switch between POINT and ROUTE, on all four
forms. Texts are told apart only by whether they are the ones loaded. Times have two ticks a minute, as
the server keeps full instants and the form minutes (`CutToMinute`), and a route without an address
says the one derived of it in every request (`Said`). In `PlacePicker` a derived address names the ends
of the route it was derived of (`Derived`), and a stored or given one may name anything.

### AccountForms and the code

The three flows of `useRegisterViewModel`, `useForgotPasswordViewModel` and
`useLoginViewModel` of both clients as one form per device, over `auth/service.go`. A call is a
sequence of reads and transactions: availability, request (limits, then storing the code, then the
mail), the look at the challenge, and the transaction that counts a failed attempt, creates the
account, exchanges the code for a token, or sets the password. Between the look and the transaction
anything may happen, and the transaction does not look again: it consumes the row by its identity,
which `UpsertOTPChallenge` keeps when it stores a newer code. A call that was given up (lost answer,
screen left) may go on alone. Abstracted: phone, gender, birth date and the wording of errors;
hashes; the limiters are refusals that may come at any time; the fields of one step are filled in
together; codes and tokens are numbers never issued twice.

### Discovery and the code

`DiscoverPage`/`useDiscoverViewModel` and `HomeView`/`useHomeViewModel`: which inputs reload
the list after how long, what a query is built from at the moment it is sent, where the place
comes from (profile, device, fallback, favorite, search, map), `silentRefresh` on focus and
its dependencies, cursors, and stored choices. Each call carries the query it was sent with, and
a mark (`late`) that the code does not have: it says that a reload sent later has ended, with an
answer (`Overtaken`) or without (`Outdated`), or that the list a further page was asked for is gone.
`list.astray` says that what is shown came from such a call; the property is about lists that did not.

### MyPages and the code

`NotificationList`: pages, read, delete, read all, clear all, each shown at once and taken
back on failure, with the badge events of the web and the badge read of mobile's home.
`MyInvitations`: cards, mobile's profile preview, the web's window over the notifications.
`PushDevice`: `usePushMessaging` with its refs, the preference, token renewal, sign-out.
`TicketScreen`: finding the ticket, the polling loops with flag and timer, the host's scanner. The code
of a poll is the first of a stream that the phone then leaves; until a write fails, the stream goes on
issuing codes that nobody reads (`StreamIssues`), and the last code may run out (`CodeRunsOut`).
`FavoriteLocations`: the list with its three ways of being read, the window with its search and
timer, `Create` under the lock of the user's row, `Delete`; a refusal is followed by a reading on
mobile (`syncLocations`), an addition by one on the web. Places are numbers in the order of saving.
`ProfileForm`: mobile's screen and the mode of the web's page over `UpdateProfile`, which takes what
is empty as not given. An address is told apart from its first two parts, which the web shows, sends
and compares; the other fields are a name, the gender (with the birth date, given once) and a picture.
A call knows the visit of the form it was sent from, and whether it could cross with a save.

## Runs

| Run | Instance | Question | States, time |
|---|---|---|---|
| `lifecycle` | 2 users, all privacy levels, starts {1,2}, end 2 or none, capacity 1 or none, 2 calls under way | the lifecycle's invariants, `LateLeaverStaysOut`, and that it implements `Attendance` | 5.2 M, 160 s |
| `closing` | fair; 2 users, one eligible; 60/30/7-day rules scaled to 3/1/1 ticks, time 6 | every started event closes | 0.4 M, 20 s |
| `seats` | 3 users and the host, capacities 1 and 3, versions to 3, PUBLIC and PROTECTED | what the event lock guarantees | 2.6 M, 75 s |
| `access` | 1 user with 2 devices, starts {1,2}, end 2 or none, versions to 2 | one admission per activation; an approved ticket lasts to the end | 4.2 M, 70 s |
| `sessions` | fair; a phone or two tabs, 2 calls, 2 refreshes at once, 4 token pairs (2 on the web) | who loses a session, and why | 0.2 M, 30 s |
| `page` | 2 handlers at once, 1 outside change or loss, both clients, all privacy levels | what the page offers, hides and disables | 2.3 M, 90 s |
| `panels` | pages of 1; 2 old and 1 new comments or 2 rows; 5 inputs or 2 acts; 2 calls, 1 loss | nothing is lost to the reader or the writer | 4.5 M, 155 s |
| `forms` | 2 places, 2 images, 2 tags, 2 needs, 2 trouble, 3 way points; 2 devices, 2 addresses, 3 codes, 1 attempt, 1 loss | what is created, saved, registered and sent | 4.2 M, 150 s |
| `discovery` | 5 pairs of screen parts used together, 3 inputs beside opening the picker, 2 list calls, 2 pages, 1 loss | the list answers the form and settles | 1.6 M, 120 s |
| `mypages` | 3 notifications and 4 acts or readings of them, 2 invitations, 2 users of a device, 3 codes; 3 favorite places of which 2 may be saved at once, 3 acts; 3 places for the profile, 2 names, 4 acts; 2 calls, 1 loss | lists, badge, registration, codes, profile | 4.6 M, 120 s |
| `closed_ticket`, `seats_capacity` | the smallest that shows it | a documented statement the code does not keep (below) | 1 s |

Bounds. In `lifecycle` two users are enough for the capacity and for every hand-over of a
seat, since rows of different users only meet in the capacity; one call of each of two kinds
can be stale at once. Time 2 reaches before, at and after both starts. `MaxVersion` 2 is one
material edit in each history (a second one is reached in `seats`). The 60- and 30-day rules
and cooldowns longer than a tick are exercised in `closing`; in `lifecycle` their constants are
beyond the horizon. In `seats` two users drift the counter and one is admitted on it; two
capacities let the host raise and lower it. In `access`, `TokenTTL` 0 means that a token lives
within its tick. Two calls under way and one loss are what the clients' hazards need: every
flaw named below is between two handlers, or one handler and one failure, or a load and a
change. Pages of one row make every page boundary fall between any two rows. The inputs of
`Discovery` and of the forms are focused on parts of the screen used together (`Foci`,
`focus`): the parts left out keep their first values, which multiplies no states. Times of the edit form
go to five half minutes, so that some are no full minutes, and the two ends of a stored route differ. In `AccountForms`
a behaviour has one of five `Scenes`: the flows of the two devices, whether there is a second
address, and how much is filled in, issued and waited for; a code lives for one minute and may be
asked for again after one, so that both limits fall between any two steps. The
`Max*` constants only bound the exploration. Deadlock is off where the bound on the clock, the
inputs or the edits lets the system stop. Symmetry is used where users, devices, handlers or
places are interchangeable and no liveness is checked.

Fairness. `closing`: only the clock and the minute job, weakly: the container starts the job
with the server and repeats it every minute; a failed run is logged and tried again; no user or
host is assumed to do anything. `sessions`: a request that was sent is answered or lost, and a
client that has its answer goes on; nobody has to call, sign in or out. `discovery`: timers fire,
effects run, calls are answered or fail; no user has to act, so that `ListSettles` says the
screen does not keep itself busy.

### What holds

Server: `TicketMatchesParticipation`, `NoApprovalOnStaleTerms`, `SeatsWithinCapacity`,
`NobodyWaitsInProgress`, `OpenOfferCanBeHonoured`, `ClosedPrivateEventHasNoOpenTicket`,
`LateLeaverStaysOut` and `AttendanceIsKept` (all also proved), `StartedEventCloses`,
`OneAdmission`, `ApprovedTicketLastsToEnd`; and at statement level:

* `RecountIsExact`: a recount under the event lock, or one nothing overlaps, is exact;
* `GuardedSeatsWithinCapacity`, `GuardedFreeSeatIsOffered`: on events without direct joins,
  and as long as the host has not lowered the capacity, drift is harmless: a stale count is
  always written by a leaver, who frees a seat for it, and no free seat is refused for good;
* `GuardedApprovedOnCurrentTerms`: without direct joins nobody is approved past a material edit;
* `UsersNeverDeadlock`: without an edit under way the user transactions always progress. With
  one, a leave (own row, then event) and an edit (event, then rows) can wait on each other;
  the database rolls one back.

`NoApprovalOnStaleTerms` and `SeatsWithinCapacity` of `EventLifecycle` are statements about the
rules when transactions do not overlap. `SeatCounting` says what remains when they do.

Sessions: `ReuseNeedsDisturbance` (any number of calls refused together rotate one token after
the other), `LiveTokenIsKept`, `CallsSettle`.

Clients: each property names what it leaves out, in the comment before it, because the
exceptions are flaws of the code (listed below) and the rest is what holds around them:

* `OffersAreHonoured`, `NothingIsWithheld`, `PageComesToRest`: a page that is up to date offers
  what the server accepts and hides nothing, but for known exceptions; the heart is the
  server's; no handler leaves the page busy.
* `EverythingCanBeReached`: every comment that was read is shown once, in order, or within
  reach; `DraftSurvives`; `HostListIsCurrent`; `RatingDraftKept`.
* `OneResultPerForm`, `WhatIsSavedIsOnTheForm`, `NoFieldIsReverted`, `SaveKeepsItsWord`,
  `RetryIsHarmless`, `PlaceIsThePickedOne`; their parts about accounts are `OneAccountPerForm`,
  `AddressIsVerified` and `Harmless`.
* `ScreenShowsWhatWasAsked`, `ListSettles`.
* `ListsAreTrue` (the inbox, its badge, the invitations, the favorite places and the profile),
  `PushesReachTheUser`, `OpenTicketKeepsAsking`, `GoodCodeIsAccepted`,
  `ActsOnWhatIsShown`.

Type invariants: `TypeOK` is a property of `lifecycle`; elsewhere it is a conjunct of one of the
invariants above (`UsersNeverDeadlock`, `OneAdmission`, `ReuseNeedsDisturbance`,
`PageComesToRest`, `WhatIsSavedIsOnTheForm`).

### What the code does not keep

Found by a run:

1. `closed_ticket` - a join (or approval) that read the status before a cancellation or
   completion leaves an ACTIVE ticket in a closed event, against
   `docs/design/ticket-system.md:93`. PRIVATE events are safe: `AcceptInvitation` reads the
   event again under its lock.
2. `seats_capacity` - two direct joins take the last seat, against
   `docs/backend/business-flows/participation-access.md:32`.

Behaviours of the modules that disagree with a document or a comment, without a run of their own:

* the host's cancellation leaves pending requests and invitations
  (`docs/backend/business-flows/event-management.md:88`); the administrator's does not;
* a USED ticket becomes ACTIVE by leaving and rejoining, or by reconfirming
  (`docs/design/ticket-system.md:100`); `OneAdmission` therefore counts per activation;
* on a PROTECTED event a leaver may overwrite the counters with a count that misses an admission
  it waited for; while the counter is low the host may lower the capacity below the seats taken;
* a direct join that overlaps a material edit stays APPROVED on the old version;
* an edit moves the event later, nobody reconfirms, the start approves everybody, and the
  activated ticket has already expired;
* the revocation of a refresh-token family is rolled back with the transaction
  (`auth/service.go:387`, `docs/backend/business-flows/auth-and-sessions.md:57`);
* mobile shows somebody who left and asks again as having left, without a way to withdraw
  (`docs/backend/business-flows/participation-access.md:83`);
* the late name of a map tap survives the switch to ROUTE and is sent as its address
  (comment at `useCreateEventViewModel.ts:797`);
* mobile sends "males only" as FEMALE in Turkish, and both clients drop the maximum age of the
  audience when they create an event;
* an invited user who accepted and left cannot be invited again; `ticket-system.md` describes
  an older state of the code for public joins;
* mobile's ticket polling says a registry of controllers prevents loops left over from earlier
  turns (comment at `useTicketViewModel.ts:12`), but passes the signal to nothing: a refresh or a
  renewed token while a poll is under way leaves a second loop beside the first.

Exceptions of the client properties, as the modules show them:

* Sessions: two web tabs that refresh at once lose the winner's session; a refresh answered
  after sign-out restores it; on mobile a refused old refresh clears a new sign-in, and
  `finally` forgets a newer refresh.
* Event page: web offers to join to late leavers and ineligible viewers, hides the request form
  of a full event, and overlays "joined" or "asked" whatever the server says next; mobile offers
  no way in after the start, although the server has one; a COMPLETED event still shows the
  reconfirmation panel; a heart pressed during a load may be overwritten; both clients offer to join
  while the last seats are held by participants who have to reconfirm, where the server
  refuses (`participation_repo.go:40`).
* Comments: on the web a reply to a thread that was never unfolded hides the other replies; a
  reply appended while pages remain, an own comment answered after a page that holds it, a reply
  that a later page has brought already, and an own review updated from a later page are shown
  twice; on the web a review sent from a panel that is gone may replace the newer one; on mobile a failed load of replies
  hides the toggle and a failed first load looks like an empty list; a web refetch unmounts
  the panel with its drafts, and the form of a review goes with its tab.
* Host's lists: after a revoke with two or more pages mobile loses a page or shows an empty list;
  a double tap duplicates a page; a partly refused batch of invitations is not reloaded; an
  overtaken refresh shows a handled request again; on the web one busy id is shared by all
  handlers and a refresh failing after a success is shown as the failure of the act.
* Forms: a renewed session wipes a half-typed edit; a lost answer to a creation makes a retry
  create a second event; on mobile an image that fails after the update is not reported; a
  people list reappears after a pick; the name of an older tap moves the pin back; mobile keeps
  coordinates of a tap with the address of the last one until the name arrives; the web keeps an
  old line when a road request returns nothing; any save of an event whose times are not full minutes,
  or of a route without an address, sends these fields too, and names them among the changes
  that make participants confirm again; an edit keeps the address of a route whose way points change.
* Accounts: only the first code of a challenge starts a cooldown, since the row keeps the time it was
  created; a code may be used up by the verification of an older one that was still under way; a
  reset that was given up may set its password after a newer one was set; after a lost answer the
  retry of a registration is refused as taken, and the user has to sign in.
* Discovery: mobile's silent refresh drops the child and family filters, may override the
  filtered list and its cursor refuses the next page; loading more within 300 ms of a change
  sends the old cursor with the new filters; in the app a silent refresh may answer after a newer
  reload has failed, and loading more then clears the error over the older list; web restores a search box that was not applied, and
  a renewed token resets the place; the name of a place touched on the map before a search result or a
  favorite was chosen may arrive after it and take its turn.
* Inbox: a failed act restores a list captured before other acts; marking read what was deleted
  brings it back; answers older than an act bring rows back; the badge is wrong until the next
  poll after a failed "all". A late answer about one invitation is shown in the window of another.
* Push: switching off and on quickly may leave the device unregistered; failed calls are not
  repeated until the token or the session changes.
* Favorites: a place that a reading brought while its addition was under way is listed twice on mobile,
  where a success also empties the window of the next place; a first reading that fails leaves a list
  to which places can be added; on the web a reading that fails after an addition shows the failure
  and not the place.
* Profile: a field that was emptied is reported as saved and kept; on the web a place whose first two
  parts are those of the stored one is not sent; a picture stays stored when the fields are refused
  after it, and the page shows the old one; a renewed token replaces what was typed; on mobile a save
  that ends after the form was left and opened again closes the new one.
* Tickets: with two loops only the last code is accepted, and the screen may show an older one
  until the next poll; a stream that the phone has left issues another code after ten seconds, so
  that the one on the screen is refused with no poll under way; a code lives about as long as the
  pause between two polls and may run out on the screen; a host's scan may fall between; a lost answer to a scan makes the next
  one "already used"; an ACTIVE ticket that is not yet eligible stops polling until a manual
  refresh; a ticket shown PENDING never starts again by itself.

## Proofs

All theorems hold for every finite set of users or devices and all times, capacities, durations and
bounds, from the assumptions on constants named in the modules and nothing else. TLC checked each
inductive invariant on the instance of the run before it was proved.

`TicketAccessProofs`, of the lifecycle:

* `TypeCorrect`: TypeOK is inductive.
* `PastOnly` (`terms <= version`, `leftAt <= now`) and `OwnWayIn` (requests only on PROTECTED
  events, invitations only on PRIVATE ones, direct joins only on PUBLIC ones) are the two
  auxiliary invariants. The first says the version an admission records is at least `terms`, and
  that a start moved into the future makes earlier leavers welcome. The second says nobody can
  overtake their own offer by another way in.
* `TicketsFollowParticipations`: inductive relative to the type; each action that writes
  participation and ticket is one step. `TicketMatchesParticipation` also ties EXPIRED to
  COMPLETED, since otherwise cancellation could not be followed.
* `ApprovalIsCurrent` from `PastOnly`; `StartReleasesEverybody` from the ticket invariant;
  `CapacityRespected` with `SeatsOfUsers` (adding one user adds at most one seat) and the
  finite-set theorems; `OffersCanBeHonoured` from both auxiliary invariants;
  `LeavingLateIsFinal` as an action property from `PastOnly`; `PrivateEventClosesItsTickets` from
  `OwnWayIn`.
* `AttendanceImplemented`: `EventLifecycle` implements `Attendance`. The type, the ticket
  invariant, the capacity and `PastOnly` are what it needs of a state (`MappedState`). Then one
  lemma per kind of step: the four ways in are `Enter` (`EveryWayInEnters`), what a user does is
  about that user's seat (`UsersActOnThemselves`), an edit asks everybody or nobody
  (`EditsAskEverybody`), completion and cancellation shut every door (`EndingsShutTheDoors`), and
  checks, offers, the clock and the image map to a stutter (`NothingMapped`).

and of the tickets with their tokens:

* `AccessImplementsLifecycle`: every step on tickets with their tokens is a step of the lifecycle or
  leaves it alone, so that the theorems above hold of it.
* `OneAdmissionHolds`: the strengthening `Unspent` says that a ticket that is ACTIVE or PENDING has
  admitted nobody since it was last activated; a scan spends it, and only the
  activation that starts a new count gives it back.
* `ApprovedTicketLasts`: everything that moves the announced times takes the approvals away in the
  same step, or the event is over; an activation writes the expiry from the times of that moment.

`SeatCountingProofs`: row locks and counters at the level of statements. `Typed` and `Locks`
(who holds what at which point, and that two exclusive locks never meet) are the base.

* `LockedCountsAreExact`: from `Shape` (what a transaction has written at each point),
  `Solitary` (a transaction that was alone when it began to write sees all there is) and
  `CountsAreExact` (the count of a lock holder is the count of what it will commit).
* `UsersCanGoOn`: a waiting transaction waits for one that holds a lock; the holder of the
  strongest lock does not wait.
* `InvitedAcceptTerms`: `InviteOnly` (no direct join where the event is not PUBLIC) and `TermsKept`
  (who is being admitted has read the current version, and a material edit past its statement on
  participations has marked them all).
* `InvitedFitTheCapacity`, `FreeSeatsAreOffered`: `RowsKept` (who leaves has the seat until the
  commit, and nobody works on a marked row) and `FullIsKnown`: the counters may be wrong about how
  many seats are taken, never about whether all of them are, because a stale count is written by a
  leaver, whose commit frees a seat.

`SessionsProofs`: both clients and the token service, any number of calls and slots.

* `TypeCorrect`, then `InOrder`: `Numbered` (pairs are issued in order) and `Calm` (until a token may
  have been repeated, at most one refresh is under way, its token is live until the server rotates it,
  and its answer is a live pair for a spent one or a refusal).
* `ReuseExplained` and `NoTokenOrphaned` follow from it.

`MyPagesProofs`: the registration of a device, the ticket screen with the scanner, the invitations, the
profile and the favorite places.

* `TicketKeepsAsking` from `Turning`: polling is on while the ticket is shown as open, and while it is
  on some loop of this screen is in a call or waits for a timer, however many loops of earlier turns
  there are.
* `GoodCodesPass` from three parts: `LonePolls` (a poll that was alone from the beginning is the only
  one, and its code the last one issued), `CodeIsLast` (so is the code on the screen, or one is on its
  way, or one was missed: lost, overtaken, issued on a stream nobody reads, or run out) and `ScannerInStep` (one scan at a time, and a sure one carries the last code of a
  ticket that has not been used).
* `ConfirmedStaysAnswered` and `ButtonsActOnWhatIsShown` from `InviteInv`: `ConfirmedIsKnown` (what was
  confirmed is pending on no card, and a window that shows it as pending is about to read it again)
  and `WindowIsOne` (unless calls of an earlier window were under way when this one was opened, all
  calls concern the invitation it was opened for, so its answers cannot bring another one). The
  actions are reduced to `Moves`, what a step takes from the calls under way and what it adds; that
  rests on lemmas about `RemoveAt` and concatenation.
* `OnlyTheUserIsPushed` from `PushTyped`, `Followed` (the component that registers follows the
  stored setting, and has the token in force unless it is asking for it) and `Due`: until there is
  trouble all calls under way are one and the same, and once the server has executed them it holds
  the token in force for the user who is signed in and switched pushing on, and nothing for anybody
  else. A call that is sent twice, or answered late, changes nothing more (`Made` is idempotent).
* `SavedIsStored` from `ProfInv`: every address there is, on the form, in a request, an answer or the
  account, belongs to the place beside it; while a reading that nothing crossed is under way no save
  is, and its answer is the profile unless it was changed elsewhere (`NothingCrossed`); the web shows
  the stored profile, or a reading that will show it is still to come (`FreshIsKnown`); the web saves
  one form at a time (`OneSave`); and `SureSave` follows a save through its calls: what is still to be
  sent asks for what the user asked for, and what was asked for is stored once the last call was
  answered. `Passes` describes what a step takes from the calls and answers under way and what it
  adds, and `OneOf` that there is at most one of a kind, wherever the others move in the sequences.
* `PlacesAreListed` from `FavInv`: while a reading that nothing crossed is under way no change is, and
  its answer is the saved places unless they were changed elsewhere (`LonelyReads`); after such a
  reading the list differs from the saved places exactly by the additions and removals whose answers
  are still to come, each of a place of its own (`ChangesKnown`, `ListKnown`; on the web while the list
  neither loads nor failed); the web's list loads only while a call that ends it is under way
  (`WebLoads`); and one addition at a time is under way, with what follows it, also when the window
  was closed meanwhile (`OneAdding`). The server's count keeps the places within what a user may
  have (`PlacesSaved`), and a list with each place once has as many rows. The places are never
  confused with calls of another page, because no other page adds any (`NoAdds` and the invariants
  above).

`EventPageProofs`: the event page of both clients, any number of handlers at once.

* `PageSettles` from `PageInv`: `InCourse` (a handler has no answer before its request was sent, and
  no loaded event before it ends), `SomebodyEnds` (a busy page has a handler under way that will
  end it: the mobile page's one actionState is held by some handler that needs an answer, though
  not always by the one that wrote it) and `HeartFollows` (a toggle runs alone but for reports,
  every loaded event has the server's heart, and the page shows it or what the toggle makes of it).
  Each handler is reduced to one description, `Handled` or `Begun`, and the invariant is proved
  of that.
* `OffersHonoured` and `NothingWithheld` from `RowsInv`: `RowsInOrder` (what the ways in leave in the
  viewer's rows, for instance that a pending request excludes a seat) and `RowsFollow`. Until the
  page has missed a change, one handler at a time works on the rows; what it loaded is what the
  server would answer now, what it was granted is in the rows, the actionState that says an act is
  done is right, and unless an outcome is still on its way the page shows the event and the viewer
  as the rows have them. `WorkStep` and `AsideStep` reduce every handler, on both clients, to what it does to
  that; the offers of a page at rest are then compared with the server's rules panel by panel.

`EventPanelsProofs`: what is shown under an event, any number of comments, rows, inputs, acts, calls and
lost answers. The first lemmas are about `Ordered`: of sets that contain one another, as the sets of
members up to one are, each number is the cardinality of one (`Ranked`), so that `Ascending` has each
member once and in order.

* `DraftOutlives` from `WriteInv`: what is posted was written by an input (`TextsKnown`), one post at a
  time is under way and what it carries is the draft, which is sending (`OneSent`), and a text has no
  more rows than answers were lost and one more, which it has only once it is no longer pending, on
  the panel or left behind by one that is gone (`CountedOnce`).
* `ReachedFromHere`, with that, from `ReadInv`. A page that was read holds the rows behind its cursor as
  they were then, or leads to them (`PageFits`); one page is under way (`OnePage`), for the cursor of
  the list, and an own comment that it cannot hold is either marked or in neither (`CallFits`). What
  the list has read is shown, once and in order, or behind the cursor or folded (`InReach`), until it is
  astray; a step that puts a comment or a page in keeps that.
* `RatingDraftOutlives` from `FormTyped`: every step but the host's own leaves the form, or changes it
  by what the new rows say.

`DiscoveryProofs`: the list of events near a place, any number of pages, inputs, calls and losses.

* `DiscoveryScreen` from `DiscoveryInv`. The form's part (`ScreenInv`): the text searched for is that
  of the box or the timer holds it (`Follows`), a stored place stays selected unless the map was
  touched since or a name of it was still to come (`ChoiceKept`), and a reload is due whenever the
  query changes. The list's part (`Sound`) relates the list to all calls under
  way: `Superseded` (a call for something else that may still be shown has a reload for the current
  query behind it, sent or due), `ListFollows` (the list is the first pages of the current query, or
  shows an error, or is marked astray, or a call will bring one of these), and what the cursor and a
  further page know of the pages that are shown (`CursorTells`, `MoreTells`). `Sound` is a
  predicate of values, and one lemma says for each kind of step what it leaves of it: a query that
  changes, a silent refresh or a reload sent, a page asked for, the three ways a call ends
  (`SoundKept` to `SoundFailed`). Every action is then reduced to one of them (`Moves`). With three
  pages, where the run has two, TLC showed that an older silent refresh must count as late also once
  a newer reload has failed (`Outdated`): its list is shown without an error as soon as more is loaded.

`EventFormsProofs`: the four parts of `EventForms`, any number of devices, addresses, places, inputs,
calls, codes and lost answers. `FormsInv` gives each part an invariant of its own.

* `EditInv`, for the form that edits: what is not in `typed` shows what was loaded (`TypedIn`), and a
  preview, waiting for the host or being saved, holds a request for typed fields only, says what it
  changes of the event it was made for and would have been valid for it (`IsPreview`; what any save sends, cut times and derived addresses,
  is in it beside the typed fields), and is still
  on the form or has been loaded over (`ShowsRequest`). `SavesRevertNothing`, `SavesKeepTheirWord` and
  the first half of `RetriesAreHarmless` follow step by step: a save writes its request, the server
  compares with the event of that moment, and the difference is what others did in between.
* `AccountInv`, for the forms that register, reset and sign in: the hard part is which code belongs to
  whom. Codes are numbered in the order of issue; `\E own \in Owners` gives each number the address and
  purpose it was issued for and the row it was stored in, the history that the state alone does not
  keep. A row is its owner's and not spent (`RowOK`); what arrived by mail, was put on a form, read by a
  call or granted agrees with the owners (`PapersOK`, `FormOK`, `CallOK`). Whatever a step issues is
  new, so `Grown` (numbers, mails, grants and spent codes grow, and old numbers keep their owners)
  carries every part over, and a step is left with what it changes (`FormsMove`, `CallsMove`).
* `CreateInv`, for the form that creates: events are numbered as they are made (`EventsFit`), a save
  past its first call has made the last one (`SaveFits`), and until the form has one in hand there
  are no more than answers were lost. `Wrong` says what is wrong with a form, and that no error is
  shown that is not in it.
* `PickerInv`, for the place: until taps overlap, every name that is waited for is that of the pick
  (`PicksOK`), and the address is that of the point or the form has none (`AddressOK`), and what
  was sent of a route had an address of its own or was named by its ends (`SentOK`); the calls that
  name way points remember an index, which is right as long as rows are not moved under them
  (`LabelsOK`: the one past the end was made with a full route); and what is being fetched is the line
  through the points of now (`LineOK`). `FormsNameThePlace` follows.
* `FormsMakeOneResult` and `FormsShowWhatIsSaved` join what the parts promise.

The proofs need of the constants, beside the bounds, that there is an image and an address, that times
go beyond the first, and that `None` is none of the messages, requests, calls and lines it stands for
the absence of (`NoneAssumption`).

Checked by TLC and not proved: liveness (`StartedEventCloses`, `CallsSettle`, `ListSettles`; fairness
is beyond the prover), `HostListIsCurrent`, and of the five parts of `ListsAreTrue` the inbox and its
badge (`ConfirmedIsNotOffered`, `ProfileIsStored` and `FavoritesAreShown` are proved). Nothing in the
prover stands against these two; they need invariants of their own over all calls and answers under
way. No recursive operator is used.

## Not modelled

* Event administration: an administrator may write any status by hand; nothing says what such an
  edit preserves, and the invariants above are about everybody else.
* The rate limiter, one counter under one mutex; `AccountForms` knows it as a refusal.
* Creation and delivery of notifications on the server, the broker of its stream.
* Ratings and score on the server (averages), badges (recomputed from counts), image versions
  (one compare-and-set statement and objects in a store outside the repository).
* Comments on the server are single-row inserts and deletes; they appear in `EventComments` as the
  answers a client may get. Categories, reports and the search of places are single-row writes or
  only read, and so do the queries of discovery.
* In the clients: on the profile's page the showcase, equipment, history, ratings, the password and
  the language, and mobile's branch for a picture, which no button reaches;
  the web's ticket pages, the
  administrators' pages, the geometry of map clusters, layout and wording. Beside what is modelled:
  comments leave out the timer of success messages, the rating window and signed-out visitors; the
  host's lists fold the other lists' and the event's reads into one "summary"; the ticket screen
  reads one status at a time; push leaves out permission dialogs and
  restarts with a call under way; discovery leaves out signed-out visitors and errors of categories.
* Email, i18n, HTTP plumbing, configuration and deployment keep no state.
