# Verification of the real-estate platform

TLA+ models of the parts of this repository where order, overlap and failure
decide whether the system is right: sessions and their rotating refresh tokens,
the browser cookies in front of them, one-time codes, the publication of
listings, their photos, the contacts behind enquiries, an enquiry on its way
from the form to the agent's queue, and the public site while staff edit what it
shows: its search, its pages, its cache, and the forms on the other side, from
what is typed into them to what the site says. TLC checks them on small
instances; TLAPS proves the safety properties of every component, the public
site included, for every instance.

Paths below are relative to `src/`; `api/` abbreviates `apps/api/src/`.

## The system

A monorepo: an API (NestJS over PostgreSQL through `postgres.js`), an admin
application and a public web site (Next.js), shared packages, and end-to-end
tests. All state that outlives a request is in PostgreSQL, in the object
storage bucket, or in the browser's cookies. Processes talk over HTTP; inside
the API, services call repositories, and **every repository call is a
transaction of its own** (`api/database/database.service.ts:62-104`). So the
hard behaviour is nearly always the same: two requests interleave between the
transactions of each, or inside one transaction between a read and the write
that relies on it, since PostgreSQL runs them READ COMMITTED.

| Component | State | Operations | Talks to | Hard because | Right when |
|---|---|---|---|---|---|
| Refresh tokens (`api/identity/services/token.service.ts`, `staff-auth`, `contact-auth`) | `refresh_token` rows | login, refresh (two endpoints), logout, revoke family | OTP, password and contacts before it; admin proxy after it | stragglers, grace window, lost answers, revocation against rotation, refusal after minting | a session has one owner, is never a dead end, and is over once revoked |
| One-time codes (`api/identity/services/otp.service.ts`) | `otp_challenge` rows | request, verify | contact sign-in | overlapping sends and guesses, cooldown read outside the write, crash mid-verify | a code works once, within its attempts, and not after a resend |
| Contacts and identities (`contact-auth.service.ts`, `contact`, `contact_identity`) | two tables, unique indexes | sign in, sign up, link a password | lead intake shares `contact` | check-then-write, rows made by the other writer | a phone or address signs in the person it belongs to |
| Lead intake (`apps/web/src/lib/leads`, `api/leads`) | the form, `contact`, `lead` | submit, throttle, validate, route, find or create contact, store, answer | contacts, messaging | several transactions, unique indexes, retries after a lost answer | who is thanked is in the right organisation's queue, once |
| Lead pipeline (`apps/admin/src/components/LeadRow.tsx`) | `lead`, `lead_activity`, the rows on a screen | load, change a status | admin | optimistic rows, status and trail are two transactions | the screen and the trail tell what happened |
| Speed-to-lead and outbound messages (`api/messaging`) | none; writes the trail | send with retry | external provider | not awaited, ambiguous delivery | one message, with consent, and a record of it |
| Listing write path (`api/catalog/services/listing-admin.service.ts`) | `listing`, `listing_price_history` | create, update | RERA, properties | gate, UPDATE and history are separate transactions | nothing is ACTIVE where the organisation is not registered; dates and prices are history |
| RERA registrations | `organization_rera` | upsert, expiry | the gate, public pages | time passes after the check | an expired number counts as none |
| Property deduplication | `property` | find or create | listing create | SELECT then INSERT | one plot, one property |
| Media pipeline (`api/media`) | `listing_media`, bucket | upload, remove, reorder, stream | object storage, image processing | two stores without a common transaction, lost answers | a READY photo can be drawn, a removed one is gone |
| Admin session (`apps/admin/src/proxy.ts`) | cookies, in-flight map | gate, refresh, login, logout | token endpoints | answers arrive out of order | signed out stays signed out |
| Public catalog and search (`api/catalog`) | none | search, lists of an area, a city or the host, market figures | the site's provider, row-level security | combinations of filters, NULLs, ties, pages, two implementations | finds what its reference finds; no row anonymous visitors may not see |
| Public web site (`apps/web`) | the URL, the data cache | filter, turn pages, open a page, revalidate | the API, the admin application's hints | answers in flight when the cache is dropped, lost hints | shows what is stored, at the latest after its window |
| Admin pages (`apps/admin/src/components`) | the edit form, the photo grid | edit, save, upload, order, remove | the API, the site | a form that writes back all it read, overlapping calls, optimistic copies | saving loses nothing; the grid shows the gallery |
| Visibility (`api/database/migrations/0010`, `0014`, `0017`, `0019`) | policies | every read | all of the above | NULLs, tiers, child tables | nobody reads what is not theirs to see |
| Migrations runner, guard, password hashing, calculators, seeds | none that matters here | | | | |

`PROJECT.json` lists every component with what is and is not modelled, and,
under `hazards`, the places in the code this table summarises.

## The modules

| Module | Models | Lines it stands for |
|---|---|---|
| `Session` | the abstract promise: a session is opened once for one principal, may be closed, stays closed | what callers of `TokenService` rely on |
| `TokenRotation` | `refresh_token` and every handler that writes it | `token.service.ts:131-366`, the endpoints in `staff-auth` and `contact-auth`, `0011_auth_lookup.sql:132-155` |
| `TokenRotationProofs`, `AdminSessionProofs`, `OtpProofs`, `ListingProofs`, `MediaProofs`, `ContactProofs`, `LeadDeskProofs`, `SiteProofs` | theorems about the module of the same name (`ListingPublication` and `StaffListings`, `MediaPipeline`, `ContactIdentity`; of `Site` its cache, `SearchPage`, `Shopfront`, `ListingDesk` and `PhotoDesk`) | |
| `AdminSession` | the cookies of a browser, the proxy's refresh, the login and logout routes | `apps/admin/src/proxy.ts:51-144`, `apps/admin/src/lib/session.ts`, `apps/admin/src/app/api/auth` |
| `Otp` | the challenges of one destination and purpose | `otp.service.ts:91-214` |
| `ListingPublication` | one organisation's listings, properties, price history and registrations | `listing-admin.service.ts`, `listing-write.repository.ts`, `property.repository.ts`, `rera.repository.ts` |
| `MediaPipeline` | the photos of one listing, over the table and the bucket | `media.service.ts`, `media.repository.ts`, `storage-keys.ts`, `object-storage.service.ts` |
| `ContactIdentity` | `contact` and `contact_identity` and their three writers | `lead.repository.ts:36-126`, `contact-auth.service.ts:90-263` |
| `LeadDesk` | an enquiry: form, route, throttler, intake, acknowledgement, trail, and the queue staff work | `apps/web/src/components/leads`, `apps/web/src/lib/leads`, `api/leads`, `speed-to-lead.service.ts`, `outbound-message.service.ts`, `LeadRow.tsx` |
| `SearchRules` | pure operators: a URL as a query, a query as an API request, its validation, visibility, filters and orderings; and the same by `MockProvider` | `query-params.ts`, `api-provider.ts:300-324`, `search-listings.dto.ts`, `listing.repository.ts:55-273`, `sql-filters.ts`, `mock-provider.ts:556-638` |
| `SearchPage` (on it) | the search page: the address, every control that changes it, what is on the screen, a walk through the pages | `SearchFilters.tsx`, `search/page.tsx`, `ListingMap.tsx` |
| `Shopfront` (on `SearchRules`) | the pages that are not searches, as operators over the table | `listing.repository.ts:290-440`, `catalog.service.ts:99-140`, the pages under `apps/web/src/app`, `mock-provider.ts:640-741` |
| `ListingDesk` (on `SearchRules`) | the edit form: filled from a row, saved as a patch, the hint that follows | `ListingForm.tsx`, `actions.ts:97-286`, `listing-write.repository.ts:111-188`, `revalidate-site.ts` |
| `PhotoDesk` (on `ListingDesk`) | the photo grid of the edit page and `sort_order` | `PhotoManager.tsx`, `media.repository.ts:59-91, 175-239`, the routes it calls |
| `NewListing` | the form for a new listing and other clients of its endpoint, the rows they make, and what a page and a card say of them | `ListingForm.tsx:87-338`, `actions.ts:97-234`, `packages/domain/src/money.ts`, `area.ts`, `write-listing.dto.ts:41-189`, `property.repository.ts:59-109`, `listing.mapper.ts:50-70`, `api-provider.ts:204-224` |
| `StaffListings` (composes `ListingPublication` and `NewListing`) | the staff endpoints for listings | `staff-listing.controller.ts` |
| `Site` (composes the four) | the data cache of the web server and the page somebody watches | `api-provider.ts:53-148`, `api/revalidate/route.ts`, the pages |
| `MC...` | small instances: symmetry sets and constant functions | |

### How state and actions correspond to the code

* A table is a set of ids that have a row and one function per column that
  matters; `None` is SQL NULL. Wording, timestamps nobody compares, and
  free-text columns are left out.
* A request is `pc[r]` and `req[r]`: where it is in the handler, and the local
  variables that survive an `await`. `Done` is the end of a request, of any
  outcome.
* An action is one committed transaction, or the part of one between two points
  where it can wait or be seen: `FOR UPDATE` (`Locked`), a snapshot taken by an
  UPDATE that then waits for rows (`RevokeSnapshot`/`RevokeApply`,
  `BeginRequest`/`CommitRequest`), a SELECT whose result is used by a later
  statement (`LinkCheck`/`LinkApply`, `FindProperty`/`InsertProperty`).
* Unique indexes and CHECK constraints that the code can meet are guards with an
  error branch (`Clashes`, `UpdateRejected`); one the code must never meet is
  part of an invariant (the objects of a READY row in `ReadyIsComplete`).
* `Crash(r)` is a dead process, a dropped connection or, before a last step, a
  lost answer: the open transaction is rolled back and the request is gone.
* Variables commented *history* observe and never guard.
* A definition whose comment begins with *Mutant* is not part of the model. It
  is the definition after it with a plausible bug, kept to show that the
  property named for it in `PROJECT.json` can fail.

`TokenRotation`: a raw token, its hash and its row are one value; a family is
named by the token its login issued. `StartRefresh` is `rotate` up to its
transaction, `LockRevoked`, `LockReused` and `LockMint` are the decisions under
the row lock, `CommitRotation` the commit, `Grant` and `Refuse` the endpoint's
own checks *after* it, which is the order in the code. Both endpoints (staff and
contact) share the table, as they do in the code. Status changes are made by
operators directly (`ChangeStatus`): no handler of the API writes them.

`AdminSession`: the endpoints that `TokenRotation` takes apart are one step each
(`Rotate`, `RefuseReuse`, `ServeLogin`, `ServeLogout`), so that what is left to
interleave is what the browser and the proxy add: a request carries the cookies
of the moment it was sent, `Receive` applies an answer to the cookies of the
moment it arrives, `Join` and `StartExchange` are the two ways through
`exchange`, and `Settle` its `finally`. Ages, not instants, are kept: of a use
up to one past the grace window, of a request up to `MaxDelay`, of an access
cookie down to nothing. Loads with an access cookie, which pass untouched, a
login refused for its password, which changes no cookie, and the thirty days of
the refresh cookie are left out.

`Otp`: comparing hashes is comparing challenges; `now()` is the time the
transaction began. `SkipConsumed` is what PostgreSQL does when a row that a
`FOR UPDATE ... LIMIT 1` waited for no longer matches.

`ListingPublication`: time is counted in days, which is what `valid_until` is
compared with. `CreateCheck` and `Gate` are the two calls of
`assertPublishable`; `UpdateApply` is the whole UPDATE with its `coalesce` and
CASE columns (`NewStatus`, `NewClosePrice`, `NewClosedAt`, `NewPublishedAt`).

`MediaPipeline`: content stands for its checksum. Every put may fail with or
without its object arriving (`PutFails`), and `markReady` may throw after it
committed (`MarkReadyFails`), which is why `MarkFailed` can meet a READY row.

`ContactIdentity`: a lead form always has an email and may have a phone
(`create-lead.dto.ts:79-93`), both unverified; a sign-in has a verified phone.
`MatchOn` is the backfilling UPDATE, or the unique violation it ends in.

`LeadDesk`: a submission is a *call*, and a stored lead is named by its call.
The pc of a call goes from the site's route over the API's throttler and
validation to `Resolve`, `Store` and `Created`, one step per transaction or hop;
`heard` is whether the browser still has the connection. `Crash` takes every
request and acknowledgement of the API process with it. An acknowledgement that
is `lost` has left nothing on the trail; one that is `over` has. Content is what
intake looks at: the kind, whether a phone is there and valid, the consent, the
listing; `TourRequestForm` and the others say what each form can send. `Host` is
read once, at boot, like the rest of `deployment`. Leads that were stored before
the API started have score 0 in the model, because nothing reads it.

`SearchRules`: a listing is a record of the columns a filter, an ordering, a
policy or a form looks at. A URL is a record from its keys to values (`None`: not
there), so that `Parse`, `ToParams`, `Request` and `Accepts` are the four
translations a search goes through, each with what it drops. The database may
order ties as it likes where the code names no tiebreak (`Orderings` is a set).
Free text is a sequence of parts, so that it can be the whole, the beginning or the
middle of a reference code; of prose a row has the texts that are found in it, by
full-text search (`words`), in the names of locality and project (`names`) and in
what `MockProvider` looks through (`mentioned`). `FoundBy` and `Mentions` are the two
ways to match it, `Effective` is the query `MockProvider` answers when no status is
chosen. `Accepts` leaves out the length of a text and that some numbers are whole:
no such address is among the inputs.

`SearchPage` keeps the address and the screen apart: a control changes the
address from what the last render saw, `Render` fetches and shows. `walk` records
a visitor who turns the pages one by one without changing anything.

`ListingDesk`: `FormOf` is what the form shows of a row, `PatchOf` what it sends,
`Written` the UPDATE with its `coalesce` columns. `alone` is history: nobody else
has saved this listing since the form was opened.

`PhotoDesk`: photos are numbers because ties in `sort_order` are broken by id.
The copy a grid shows, the list the server last handed down and a refresh under
way are separate, as in the component. `inStep` is history and says when the
grid is owed the truth.

`Site`: the data cache of Next is external; what is modelled of it is what the
code relies on: an answer is kept only if it is a 200, served stale while *one*
background fetch is under way, fetched by a waiting visitor if there is none, and
dropped by `revalidateTag` with `expire: 0`, which does not stop a fetch under
way from being stored after it.

`NewListing`: decimals are integers, prices in paise and the rest in hundredths,
so prices stay under 2.1 crore for TLC's sake and square metres, with their four
decimals, are left out. So the rounding of prices of 100 crore and more
(`money.ts:39`), though in `Step`, is not reached by a run, and the upper bounds of
the DTO on prices and areas are not in `Accepts`. A price field is a figure and what it is counted in; one
the code cannot read is counted in something else. `table` is `SQ_FT_PER_UNIT`
of the release that is running. `first` and `typed` are history: what a property
was inserted for, and the price typed for a listing. That React resets a form
after its action is external; the price survives because the component keeps it
(`ListingForm.tsx:98`). Only the columns that a conversion, a constraint or the
page's facts about price, place and size read are there. Where it and
`ListingPublication` model one handler, one has its gate and transactions, the
other its data; neither decides by anything of the other's, so `StaffListings`
explores them in scenes of their own.

## What each run checks

| Run | Checks | Distinct states | What it shows |
|---|---|---|---|
| `token_rotation` | `TypeOK`, `RefusedExchangeLeavesNoToken`, `RevocationIsComplete`, `SpentHasSuccessor`, `GraceWindowBounded`, `FamiliesAreSessions` | 1.5 million | two requests of any kind on the tokens of a staff user and a contact: no dead end, no walking window, no survivor of a revocation |
| `token_live` | `RequestsAnswered` | 0.5 million | no set of requests waits for each other for ever |
| `token_burn` | `RevokedFamilyHasNoLiveToken` (violated) | | a revocation that overlaps a rotation misses its successor |
| `admin_session` | `SessionSurvives`, `OwnTokensOnly`, `NoBounce`, `LogoutIsFinal` | 1.3 million | two browsers, two processes, requests and answers in any order, with crashes |
| `otp` | `SingleUse`, `AttemptCap`, `SupersededNeverSucceeds`, `SendsInTurn` | 1.0 million | overlapping sends and verifications, with crashes |
| `listing` | `ActiveWhereRegistered`, `ClosedAtTracksStatus`, `PriceHistoryIsCurrent`, `OnePropertyPerPlot`, `ShownAsEntered` | 4.2 million | two overlapping requests on one listing while registrations come and lapse; requests in turn on two listings of one plot; two clients that enter one plot in different units under a conversion table that may change |
| `media` | `ReadyIsComplete`, `RemovedPhotoIsGone`, `OneReadyPerContent` | 1.0 million | two overlapping uploads or removals with failing storage |
| `contact` | `IdentityIsItsContact`, `LeadsReachTheirPerson`, `PasswordIsItsOwners` | 1.2 million | overlapping enquiries, sign-ins and links |
| `contact_lockout` | `PhonesCanSignIn` (violated) | | an enquiry's contact holds a phone nobody can sign in with |
| `lead_desk` | `ThanksMeansStored`, `DuplicatesWereReportedLost`, `NoMessageWithoutConsent`, `TrailIsHonest`, `TrailMatchesStatus`, `RowsShowTheLead`, `EnquiriesSettle` | 0.6 million | a visitor who retries, a provider whose answers are lost, two colleagues on one lead, a dying API |
| `site` | `SearchShowsWhatMatches`, `WalkSeesEverything`, `UntouchedFormChangesNothing`, `FirstLookIsCurrent`, `GridShowsTheGallery`, `PagesAgree`, `SiteCatchesUp` | 0.3 million | browsing, editing, arranging, the market pages, and a page watched through the cache |
| `removed_stays` | `RemovedListingLeaves` (violated) | | the page of a listing taken off the site may be served for ever |

`FamiliesAreSessions` is a refinement: `TokenRotation` with the mapping at its
end implements `Session`. A family is *unborn* before it has a row, *open* while
some row is unrevoked, *closed* when all are. `SearchShowsWhatMatches` and the figures in `PagesAgree`
compare two implementations of one interface: `ApiProvider` over PostgreSQL, and
`MockProvider`, which the site is developed with.

### Bounds, and why they are enough

* **Requests**: two. Every property relates what one request saw to what one
  other changed; a third request only repeats one of the two roles. The second
  scene of `listing` has one, because `PriceHistoryIsCurrent` and
  `OnePropertyPerPlot` hold of requests in turn and the cases where overlap
  breaks them are listed below.
* **Scenes** (`listing`, `lead_desk`, `site`): instead of one large instance, the
  initial states choose between several small ones that differ in who is there
  and what they may do; the state space is the sum of theirs and not the product.
* **Tokens**: three give a family with a rotation and a straggler, or two
  families. A window that is stamped anew by each straggler walks past its
  length only with a third successor; that case is left to the theorem
  `GraceHolds`, which has no bound.
* **Admin session**: two browsers, two processes, two requests and three tokens
  are a session that rotates twice, or another one beside it, with an exchange
  shared, doubled across processes, or crossed by a login or a logout. Requests
  take at most `MaxDelay = 1`; `Grace = 2` and `AccessAge = 2` are the smallest
  values that `LatencyAssumption` allows, and it cannot be weakened: with
  `Grace = 1` a session whose requests are all answered is revoked as reuse,
  with `AccessAge = 1` a browser presents a refused token again. For the
  deployed values it means that a page load must take no more than 5 seconds
  from the browser's sending to its receiving (`configuration.ts:81`: 10
  seconds of grace, two loads in a row).
* **Clock**: `MaxTime` lets a token be inside, at the end of and beyond its
  grace window (`Grace = 1`, `MaxTime = 2`) and expire (`Ttl = 2`); a challenge
  cool down and expire (`OTP_TTL = OTP_RESEND_COOLDOWN = 2`, `MaxTime = 3`); a
  registration lapse (`MaxDay = 1`).
* **Otp**: `OTP_MAX_ATTEMPTS = 2` with `MaxGuesses = 3` comparisons allowed per
  code, so that one too many is possible. Two challenges are a code and its resend.
* **Listings**: one listing with two states of which it is in one, so that a
  registration elsewhere is there to be mistaken for the right one. The
  statuses sent (`CreatedAs`, `UpdatedTo`) have one of each kind the code
  tells apart. RENTED is treated as SOLD everywhere, so only SOLD is sent.
* **Media**: three rows, two contents, two variants: a photo, its
  re-upload and another; a partial set of variants.
* **Contacts**: two phones, two emails, two contacts: details that belong to
  one, to the other, or to nobody. `MaxEnquiries` bounds the leads stored.
* **Enquiries**: one form with two submissions is a form and its retry; two
  colleagues of one organisation and one lead are every overlap of two changes;
  three changes let one follow an overlap. `ThrottleLimit = 1` refuses the second
  submission unless the minute is over; two attempts are a first and a last one.
* **Search**: five listings, one of them not the visitor's to see, differ in
  every column a filter or ordering reads, NULLs and equal keys included.
  `PageSize = 2` and `MaxPage = 3` are a full page, a last one and one past the
  end; `MapSize = 4 > MaxPageSize = 3` keeps 300 > 100. The filters are toggled
  in groups of up to six that interact. The host's closed listing is among the
  five only where statuses are chosen, so that a search without one is compared
  with the reference everywhere else, and set aside there. The texts are the
  beginning of a code, the middle of one, one with a blank at its end, and words that
  one of the two finds.
* **Market**: all tables of three listings out of nine variants (`MCMarket`),
  which differ in what a page may count wrongly: price, area, no area, city,
  type, status, visibility to the public, when and by whom closed. `Cards = 2`
  and `MinSample = 2` are met, missed and passed.
* **Cache**: a watched page, one editor, `MaxSaves = 2` saves: a page made out of
  date, and then back again or further. Edits on a listing with two editors are
  explored without a watched page, as neither reads the other.
* **Photos**: two photos and a third to be uploaded, three calls in all, at most
  two at a time from one grid, or one from each of two.
* **New listings**: two clients, two listings, two properties: a plot listed
  twice, by one after the other or by both at once, or left behind by a creation
  that failed. The forms have prices in crore, lakh and thousands, one that cannot
  be read, and areas in three units; the payloads differ from what the form can
  send: a swapped position, a carpet area outside the built-up one, half of an
  entered area. One correction of the table can fall between any two steps.
* **Symmetry** is declared over ids no definition orders or names; it is not
  used where a run checks liveness, for which it would be unsound.

Deadlock is checked except in `lead_desk` and `site`, where the system does stop:
submissions, saves and calls are bounded, and when they have been answered
nobody has anything left to do.

### Fairness

`FairSpec` asks strong fairness of each request's next step (`Serve`), and of
nothing else: no client has to call, no clock to tick, no administrator to act.
Strong, not weak, because a step that waits for a row is enabled only while the
row is free, and other requests may take it again and again; PostgreSQL grants
row locks in the order of its queue, so a waiting transaction does get its turn.
The mutant of this run holds a family's lock while it revokes the family, which
is the deadlock the code avoids by revoking in a later transaction.

`lead_desk` asks weak fairness of each submission (`Serve`) and of each
acknowledgement (`Acknowledge`): both are promises in the API's event loop, or
requests of the site's, that nobody else can keep from running. It asks nothing
of visitors, staff, or the throttler's minute, and the API may die at any moment
as long as acknowledgements that died with it are set aside.

`site` asks weak fairness of `Age`, as windows of 30 and 60 seconds end, and
strong fairness of `Read` and `Finish`: a request may fail, again and again, but
one that is repeated for ever succeeds in the end. That somebody keeps visiting
(`Visited`) is a hypothesis of `SiteCatchesUp`, not an assumption on the system;
hints to the site need never arrive.

## What is proved

In `TokenRotationProofs`, for all tokens, requests, principals, grace windows
and lifetimes, from `TokenAssumption` alone (staff and contacts are disjoint,
`None` is none of the values, times are naturals, endpoints are of the two kinds):

* `TypeCorrect`: `Spec => []TypeOK`. `TypeOK` is not inductive: a commit writes
  locals into columns, so `LocalsOK` states what the locals hold at each place,
  and `TypeInv == TypeOK /\ LocalsOK` is.
* `RotationImplementsSessions`: `Spec => FamiliesAreSessions`. The inductive
  invariant `IInv` adds `RotationInv`: values in flight belong to nobody
  (`FreshValues`); a row under rotation is not revoked and nobody else's
  (`LockedRows`), which is what the row lock gives and what keeps a rotation from
  reviving a closed family; a family is named by one of its rows (`FamilyRoots`),
  so a login opens a family nobody had; and a revocation only visits one family
  (`OneFamilySnapshots`). `SessionStep` then shows, action by action, that a
  step opens a session (`LoginOpens`), closes one (`RevocationCloses`), or
  changes none (`RotationStutters`).
* `NoDeadEnds`: `Spec => []SpentHasSuccessor`. A token is stamped in the commit
  that inserts its successor, and rows are never deleted; with the
  strengthening that only rows are spent.

And from `IInv`, with no further assumption:

* `GraceHolds`: `Spec => []GraceWindowBounded`. `GraceInv` says why: `used_at` is
  never later than the first successor (`ChildrenInWindow`), and a rotation that
  holds the lock has decided on a time within `Grace` of it and not before any
  successor already committed (`RotationTimes`).
* `RevocationHolds`: `Spec => []RevocationIsComplete`. In a family that no
  rotation overlapped, the snapshot of a revocation under way has every
  unrevoked row (`SnapshotsCoverFamilies`), and once it is over nothing is left
  to rotate (`BurnedAreStill`).
* `RefusalsHold`: `Spec => []RefusedExchangeLeavesNoToken`. The successor of a
  refused exchange is in the family about to be revoked, so in the snapshot or
  revoked already (`SuccessorsOfRefusals`).

In `OtpProofs`, from `OtpAssumption` (a cap of at least one attempt, positive
times to live and between sends):

* `CodeSignsInOnce`, `AttemptsAreCapped`, `SupersededCodeIsDead`:
  `Spec => []SingleUse`, `[]AttemptCap`, `[]SupersededNeverSucceeds`. `OtpInv`
  says which verification holds the lock of a row (`LockInv`), that the attempts
  on the row are those compared and not cut off (`AttemptsAreCounted`), and that
  a consumed row has no comparison left to come (`SpentOnce`).
* `SendsTakeTurns`: `Spec => []SendsInTurn`, with `TurnInv`: while sends do not
  overlap, the one at work has seen every row there is.

In `ListingProofs`, from `ListingAssumption` (every listing is in a state, two
listings of one plot in the same one):

* `ActiveOnlyWhereRegistered` and `ClosingDateTracksStatus`: `ListingInv` follows
  a request from its look to its write. A creation has a listing to itself
  (`WhoseListing`), a request that is about to write ACTIVE has been let through
  the gate *for the state of this very listing*, and neither can change under it.
* `HistoryEndsInThePrice` and `OnePlotOneProperty`, with one request at a time:
  `TurnInv` says that all others are idle and what the one at work has read is
  still so.
* `StaffEndpointsPublish`: `StaffSpec => Spec`. The composition the run checks
  is one of `ListingPublication`, so all four hold of it (`StaffListingsInOrder`).
* `EntriesStayAsEntered`: `StaffSpec => []ShownAsEntered`, from `EntryAssumption`
  (forms and payloads have their fields, `None` is none of the values). `EntryInv`
  says that a property is what its first payload described (`Described`) and that
  a listing's price is what its figure comes to. The rest is about data:
  `AreasAreSaidRight`, that what is printed of an area is what was entered with
  it, which needs the constraint that an entry is stored whole or not at all; and
  `RoundingIsClose`, that a price is printed to within half of its last digit.

In `MediaProofs`, from `MediaAssumption` (there are variants, and "original" is
none of them):

* `ReadyPhotosAreComplete` and `RemovedPhotosAreGone`: `MediaInv` says which
  objects an upload has put at each place, and that nobody deletes an object of
  a row another request can still make READY.
* `OnePhotoPerContent`, with `GalleryInv`: an upload under way has seen every
  READY row of its content, or has met another upload.

In `ContactProofs`, from `ContactAssumption` alone: `PhoneOpensItsContact`,
`LeadsHangFromTheirPerson`, `PasswordsOpenTheirOwners`. `PersonInv` says that the
unique indexes hold, that an identity's phone is the phone of its contact, that
details once written stay (which is why a lead may be filed under a contact found
two transactions earlier), and that a link which checked an address uncontested
is still the first.

In `AdminSessionProofs`, from `SessionAssumption` (naturals; "none", "asked" and
`None` are no tokens):

* `TokensStayTheirOwners`: `Spec => []OwnTokensOnly`. `OwnInv` says where a token
  may be: `owner` of its family, its requests, its cookies, the exchanges asked
  for it (`TokensInPlay`); and that an exchange under way has someone waiting
  (`SomeoneWaits`), so `Settle` forgets none that matters.
* `HeardLogoutsAreFinal`: `Spec => []LogoutIsFinal`. `OutInv` extends it to what
  is still on its way: a browser that is out carries, and is brought, tokens of
  dead families only, unless by a new login.

The next two use `LatencyAssumption` as well (`MaxDelay < AccessAge` the first,
both conjuncts the second); the bounds above say what it means in seconds:

* `RefusedTokensStayGone`: `Spec => []NoBounce`. `YoungInv`: a token on its way in
  an answer is too young to be exchanged, as the access cookie that came with it
  first has not expired, so no refusal of it can be under way.
* `SessionsSurviveRefreshing`: `Spec => []SessionSurvives`, the longest of the
  proofs. `SteadyInv` says of each steady browser that there is a token of a live
  family in its jar, that all its requests are loads of that family, that what
  they carry was spent at most `MaxDelay` before they were sent, and that its own
  cookie, if spent, was spent by a request still under way (`Undisturbed`). With
  `2 * MaxDelay <= Grace` whatever such a request presents is inside its grace
  window when it arrives. `FreshInv` is what a login needs to make a browser
  steady: nobody else has its token.

In `LeadDeskProofs`, from `LeadAssumption` (`NEW` is a status, `None` is none of
the values, every listing has an owner): one invariant, `LeadDeskInv`, of four
parts.

* `TypeInv`: submissions, rows, trails and screens are of their types.
* `EnquiryInv` gives, per submission, what `lead` has of it at each place
  (`Order`) and what its acknowledgement has sent (`Message`): a send under way
  has passed `Skip`, a provider that is not live has delivered nothing, and an
  outcome waiting to be recorded is true. From it `MessagesNeedConsent` and
  `TrailsAreHonest`.
* `FormInv`: a form is "submitting" or "success" exactly for the one submission it
  waits for, or has thanked for (`Holds`). From it and `Order`,
  `ThanksAreForStoredLeads` and `DuplicatesWereLost`.
* `DeskInv`: what the trail and each screen say while a change is between its two
  transactions (`InStep`, `UpToDate`). From it `TrailsMatchTheLead` and
  `RowsAreCurrent`.

In `SiteProofs`, from `SceneAssumption` (a catalog is finite, its rows have an id of
their own and lie in one of the areas, the columns of the form and those a search or a
page compares are of their types, areas are positive as `property_areas_positive`
asks, and nothing is published after today; what is typed into a price is a number;
whoever edits is an editor; stored positions are naturals; links are addresses;
no listing changes while somebody searches), `SearchAssumption` (pages are not
empty, and not longer than the API allows), `ShopfrontAssumption` (areas are finitely
many, a list on a page is not longer than a page of the search) and `PhotoAssumption`
(photos are finitely many numbers, `None` is no number). `Site` is several components that
share little, so it has an invariant for each:

* `FirstLooksAreCurrent`: `Spec => []FirstLookIsCurrent`. `CacheInv` follows an
  answer from the API to the cache: it is at least as new as the last hint, or it
  was read before that hint, and then it is marked `late` before it is stored.
* `UntouchedFormsChangeNothing`: `Spec => []UntouchedFormChangesNothing`, of two
  parts. `RoundTrip` is about the data: the UPDATE of the patch of the form of a
  row is that row, if the form can express it (`Expressible`). `FormInv` is about
  the colleagues: as long as nobody else has saved the listing, it is what the
  form was filled from.
* `GridsShowTheGallery`: `Spec => []GridShowsTheGallery`. What the page shows is
  not right all the time, so `GridInv` says when it is going to be
  (`ShownInOrder`): unless a new order is under way, the grid shows the gallery,
  or a refresh that brings it is owed or arriving; and, because the component
  only notices a list that differs from the one before, if the last list handed
  down *is* the gallery then the gallery is shown already. That a removal cannot
  make the two agree by chance needs where ids come from: none is used twice
  (`ListsInOrder`, `RemovalInOrder`). That an order leaves the table as it was sent
  needs it to be alone (`OrderAlone`) and the display order to be a bijection of
  the rows with an initial segment (`DisplayIsAGallery`, by counting, for any ties).

* `SearchesShowWhatMatches`: `Spec => []SearchShowsWhatMatches`. That the SQL and
  `MockProvider` agree is about one row and one query (`RowsAgree`, a conjunct at a
  time); that what ORDER BY allows is what the stable sort allows, about two rows
  (`OrdersAgree`). `SearchInv` adds that what is shown was answered for the address
  shown. Free text that a row has nowhere but at the beginning of its reference code
  finds it in both or in neither (`TextsAgree`), and the default status of the
  reference changes nothing where no closed listing matches (`DefaultIsHarmless`).
* `WalksSeeEverything`: `Spec => []WalkSeesEverything`. Two orders that satisfy ORDER
  BY are the same (`OneOrdering`: at the first place they differ, each of two rows
  would have to come before the other), so pages that were answered at different
  times are pages of one order, and put together are its beginning (`PagesAddUp`,
  `Walks`); the last page is the one that reaches the end (`LastPage`).
* `PagesAlwaysAgree`: `Spec => []PagesAgree`. The inductive part, `CatalogInv`, is
  small: rows stay what their columns are declared to hold, whatever forms write
  (`WrittenStaysListed`), so that ids tell them apart (`Identified`). What is hard is
  that such a table always has the orders the pages are cut from: a strict total order
  of a finite set puts it in line, each element at its rank (`OrdersPutInLine`, by
  counting), so `CHOOSE` finds what ORDER BY returns (`NewestFirst`, `SortedIs`,
  `SinceIs`). Then, per page: a list is a beginning of the first page of the search
  behind its link, whose filters are those of the page (`BehindLinks`, `NewestOpen`);
  the two medians are one for every length (`MediansAgree`); listings, each in one
  area, add up to the total over the areas (`SumsAddUp`); and the own listings for sale
  stand in front of the sold record, so that 60 of either query show as many
  (`FrontIs`, `OwnListingsAgree`).

### Model-checked only

* `RequestsAnswered`, `EnquiriesSettle` and `SiteCatchesUp`: liveness under
  fairness is beyond the proof system.

## Known divergences

Shown by a run of their own (`findings` in `PROJECT.json`):

* `token_burn`: `revokeFamily` is one UPDATE and works from its own snapshot; a
  rotation that has the lock, or takes it before the UPDATE reaches the row,
  commits a successor the UPDATE never sees. The session outlives the logout or
  the detected reuse. `RevocationIsComplete` shows that nothing else is missed.
* `contact_lockout`: `contact-auth.service.ts:86-88` argues that no contact can
  hold a phone without an identity; lead intake makes such contacts, and their
  first sign-in fails on the unique index.
* `removed_stays`: `revalidate-site.ts:7` says a lost hint costs 60 seconds. For a
  listing that has been taken off the site it costs any length of time: the kept
  page is refetched in the background, the API answers 404, which the cache does
  not keep, and the old page is served again. `SiteCatchesUp` shows that every
  other page does catch up.

Met while modelling, and set aside in the property that would otherwise fail:

* A load sent before a login and refused after it is answered by deleting the
  cookies the login has set (`proxy.ts:105-110`): the user who has just signed
  in is signed out. `SessionSurvives` counts a browser as signed in from a login
  that no other request of that browser overlapped. Logging in again leaves the
  session that was there alive in the table.
* A load whose exchange could not reach the API is treated as refused
  (`proxy.ts:75-76`), so an outage of the API signs out whoever loads a page;
  `SessionSurvives` sets it aside.
* Two sends that overlap both find the cooldown over and leave two live codes
  (`otp.service.ts:97-123`); `SendsInTurn` asks that none have overlapped.
* A crash after the comparison gives the attempt back, as increment and
  comparison are one transaction; `otp.service.ts:145-147` says otherwise.
  `AttemptCap` counts the comparisons that were not cut off.
* Two uploads of the same bytes that overlap both become READY
  (`media.service.ts:91`); `OneReadyPerContent` names the contents concerned.
* Two contacts that link one address at the same time: the second replaces the
  first one's secret (`contact-auth.service.ts:235-249`); `PasswordIsItsOwners`
  names the addresses concerned.
* A listing created as sold has no `closed_at` until its status is saved again
  (`listing-write.repository.ts:68-109`); `ClosedAtTracksStatus` names it.
* A connection that drops after the lead was stored is reported as a failure, and
  the retry stores it twice (`submit.ts:27-31`); `DuplicatesWereReportedLost`
  says that this, or the API dying there, is the only way.
* An acknowledgement that dies with the API, or whose outcome cannot be written,
  leaves nothing on the trail; so does an error in `findOrganizationName`, which
  is only logged (`lead.service.ts:134-149`). A message recorded as `failed` may
  have been delivered, and more than once (`outbound-message.service.ts:70`).
* Two status changes that overlap on one lead are recorded in either order; one
  that fails between its two transactions is not recorded (`lead.service.ts:217`),
  and is taken back on the screen although it was made. A colleague's change
  reaches an open queue only when it is loaded again: `LeadRow` keeps its state.
* A fetch the API answered before `revalidateTag` and the cache stored after it
  is kept as fresh; `FirstLookIsCurrent` sets looks at such an entry aside.
* Searching for villas finds flats, as the database has no such type
  (`enum-maps.ts:46-56`); an upper bound on the area, or a lower bound of 0
  (`minSqft=0` in a shared address), excludes a listing without one in the API
  (`listing.repository.ts:188-193`) and not in `MockProvider`
  (`mock-provider.ts:580-582`). `Differs` names these, and the next two.
* Free text (`q`) has two meanings, although `mock-provider.ts:553` says that the API
  "must match". The API looks for words in the title and description, for the
  text in the name of the locality or project, and at the beginning of a reference
  code (`listing.repository.ts:127-142`); `MockProvider` for the trimmed text
  anywhere in the address, reference code, slugs and remarks
  (`mock-provider.ts:606-618`). `q=mohali` finds every listing of the city in the
  one, and in the other those whose title or description, locality or project says so;
  `%` and `_` are wildcards in the API alone. `ReadsDifferently` names every text
  that some listing on the site has anywhere but at the beginning of its reference
  code; of the others, a quoted code or its beginning among them, the property is
  checked and proved.
* With no status chosen, `MockProvider` shows active, under-offer and coming-soon
  listings (`mock-provider.ts:663-666`), the API the host's closed ones too. The
  property covers such an address as long as no closed listing matches the rest.
* A page number past the end is answered with a total of 0, and one that is not
  positive, or a filter the API refuses, with "No property matches", as is an
  outage (`api-provider.ts:118-136`).
* The form cannot show RENTED, WITHDRAWN or another status without an option of
  its own: it shows Draft, and saving makes it so (`ListingForm.tsx:396-404`).
  `priceOnRequest` has no field and is lost on every save. `Expressible` names
  both, and a listing created as sold, which gets its closing date on this save. An emptied title, maintenance or furnishing is left as it was and "Saved."
  is shown. Two editors overwrite each other's forms as a whole.
* Two orders sent from a grid before the first is answered are applied in either
  order, and one that fails is not taken back on the screen
  (`PhotoManager.tsx:109-122`). Two uploads that overlap, or an upload and a
  reorder, may give two photos one `sort_order` (`media.repository.ts:83`).
* Checked with one request at a time because overlap breaks them: the price
  history of two overlapping edits (`listing-admin.service.ts:198-203`); two
  creations at one plot (`property.repository.ts:61-109`).

Not expressed by a property:

* `area.ts:8` says that who typed "10 marla" is never shown "2722.5 sq ft". The
  area is the property's, and `findOrCreate` drops what is entered for a plot that
  is known (`property.repository.ts:68`): its page has the area the way the first
  broker entered it, to whoever lists it next. `ShownAsEntered` shows that it is
  never anything but what somebody entered.
* Only the status ACTIVE passes the publication gate; a listing created or moved
  to under-offer or sold is public as well (`listing-admin.service.ts:98`,
  `enum-maps.ts:105`), although README.md:77-78 says publication is blocked.
* Removing a photo that never became READY deletes its original alone and leaves
  its variants in the bucket (`media.service.ts:203`; `storage-keys.ts:26`).
* All visitors share one limit of ten submissions a minute, as the API sees the
  address of the web server (`lead.controller.ts:42`); the same holds of the
  catalog's and the staff login's limits.
* An enquiry about a listing key that is not a UUID is answered with 500
  (`create-lead.dto.ts:107`).
* The map view asks for 300 listings where the API allows 100, and is always
  empty (`search/page.tsx:48`, `search-listings.dto.ts:218`).
* Two filters clicked before the page has rendered again: the second is applied to
  the address before the first (`SearchFilters.tsx:56`). `Pagination` and
  `ViewToggle` drop repeated parameters. A saved search keeps its page number.
* A price on request still shows in the instalment calculator and on the map
  (`listings/[listingKey]/page.tsx:238`).
* The index of area guides says "For sale 0" of an area with one to four listings
  (`localities/page.tsx:100`); `/listings` shows rented listings as currently for
  sale (`listings/page.tsx:24`); the home page counts listings under offer as
  active; area and city pages list the host's closed listings as for sale. Types
  the site cannot show are counted in the figures (`enum-maps.ts:58-73`); the
  median of closed deals is given below five, unlike in `MockProvider`; the form
  sends no closing price, so that figure has no source but the API itself.
* After a save that is refused React resets the form for a new listing: all but
  the price is gone, and a second click sends the defaults, a kothi in the centre
  of the city (`ListingForm.tsx:113`, `actions.ts:49`).
* A creation that fails after `findOrCreate` leaves a property without a listing,
  which goes on describing its plot to whoever lists it next
  (`listing-admin.service.ts:103-130`).
* A price typed as a bare "1.45" is accepted, as one rupee and 45 paise
  (`money.ts:105`, against the concern at `actions.ts:104-108`).
* An update that read ACTIVE reactivates, without the gate, a listing that
  another request has closed in between (`listing-admin.service.ts:174`).
* A registration that lapses leaves its listings public and its number printed
  (`listing.repository.ts:101-103`), although `rera.repository.ts:34-36` calls
  that a false claim of registration.
* An enquiry whose phone is one contact's and whose email is another's is
  refused by a unique index and not stored (`lead.repository.ts:49-56`).
* Reopening a listing that has a close price, without clearing it, is refused
  by `listing_close_only_when_closed`.

## The plan

The system is modelled, and every safety invariant and action property a run checks
is a theorem. What remains is liveness, which is checked on small instances, and the
parts listed as not modelled.

## Running

`tlc -workers 2 -config Otp.cfg MCOtp` checks one configuration;
`PROJECT.json` lists them all with their modules. `tlapm OtpProofs.tla` checks the
proofs of one module, and so for the other seven whose names end in `Proofs`;
`AdminSessionProofs` and `LeadDeskProofs` take the longest, some minutes each.
