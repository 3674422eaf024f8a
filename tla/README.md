# Specifications of the apartment app

TLA+ modules for the iOS app in `src/Apartment/Apartment` (about 12,000 lines of
Swift), the TLC configurations that check them and TLAPS proofs about them.
Everything else under `src/` is vendored (`Apartment/Pods`), generated, or drawn
(storyboards, assets); of it only the steps of three libraries that change what
the app shows are modelled. The app has no tests and no documents; what it
promises is read from its notices, alerts, labels and comments.

## 1. The system

One navigation controller shows one screen at a time; a screen is a view
controller `VC_*` with an extension `P_*` holding its requests. `TBC_MAIN`
carries the main tabs `TBC_0`, `TBC_1`, `TBC_2`, `TBC_4`. Screens reach each
other through `APPDELEGATE`: global lists of the session (`OBJ_LOGIN`,
`ALLMENU`, `OBJ_SOSIK1`, `OBJ_PARKING`) and references to screens (`VC_SOSIK_DEL`,
`VC_COMMUNITY_DEL`, `VC_COMMUNITY_1_DEL`, `TBC_2_DEL`, ...) through which one
screen reloads another or changes an entry of its list. `UserDefaults` keeps the
session (`mb_id`, `home_code`, ...) over launches.

**How it runs.** Gestures and the completion handlers of requests run on the
main queue, each to its end: a handler is one action. What interleaves is the
order of handlers. Every request has the same shape: clear or mark something,
return early with a notice if `S_NETWORK()` fails, send, and in the completion
handler work on whatever the screen holds *by then*. No answer is matched with
its request, none is cancelled, and the closure keeps its screen alive after it
was left. Answers come in any order, fail after 5 s, or are JSON of another kind.

| Component | State | Operations | Interacts with | Hard behaviour | Correct when |
|---|---|---|---|---|---|
| Sign-up `VC_AUTH`, `P_AUTH` | fields, buttons, `SIGNCHECK`, `OBJ_AUTH`, boxes, stored `mb_id` | ask for a code, check it, agree, sign in | `UserDefaults`, session | edits and answers crossing; relaunch | the number signed in is the one shown and verified |
| Session `P_LOADING`, `VC_SETTING`, `AppDelegate` | session lists, `UserDefaults`, topics | load, sign in, log out, push | all screens | two loaders at once; logout under a request | home screen, storage and topics are of one account |
| Board list `VC_SOSIK`, `P_SOSIK`, `VC_COMMUNITY_1`, `VC_MEDICAL` | rows, `PAGE_NUMBER`, `FETCHING_MORE`, the tab | open, scroll, reload, change tab | write, article, groups | reload and page crossing, lost page, another tab's page number | rows of the tab, in order, none missed, lock released |
| Calendar `S_CALENDAR`, `VC_SOSIK`, `P_SOSIK` | entries, the list shown, the cell's copy, the month and day | swipe to a month, tap a day | the calendar view, the table's drawing | an answer between a tap and the drawing; two months' answers | the list is of the month and the day shown |
| Article `VC_SOSIK_1`, `P_SOSIK_1` | article, comments, field, `POSITION` | open, comment, leave | counts rows of the list referred to | stale position, late answers | counts are of the right row, comments as sent |
| Write `VC_WRITE`, `P_WRITE` | files, buttons, alert | attach, submit | file store, reloads boards | partial uploads, lost answer, retry | one article per tap, with the files shown |
| Parking `VC_PARKING*`, `P_PARKING*` | one list under three tabs, paging, labels | change tab, page, delete, register | labels of `TBC_2` | answers of another tab | rows of the tab, the tapped visit deleted |
| Groups `VC_COMMUNITY*`, `P_COMMUNITY` | two sections, a page's copy of one of them | page, join, leave, open | board of the group | stale position, cancelled swipe | sections and page tell the membership |
| Elevator `VC_ELEVATOR*`, `P_ELEVATOR*` | calls, the sheet's floor | load, call | label "no data", reload from the sheet | each answer reverses the list; sheet and screen left before the answer | calls newest first, with the one just made |
| Monthly bill `VC_EXPENESE*`, `P_EXPENESE` | bills under two tabs, month | tab, month | label "no data" | answers of two months cross | the bill of the month shown |
| Chargers `VC_EVCAR`, parcels `VC_DELIVERY*`, contacts `VC_CONTACT` | a list; the form's companies and draft | tab, register | label "no data" | answers of two tabs; form used before its companies arrive | one answer, to what is selected |
| Media `S_IMAGE`, `S_BASE`, `VC_SOSIK_TC` | what each view shows, loads, stored documents | draw a cell, download, open | image and download libraries, the phone's documents | a view used again under a load; names that meet; failed downloads; restart | a view shows its own item, the file chosen is opened |
| Other lists (family, safety, facilities, cameras, restaurants) | last answer | load | label "no data" | as contacts | one answer |
| Location of children, choosing the home | - | - | - | no code starts them | - |
| Card, menus, drawing | - | - | - | none | - |

`PROJECT.json` lists all components with what is modelled of each, and the
hazards at their lines.

## 2. Modules

| Module | Models | State and actions |
|---|---|---|
| `BoardList` | a board's list (`VC_SOSIK`, `P_SOSIK`; the same code serves a group's articles, and, with two tabs, hospitals and pharmacies in `VC_MEDICAL`) | `OBJ_SOSIK`, `PAGE_NUMBER`, `FETCHING_MORE`, `MN_POSITION` as in the code; `inflight` requests, answered in any order, `board` on the server. Actions: the scroll, the reload, another tab, an answer of each kind, a post by somebody else |
| `Calendar` | the schedule menus of `VC_SOSIK` with the cell `S_CALENDAR` | `OBJ_SOSIK` (loaded), `OBJ_CALENDAR` (shown), the cell's copy and whether the cell is to be drawn again. Actions: a swipe, a tap on a day of the month or of a neighbour, the end of the calendar's movement (which selects a day by itself), the drawing, an answer |
| `Media` | `SDWEBIMAGE`, `SDWEBVIDEO`, `DOWNLOAD` | what each view was given and shows, loads under way, documents by name, downloads. Actions: a cell drawn, a load ended or failed, a download asked for, stored, opened, failed, a restart |
| `Submission` | abstract: what writing promises | a tap publishes at most one article, with the files of that tap; the screen closes only on success |
| `ArticleWrite` | `VC_WRITE`, `P_WRITE` | buttons, `FILE_DATA`, `FILE_UPLOAD`, the alert; uploads, addresses, the post and its answer are steps of their own, each with its faults. `INSTANCE Submission` is the refinement mapping |
| `Auth` | `VC_AUTH`, `P_AUTH` | fields, `SIGNCHECK`, `OBJ_AUTH`, boxes, what is stored; answers in any order; relaunch |
| `Session` | `P_LOADING`, the home tab, logout, topics | global lists, stored account, topics, loaders (one per loading screen) |
| `Parking` | `VC_PARKING`, the form's request, the labels | `OBJ_PARKING`, `MN_POSITION`, paging, labels; the server's visits |
| `Community` | `VC_COMMUNITY`, `VC_COMMUNITY_1` | the sections `L1`, `L2`, the open page and its copy, membership on the server |
| `Article` | `VC_SOSIK_1` over the home tab, a board, groups | the lists it counts in and the references to them, the pages opened, comments on the server |
| `Lists` | the screens that load whole lists: `VC_ELEVATOR`, `VC_EXPENESE`, `VC_EVCAR`, `VC_DELIVERY`, `VC_CONTACT`, with their sheets | the screens opened, each with its selection, rows and sheet; the one label `NODATA_L`; calls and parcels on the server. Actions: open, leave, tab, month, sheet, call, register, and an answer of each kind to whatever screen sent the request |
| `SelectedList` | what a screen with one list promises, abstractly; `BoardList` and `Parking` implement it, and each screen of `Lists` does | what is selected, the rows shown, whether a request is unanswered, whether requests crossed |
| `X_proofs` | theorems about `X`; those about `Auth` are in `ArticleWrite_proofs`, those about `Media` in `Article_proofs` | |
| `MCX` | constants too large for a `.cfg` | |

A request is a record in `inflight` with what it was sent with. The server's
step fills in the answer from the server's state; the completion handler is a
separate step, so that answers may be read at one time and applied at another.
Variables called history in a module's comments (such as `edited`, `crossed`,
`lost`, `overlapped`, `astray`) are read by properties only: they remember that
the resident did what the property excludes.

Modelled as external (no source here): the servers, the file store, the system's
notification service. Names, texts and pictures are model values. `Calendar` and
`Media` map a few definitions to the libraries' source, where the app's state
changes there: which day `CVCalendar` selects by itself and when, which load
`SDWebImage` cancels, where and when `AFNetworking` stores a file.

## 3. Runs

Bounds are constants named in each module: numbers of requests, pages, taps and
posts. They are set so that a reload, a page and a stale answer fit together,
which takes three or four requests; and lists are a page and a half to two pages
long, so that first, middle and last page differ.

| Run | Question | Bounds |
|---|---|---|
| `board_pages` | reloads, tabs and posts among pages: tab, order and uniqueness of the rows, implements `SelectedList`, one request at a time until the first reload, no article missed from the first page down, the lock released | 2 tabs of 11 articles, pages of 5, 4 requests, 1 post on each tab |
| `board_nomore` | **violated**: "no more data" (`P_SOSIK.swift:90`) while there is | 9 articles, pages of 4, 4 requests, no posts |
| `write_faults` | implements `Submission` under every fault; sent is what is shown; no article twice unless an answer was lost; the alert has a reason, and ends | 2 files, 2 submissions |
| `write_type` | **violated**: the type on the button is the one sent (`P_WRITE.swift:45`) | 1 submission |
| `auth_sign` | the number signed in, the account stored, the buttons and the tick drawn, no session without login | 2 numbers, 2 requests at a time |
| `session_faults` | home screen, stored account, a complete logout (session and topics) with every fault; loading ends | 2 accounts, 8 loading screens |
| `parking_tabs` | implements `SelectedList` (rows of the tab); deletion of the tapped visit, the lock's request, labels after one change | 4 visits (a full page), 4 requests |
| `community_groups` | sections and page tell the membership; the crash needs a crossing | 3 groups, pages of 1, 5 requests |
| `article_pages` | the position stays its row, counts never ahead, no crash for a careful resident; comments shown as sent, once | 2 articles, one of them deleted, on 2 boards and in a group; 2 pages opened, 3 requests |
| `lists_screens` | a list is one answer to what is selected, in order, with all that the resident was told of; "no data" never covers rows; each screen implements `SelectedList` | 2 screens, 2 sheets on each, 3 requests, 2 months |
| `calendar_months` | what is listed is loaded, of the month named, and of the day chosen | 3 months, 2 days in each (one of them today in one month), 2 entries on one day, 3 requests |
| `media_cells` | a view shows its own item; the document opened is the file chosen | 1 view, 4 items (2 pictures, a video, no address), 3 loads; 3 files, 2 of one name, 3 downloads |

`NoArticleMissed` speaks of the articles from any one of the first page down.
That no article lies unshown between *any* two shown ones is false of this code
for a board that grows by more than two pages while it is paged: a later page is
then wholly above the first one, and leaves out articles posted between the two
(with pages of 4 rows TLC finds it after 9 posts, and not after 8). With the few
posts of the run the two say the same; what paging by offset promises for any
number of posts is the first, and that is what is proved.

Deadlock is checked of the calendar and the media, where something can always
happen; in the other runs not: they end where a bound is used up or the app has
crashed, and a resident may always stop. Every property of a passing run has a
mutant in `PROJECT.json`, a definition changed as a plausible bug would, that
breaks it.

**What the properties exclude.** The code promises most things only to a
resident who does not cross its own requests; a property then says precisely
which crossing is harmful, by a history variable, and holds in all other
behaviours. `InServerOrder` excludes requests unanswered together, which
`OneRequestAtATime` traces to a reload (`reloaded`); `NoDuplicate` excludes an
answer lost on the way (`lost`), `AlertHasReason` and `AlertEnds` a failed upload
and a malformed answer (`Stranded`);
`SignedNumberIsRight` an edit under an unanswered check; `HomeOfSession` two
loaders at once, `LogoutIsComplete` also an answer without the records
(`lacking`);
`KeepsSelection` of the parking a tab entered over an unanswered list or
deletion, of the board and of the other lists what `InServerOrder` and
`ListIsOneAnswer` exclude; `LockHasRequest` a page asked for without a network (`unsent`),
`LabelsAfterOneChange` a lost answer (`lost`); `PageTellsMembership` a page opened or left over an unanswered change;
`CarefulIsSafe` a comment sent before the article
is there or answered after the page was left, and articles opened by a picture
or from a group; `ListIsOneAnswer` a list emptied while its earlier request was
unanswered (`crossed`), `NoDataIsTrue` the bill's second tab without a network
(`kept`); `MonthShown` a month asked for over an unanswered one (`crossed`),
`DayShown` a day chosen before its month was loaded and drawn (`chosen`);
`ShowsItsOwn` an item given to a view over a load that nobody cancels, and a
failed thumbnail (`astray`), `FileIsTheOneChosen` another body answered under the
file's name (`arrived`). The excluded behaviours are in the model, and go wrong there as
they do in the code.

**Fairness.** Weak fairness is assumed of answers only: Alamofire ends every
request within its timeout (`timeoutIntervalForRequest = 5`), with an answer or an
error. In `ArticleWrite` also of uploads and of the file store's addresses, which
have no timeout in the code: an upload that fails strands the screen, and
`AlertEnds` says so. No gesture is assumed to happen.

## 4. Proofs

Proved by TLAPS for every value of the constants that satisfies the module's
`ASSUME` (TLC evaluates it in each run):

| Theorem | Of | Statement |
|---|---|---|
| `TypeCorrect`, `ListInServerOrder`, `LaterRowsShownOnce`, `ReadOnlyNeverOverlaps`, `PagingLockKept`, `PagingMissesNothing`, `BoardKeepsSelection` | `BoardList` | types, order, uniqueness, one request at a time, the lock, no article missed, the refinement |
| `ArticleTypeCorrect`, `ArticleCountsInItsRow`, `CarefulResidentIsSafe`, `CommentsShownAreTrue` | `Article` | types, the row counted in, no count ahead and no crash, comments |
| `WriteTypeCorrect`, `AttachmentsShown`, `AlertAlwaysHasReason`, `RetriesDoNotDuplicate`, `WriteImplementsSubmission` | `ArticleWrite` | types, the files, the alert, retries, the refinement |
| `AuthTypeCorrect`, `SignedNumber`, `LoginStoresOwnAccount`, `ScreenTellsTruth`, `SessionNeedsLogin` | `Auth` | types, number, account, buttons and terms, login |
| `SessionTypeCorrect`, `NoticeButtonsStayRight`, `ShownAccountIsStored`, `SessionIsOwn`, `LogoutLeavesNothing`, `LoadingIsAnswered` | `Session` | types, buttons, account, logout, a request for every wait |
| `ParkingTypeCorrect`, `TabsKeptApart`, `LockIsReleasable`, `DeletionIsOfTheTappedRow`, `FirstChangeIsLabelled`, `ParkingKeepsSelection` | `Parking` | types, tabs, lock, deletion, labels, the refinement |
| `CommunityTypeCorrect`, `PageIsTrue`, `CrashOnlyAcrossPages`, `SectionsAreTrue` | `Community` | types, the page, the crash, the sections |
| `CalendarTypeCorrect`, `EntriesShownAreLoaded`, `ListIsOfTheMonth`, `DayChosenIsShown` | `Calendar` | types, dots, the month, the day |
| `ListsTypeCorrect`, `ListShowsOneAnswer`, `NoDataTellsTruth`, `ListsKeepSelection` | `Lists` | types, one answer, the label, the refinement |
| `MediaTypeCorrect`, `ViewShowsItsOwn`, `OpensTheFileChosen` | `Media` | types, views, documents |

`ArticleWrite_proofs` extends `ArticleWrite` and `Auth`, and `Article_proofs`
extends `Article` and `Media`: two components with no constant or variable in
common. That is why the specifications of `Auth` and `Media` are named `AuthSpec`,
`AuthInit`, ... and `MediaSpec`, `MediaInit`, ...; the proofs about either of two
such components use the `ASSUME` of that component only.

Each component has one inductive invariant, `IInv` (`SignInInv` of `Auth`,
`MediaInv` of `Media`; `Parking`, `Community` and `BoardList` have others over
the first, for their last theorems). The properties are not
inductive by themselves, because what an answer will do is decided when it was
sent; the invariant adds what is known of the requests on their way:

- `BoardList`: a request's rows are of its tab and page, in the server's order
  (`RowsOfPage`), and no page beyond those scrolled to is under way
  (`PagesReached`, `LaterPagesOnce`, `OneAhead`). For `NoArticleMissed`: an
  article's number, its page and its place tell how long the board was when the
  row was served (`Top`); rows on their way were served no earlier than those
  shown, and each page shown is shown to its end (`ListOfBoard`), so that a later
  page begins at or above the place below the one before.
- `Article`: two halves that do not look at each other's variables. The comments
  (`CommentInv`): a comment under way is the field's text and alone unless
  crossed (`FieldIsSent`), and its name is either shown or under way, not both
  (`ShownOrUnderWay`). The counts (`CountInv`): the row of the article shown has
  room for every answer that will still count in it, as a cardinality
  (`RoomForAnswers`), and the lists referred to follow the screens (`References`).
- `ArticleWrite`: `FILE_UPLOAD` counts exactly the files whose address is known
  (`Counted`), which is what makes comparing two numbers (`P_WRITE.swift:75`) mean
  that all files are there; and what an earlier tap left on the server or on its
  way there is of a tap whose answer was lost (`LeftBehind`).
- `Auth`: unless the number was edited, unanswered checks and records are of the
  number shown (`ChecksOfShown`, `RecordsOfShown`).
- `Session`: unless two loaders overlapped, the lists hold at most the session's
  records (`AloneInv`), and topics are of records held (`TopicsInv`).
- `Parking`: unless a tab was entered over a request, everything under way is of
  the tab shown (`OfTab`). For the labels: between the server's first change and
  its answer the labels are those loaded, and exactly one request is under way
  that will set them right (`LabelsTruth`). For the refinement: unless a tab was
  entered over a request, a list of cars or passages has at most one request,
  over no rows (`OnceOnly`).
- `Community`: unless a change crossed, the page's copy agrees with the list and
  the answers on their way agree with the server (`ListTruth`, `PageTruth`). For
  the sections: at most one list is under way, over an empty section of joined
  groups, and the others are places of one listing up to the page reached
  (`SectionsTruth`).
- `Calendar`: unless crossed, what is loaded and copied is nothing or the
  month's, and a month under way is alone over empty lists (`MonthLoading`); no
  answer can come after a day that was chosen with none under way
  (`ChosenIsQuiet`).
- `Lists`: a list that was not emptied over an unanswered request has at most one
  under way and is then empty; the request asks for what is selected, and was
  sent when the server had all that the resident was told of (`ScreenInv`); only
  screens that opened a sheet have requests that are not lists (`RequestOK`), which
  is why their answers never take the label from the first screen.
- `Media`: the loads of a view given its item over no other load are that item's
  (`OwnTasks`), and what lies at a path was answered under its name
  (`StoredArrived`).

TLC checked each of these invariants on the component's run before it was proved.

**The list of the selection.** The app has one way of showing a list: empty it,
ask, append what comes. `SelectedList` says what that is to achieve, with four
variables: a list is emptied (`Ask`); rows of what is selected arrive at its
end while a request is unanswered, once or page by page (`Receive`); nothing
else touches it, unless the resident asked over an unanswered request (`Cross`,
`Confused`), and then the promise holds again from the next time the list is
emptied with nothing unanswered. Three components of different shape implement
it: a board paged by offset (`BoardKeepsSelection`), three tables of which one
is paged, in one list that deletions and registrations reload
(`ParkingKeepsSelection`), and any number of screens alive at once, whose
delegates make them reload (`ListsKeepSelection`). It is more than the
invariants that rows are of the selection (`TabShowsItsRows` of the parking
follows from it): a list whose rows change places or go without all of it, or
that takes two answers where one is due, breaks it although every row is of the
right tab. Each refinement needs the component's inductive invariant before the
step; that of `Lists` is carried through the lemmas of the actions together
with the invariant (`GoodStep`), since both follow from how an action touches
one screen. There the quantifier over screens stands inside the action (`[][\A
i : [Selected(i)!Next]_...]_vars`): a step is a step or a stutter of every
screen's list at once.

**Waits.** Liveness is checked by TLC only, but what it rests on is proved: a
wait always has something under way that will end it. `LoadingIsAnswered` is that
for the loading screen, `PagingLockKept` and `LockIsReleasable` for the locks of
paging, `AlertAlwaysHasReason` for the alert of an article that is sent.

**Induction over data.** The provers cannot instantiate the library's induction
theorems, which take an operator. Where a proof needs induction it uses instead
that a set of numbers which is not empty has a least element (`LeastNatural`, from
`WFMin` and `NatLessThanWellFounded`), applied to the set of counterexamples: that
`RowsOfDay` yields the entries of a day and no others (`RowsOfDayIsTrue` in
`Calendar_proofs`; the definition is a recursive function for that reason), and
that among the screens of a kind there is a last one, the delegate (`LastExists`
in `Lists_proofs`). What `Reverse` does to a list follows from its definition
(`ReverseConcat`, `ReverseIs`).

Assumed and not proved: nothing beyond the named assumptions on constants.
Only model-checked: liveness (`LockReleased`, `AlertEnds`, `LoadingEnds`), which
needs fairness and `ENABLED` and is beyond TLAPS here, and the two runs that end
in a violation. Every other property of a run is a theorem.

## 5. Assumptions and what is not modelled

- `S_NETWORK` is a nondeterministic Boolean.
- Lists are longer than the screen when they have as many rows as the code asks
  for before it pages; a scroll to the end is one gesture.
- `BoardList`: posts come on top; the server answers a page by its rows at that
  time; a resident who looks for hospitals does not move while paging (the server
  orders by distance).
- `Calendar`: the server takes no month for this month; entries have a date and a
  time (the code takes the parsed date without looking); the phone is in Seoul's
  time; gestures on a calendar that moves (half a second) are ignored.
- `Media`: addresses are valid and of files that `DOWNLOAD` accepts; a load
  cancelled sets no image, also one that is handed over at that moment; a body of
  any status is stored. Loads and downloads that never end are those that stay
  under way.
- `ArticleWrite`: no gesture interleaves with the modal alert; a push that
  replaces the whole screen meanwhile is not modelled.
- `Session`: what a push leads to, weather, menus, bills and updates are left out;
  a tab screen made by a loader that is off the window is never drawn.
- `Parking`: the session counted the home's visits when it started; the form may
  be left before its answer.
- `Community`: a list answer has all the joined groups and one page of the others,
  in one order.
- `Article`: the resident is a member of the group; answers with lists show the
  newest articles or lack the newest one.
- `Lists`: screens are opened from the main tabs; the months are those of the
  picker; a list grows on the server by what is put on the screen only; the floor,
  the company and the number of a parcel are left out, as are alerts. A form
  whose draft is discarded closes at once, not half a second later.

**Where the app disagrees with itself, beyond the two violated runs.** The box
for all terms (`VC_AUTH.swift:113`) toggles by a state of its own, which the single
boxes do not change: when one of them was unticked, and the tick beside "all" with
it, tapping "all" takes the other agreement back as well. A picture
in a row (`VC_SOSIK_TC.swift:113`) opens its article without a `POSITION`, so that
the reading is counted on the first row, although a row's label
(`VC_SOSIK.swift:169`) tells of its own article; `CarefulIsSafe` excludes pictures
for that. A download without a network ends the app (`S_BASE.swift:125`):
`DownloadFails` is that step.

**Not modelled.**

- `Apartment/Pods`: more than 4,000 files of libraries in C, C++, Objective-C and
  Swift (gRPC, BoringSSL, Firestore, Alamofire and others). They are no part of
  this program's logic: a model of them would be a model of the libraries. What
  the app depends on is in the modules as an answer, a failure, or one of the
  three libraries' steps above.
- Code nothing reaches: the location of children (`S_LOCATION`: the stored
  `mb_type` it asks for is never written), choosing the home (`VC_INPUT`,
  `VC_SEARCH`, `VC_DONGHO`: `VC_AUTH.swift:150` is commented out), the screen of a
  facility (`VC_RESERVE_1`: `VC_RESERVE.swift:101` is commented out),
  `VC_FAMILY.DELETE_B`, which is empty.
- Handlers whose effect depends on which cells UIKit has drawn (`FAMILY_B` of
  `VC_SAFE`), and what only draws its last answer: the card, menus, weather, the
  camera's page, maps, colours, fonts, animations, notices.
- Formats of dates and numbers (`S_DATE`, `S_TEXT`, the masks of `S_BASE`).

## 6. Plan

Done: every component that keeps state or shares it with another, each with a run
over all its operations, and a proof of every safety property and action property
that a run checks.

Left, in this order:

1. Compositions: `Article` with `ArticleWrite`'s reload and `BoardList`'s paging.
2. The masks of phone numbers (`S_BASE`) as a pure function against a definition
   of what they mean, its loop proved by the least counterexample.

New properties take the place of shallower ones, or are merged with those they
belong to, so that each run keeps to a few questions.
