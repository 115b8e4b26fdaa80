# Verification of 私のマップ (Watashi no map) and of the Realm that keeps its pins

私のマップ is an iOS application in Swift: a map on which the user puts titled
pins, with a search bar, a theme and a tutorial. The program's own code is
`src/Desktop/leaning/leaning/` (about 2,500 lines of Swift). The repository also
holds the sources of the database that the application is built with, Realm's
ObjectStore in C++ (`src/Desktop/leaning/Pods/Realm/Realm/ObjectStore/src/`, with
its headers in `Pods/Realm/include/`). Both are modelled here: the application's
screens, and the parts of the ObjectStore where threads, callbacks and several
versions of the data meet.

In sections about the application, file names are relative to its directory and
`VC` is `ViewController.swift`. In those about Realm they are relative to the
ObjectStore's `src/`.

All of the application runs on the main thread. What makes it hard is the order
of handlers: MapKit asks for views when it likes, search and geocoder answers
come when they come, the user can touch one panel while another one is on the
screen, and the process can be killed between two transactions. The handlers
communicate through a dozen properties of one object, most of them written by
several handlers.

The ObjectStore is hard in the classical way: an event loop, a worker and any
number of application threads meet in objects with a mutex each, call each
other's callbacks with the mutex released, and go on afterwards with what they
had read before. And it tells of changes by indices, which every later change
makes other indices.

## 1. Inventory

### The application

| Part | State | Operations | Hard behaviour |
|---|---|---|---|
| Map (`VC` 413-545) | the annotations of `mapView`, one shared marker `annotation`, the selected annotation, `pincoordinate`, `pintitle`, `pinimage` | `mapLongPressed`, `didSelect`, `viewFor` | `viewFor` writes the coordinate and title that the open panel will use; `didSelect` unwraps a database row by force |
| Sliding panels (`VC` 264-311, 546-678) | `panel1`, `panel2`, `hidePanelBtn` and their buttons, known by their frames | `deletePins`, `hideDeletingPanel`, `detailOpen`, `hideDetailPanel` | one property for the crosses of two panels; replaced panels stay on the screen |
| Edit form (`VC` 712-843, `EditView.swift`, `ChoosePinCollectionView.swift`) | the text, `createBtn.isEnabled`, `isExistingPin`, `UserSetting.pinColor` | `showEditView`, `Create`, `hideEditView`, typing, choosing an image | one form for new pins and changes; its button is enabled and disabled by four handlers |
| Database of pins (`Objects.swift`) | `PinItem` rows | written by `Create`, `deletePin`, `deleteAllPins`; read by `viewDidLoad`, `didSelect`, the search bar | kept equal to the map by hand |
| Theme (`SettingView.swift`, `VC` 339-410, `AppDelegate.swift`) | `ThemeColor` and `UserPin` rows, the statics of `UserSetting`, the buttons of `SettingView` | choose, cancel, `changeSetting`, launch | five transactions per save, any of which may be the last |
| Search table (`VC` 845-1031) | `searchCompleter`'s results, `Pins`, `pincount`, the rows of `tableView` | typing, the completer's answers, cell requests, row selection | rows, results and pins are read at different times |
| Search answers (`VC` 896-936) | the shared marker's place and title | `MKLocalSearch`, `CLGeocoder` callbacks | answers in any order, after the user has gone on |
| Tutorial (`PageViewController.swift`, `TutorialView.swift`) | the page, the page control, timers | paging, OK buttons, back to the map | another `ViewController` on top of the old one each time |
| Advertisement, location updates, cells, scene delegate | - | - | not modelled, see section 8 |

What makes the parts correct:

* map and database always hold the same pins, at most one for each place, each
  with a title and an image of the chooser, never at the coordinate (0, 0);
* the edit form starts empty for the next pin, whatever way it was left;
* the two panels exclude each other and can be closed;
* what the detail panel shows, deletes and changes is the pin that was tapped;
* the theme that is shown is the theme that another launch would show, and no
  launch finds a database it cannot read;
* a row of the search table leads to what the row shows.

### Realm's ObjectStore

| Part | State | Operations | Hard behaviour |
|---|---|---|---|
| Session of a synchronized file (`sync/sync_session.cpp`) | one of four states, the client's `sync::Session`, the functions that wait for upload or download, a close and a commit that were put off, counters of deaths and resyncs | revive, token refresh, commit notification, waiting, `close`, `log_out`, `update_configuration`, errors, client reset | waiting functions are moved out under the mutex and called after it; `handle_error` and a resync take the mutex more than once; completion handlers of earlier `sync::Session`s come late |
| Registry and users (`sync/sync_manager.cpp`, `sync/sync_user.cpp`) | the map of sessions, the external references that keep them in it, the user's sessions and those waiting for a login | `get_session`, dropping the last reference, `unregister_session`, `log_out`, login | two mutexes, taken in both orders; a session that is being ended is asked for again; looking at a reference makes one |
| Callbacks of a notifier (`impl/collection_notifier.cpp`) | the vector of callbacks, `m_callback_index`, `m_callback_count`, `m_have_callbacks`, the changes of each | add, remove, package, before and after advance, error | callbacks are added and removed from within callbacks, in the middle of the loop over them |
| Coordinator, worker, Realm (`impl/realm_coordinator.cpp`, `impl/results_notifier.cpp`, `shared_realm.cpp`, `impl/transact_log_handler.cpp`) | the two lists of notifiers, the version to skip, each notifier's version and rows, the Realm's transaction | `on_change`, `run_async_notifiers`, hand-over, `advance_to_ready`, `process_available_async`, `refresh`, `begin_transaction`, commit with and without notifying, `invalidate` | worker, Realm and other writers each have a version of their own; transactions begin and end inside callbacks |
| Change sets (`impl/collection_change_builder.cpp`) | deletions, insertions, modifications, moves, the mapping of a table's rows | one operation per instruction of the transaction log, the end of the log, `merge`, `calculate` | each index is of the old or of the new numbering, and merging renumbers all of them |
| Deep change checker (`impl/collection_notifier.cpp` 29-167) | the path it is on, the rows it knows not to be modified | one question for each row of the results | what it remembers of one question answers the next, although it goes four links deep at most and into no cycle twice |
| Index sets (`index_set.cpp`) | ranges in chunks, each chunk with begin, end and count | add, shift, insert, erase, remove, their versions for whole sets, counting | each operation trusts what the others have cached |
| Results, lists, objects, schema; metadata, files, partial sync, permissions; core; the Cocoa binding | - | - | not modelled, see section 8 |

How they meet: a commit makes the session announce it and the coordinator's
worker run. The worker's notifiers read the change sets out of the transaction
log, merge and translate them, and hand them to the callbacks' accumulators. The
Realm's thread packages those, advances and calls. A session leaves the registry
with its last external reference, or when its user logs out.

What makes them correct:

* a function that waits for an upload is called once, and is called at all; a
  dying session ends when, and only when, its changes are uploaded; an active
  one has announced every commit;
* there is one session for a file: who refers to one refers to that; and a user
  can reach it to log it out;
* a delivery calls those callbacks it was packaged for, once each, whoever is
  added or removed meanwhile (but for one of them, for each callback that is
  both);
* a callback is told of each change once, at the version its Realm is at, unless
  it asked to be spared it;
* deleting and inserting at the told indices turns what was shown into what is
  there, and what changed in place is marked, also when several transactions
  are told at once.

## 2. Modules

| Module | Models |
|---|---|
| `PinBook` | abstract: a book with at most one pin for each place and the map that shows it; `Save`, `Erase`, `Clear` |
| `Panels` | operators on the record of the two sliding panels and their shared cross |
| `MapScreen` | map, panels, edit form, database of pins, relaunch: one action per handler |
| `TapHistory` | `MapScreen` with a record of what the user tapped and what the panel shows |
| `Settings` | the theme: panel, statics, database, `changeSetting` transaction by transaction, kill and launch |
| `SearchTable` | the search bar and the table of candidates: typing, the completer, cells, scrolling, selection |
| `SyncSession` | a session: its states, waiting functions, completion handlers, errors, client resync |
| `SessionRegistry` | manager, external references and user of one file, with both mutexes |
| `Delivery` | abstract: a delivery as sets of callbacks still to be called |
| `CallbackList` | the vector of callbacks with its index and its count; implements `Delivery` |
| `Notifiers` | worker passes, packaging, advancing, the transactions of one Realm and of others |
| `IndexSets` | abstract: what each operation of an index set computes, on sets of numbers |
| `ChunkedIndexSets` | how it computes it, on ranges in chunks |
| `ChangeSets` | the builder, fed by the instructions of a transaction log, and `merge`; uses `IndexSets` |
| `DeepChanges` | the checker that follows links to say whether an object was modified |
| `QueryChanges` | `calculate`: what a notifier of query results makes of a table's change set; extends `ChangeSets` |
| `MapScreenProofs`, `ViewControllerProofs`, `SyncSessionProofs`, `SessionRegistryProofs`, `CollectionNotifierProofs`, `NotifiersProofs`, `ChangeSetsProofs`, `QueryChangesProofs` | the theorems; `ViewControllerProofs` is about `Settings` and `SearchTable`, `CollectionNotifierProofs` about `CallbackList` and `DeepChanges` |
| `MC...` | the instances TLC checks; `MCChangeSets` puts `QueryChanges`, `ChunkedIndexSets` and `DeepChanges` together |

Definitions that a comment calls flawed, or a mutant, are variants of the one that
follows them, as a plausible mistake would have it. No specification uses them;
they are there to show that the properties can tell the difference.

### How `MapScreen` reads the code

One action stands for one handler with everything it calls. Two database
lookups by the strings of a coordinate (`VC` 447-450, 794-795) and the
comparison of annotations by their two numbers (`VC` 689-692, 782-786) are both
"the pins at a coordinate": `String(Double)` gives the digits that read back as
the same number, so they agree (for -0.0 and 0.0 they do not; no finger points
there). `realm` and `onMap` are sequences of pins per coordinate, not sets of
coordinates, so that nothing in the model keeps a place from having two rows or
an annotation without a row: that it never happens is `OnePinPerPlace` and
`MapShowsRealm`.

`screen` is what takes the user's touches. The edit form, the image chooser,
the settings and the alerts cover everything else, so a touch action names its
screen; the callbacks of MapKit, of searches and of the completer only need a
loaded map (`MapLoaded`), and fire below alerts and forms.

* Annotation views are never registered under the identifiers `viewFor` asks
  for, so `dequeueReusableAnnotationView` finds nothing and each `viewFor` runs
  `setupCustomView` or `setUpMKAnnotationView`, which write `pincoordinate`
  (`ViewForPin`, `ViewForMarker`).
* `annotationViewSetting` gives every view the shared marker as its annotation
  (`VC` 524); MapKit sets the right one before the view is shown, which
  `didSelect` then reads.
* The chooser's button also targets a `ViewController` made on the spot
  (`ChoosePinCollectionView.swift:48`) that nobody keeps. Whether its
  `changePin` runs is left open: `CloseChooser` has both outcomes.
* `detailOpen`'s test for a previous panel compares with a height of
  `Screen.w/2` (`VC` 553) and never holds: `ShowDetail` has no such branch.
* A memo is copied wherever the title is and read by no guard: the title stands
  for both.
* A replaced panel or cross stays on the screen with its target and action:
  `stale` and `orphan` in `Panels`.

### How `Settings` reads the code

`changeSetting` (`VC` 360-410) writes the statics, then deletes the colours,
adds three, and replaces the name of the user's dot: five `realm.write` blocks,
five steps (`ChangeSetting` starts, then `ClearTheme`, `AddColor` three times,
`SaveUserPin`). `Kill` may come between any two. `Launch` is
`didFinishLaunching` followed by the first `SettingView`: with one or two rows
the remaining slots hold `UIColor()`, whose `cgColor` traps. Storing prints
seven digits and reading goes through `Float`, so a colour that was read back is
not the colour that was stored: `Rounded`.

### How `SearchTable` reads the code

Rows are numbered from 0 as in the code. A reload (`numberOfSections`,
`numberOfRowsInSection`, then `cellForRowAt` for the rows in view, which makes
the table visible) is one step; rows further down are filled when the user
scrolls. `pins` and `pincount` change while the user types, `results` when the
completer answers, `rows` at a reload, so a row may be filled or selected with
arrays of another time; an index out of range sets `trapped`. `goal` records
what a selection led to, the region of a pin or the text of a search, in the
same form as a cell records what it shows. That a reload fills the rows on top, and
not those the table was scrolled to, is assumed of UIKit. The table is a part of the same
`ViewController` as `MapScreen`; the two meet in `ReloadTable` and `SearchMap`
there, which `MapScreen` allows at any time, so every behaviour of the table is
covered.

### How `SyncSession` reads the code

Everything between taking and releasing `m_state_mutex` is one step. What the
code does after the release (calling the functions it moved out, the second half
of `handle_error`, the loop of `update_configuration`, reviving after a resync)
is a later step of the same thread: `calling` and `next` say what a thread still
has to do, and other threads take steps in between. The sync client's event loop
is a thread of its own, `Loop`. Its `sync::Session` is outside of the sources and
modelled by what its header promises: a completion handler runs with success
once all that was announced when it was registered is uploaded, or is cancelled
when its session is gone, in any order with the rest.

`wait_for_download_completion` differs from its upload twin in which handler the
client is given and is not modelled a second time. Progress notifiers and
connection listeners are left out; of tokens and server addresses there is only
that a session needs one.

### How `SessionRegistry` reads the code

`m_session_mutex` of the manager and `m_mutex` of the user are variables, since
calls into one are made with the other held; a session's own mutex is held within
a step only. The model has one file and one user, so the maps have at most one
entry each. A thread between two steps keeps a pointer to its session (`on`),
which keeps it alive. What sessions do with the client is left to `SyncSession`:
here a session is live, live with a close put off, dying or inactive, and the
event loop ends one whenever it likes. A `SyncSession::ExternalReference` counts
itself in `refs`; the last one that goes calls `did_drop_external_reference`,
wherever it happens to be.

### How `CallbackList` and `Delivery` read the code

Positions count from 1 and 0 is `npos`, which `++` takes to the first position as
it does in C++. `m_callback_count` is unsigned and `remove_callback` decrements
it at all times: outside of a delivery it wraps, to `Huge`. One step of the
Realm's thread is what `for_each_callback` does between two releases of the lock:
look for the next wanted callback, or end the round. The three rounds (before,
after, error) differ in whom they want.

A callback that is added during a delivery and removed in the same delivery lies
beyond `m_callback_count`, which is decremented all the same. Nothing in the code
keeps a user from that, and nothing in the model does. The history variables say
how often it happened since the count was set: `firstNew` is the token that was
next then, and `undone` counts the removals of tokens from it on.
`ShortByTheUndone` says what that costs: the count is the number of callbacks that
were there when it was set and still are, less `undone`, so each of these removals
takes the last due callback out of the delivery. When there are more of them than
callbacks left, the count has wrapped around. Then the assertion at the head of
`for_each_callback` fails in a debug build (`AssertionFails`), and in another the
loop runs beyond the vector, where the model ends (`stage = "outside"`).

`Delivery` has no positions: sets of callbacks that are still to be called before
and after the Realm advances, and the set of those it covers. Removing one that is
not covered takes some other one along (`RemoveUncovered`), or, when there is none,
nothing is promised until the delivery is over. `KeepsItsPromise` maps the
positions from the index to the count to these sets.

### How `Notifiers` reads the code

A change set is the set of the versions whose commits made it, so that "told
twice" and "never told" can be said; what a change set holds is `ChangeSets`'
matter. A notifier has at most one callback; the list of them is `CallbackList`'s.
The worker's pass is cut where `run_async_notifiers` takes and releases
`m_notifier_mutex`: choosing the versions (`RunAsyncNotifiers`), running the old
notifiers up to a commit that is to be skipped and handing over (`pass = "skip"`,
`HandOverSkipVersion`), running all of them up to the newest and handing over
(`pass = "last"`, `HandOverLast`), telling the Realm (`TellRealm`).

Running is cut once more, for each notifier, where it reads `m_have_callbacks`
without a lock: `AddRequiredChangeInfo` (`results_notifier.cpp:93`) decides
whether the log is looked through for modifications (`tracked`), `NeedToRun`
(`:104`) whether the notifier runs at all, `CalculateChanges` (`:120`) whether
changes are computed. `stage` says how far each notifier is; the log is gone
through between the first and the second, for all of them at once, so all have
asked before one runs. A notifier that computes changes without having asked finds
what came and went, and of the modifications nobody knows: any part of the changes
is what it may find. Callbacks are added and removed between any two of the steps.

The Realm's thread is in `Refresh`, `BeginTransaction` (both
wait for the notifiers, `Advance`), in `Notify`, in a callback (`sending`), or in
the user's hands; a write transaction may begin inside a callback
(`BeginWhileSending`). Core's transactions are external and modelled from their
use: a version, which commits increase by one, and one writer at a time.

History variables say what a callback was told of or spared (`settled`), what it
asked not to be told of (`asked`), and name the situations in which the code
makes no promise: the Realm was moved behind the notifiers' back (`moved`), a
notifier rested although there were changes (`rested`), the callback was added
between the question for modifications and the hand-over of a run, so that this
run may have missed some for it (`late`; the loss itself is the run
`no_change_is_missed`), a notification fell into a write transaction
(`swallowed`).

Not in the model: a callback added to a notifier that is there already while its
Realm is in a write transaction (without a notifier, `prepare_async` throws), or
while it waits for the worker (its thread is then in the coordinator); releasing
the results in such a wait; and more than one callback of a notifier. A callback
may be removed at any time. `add_callback` wakes the worker before it sets the
flag; it holds the callbacks' mutex for both, which a hand-over needs, so a worker
that was so early finds a callback that is `late`.

### How `ChangeSets`, `QueryChanges` and the index sets read the code

Entries of a collection have an identity, which the code does not: it sees
indices, and the properties compare what the indices say with which entry is
where. One instruction of the transaction log is one action with the builder's
operation that `transact_log_handler.cpp` makes of it. The end of the log is
`CompleteParse`; `Merge` adds the transaction's change set to those before. Those
of a list are merged as they come (`add_changes`); those of a table are kept and
merged from the last one on (`advance_to_final`), which matters because `merge`
is not associative in the form of its results.

* Modifications per column are computed as the modifications are, and left out;
  so are transactions in which moves are not tracked.
* `clear_table` does not know how many rows there were: its deletions are all
  indices that there can be, which here is up to `MaxSize` and in the code has no
  end: `merge` of such a set into one that is not empty, whose loop over the
  indices would not end either, is not looked at.
* `merge_rows` only comes as a row that was just inserted taking over an older
  one, which is then erased: `MergeRows` is all of it.
* Results are compared after one pass over the log, of however many transactions:
  `ResultsAreDescribed` is about the builder when the log has been read
  (`stage = "parsed"`) and about the entries of that pass (`mid`, `touched`). The
  worker takes the notifiers of results that have run on in one pass
  (`realm_coordinator.cpp:820-843`), and merges nothing for them; what it merges
  for a list or a table would not be enough, as the change set of a table merged
  from two passes does not say of every row where it is.
* `calculate` looks a row's move up with `lower_bound`, among moves that
  `parse_complete` has put in order. `LowerBound` is that search. If it missed one
  the row would be told as deleted and inserted, which is right as well: nothing
  that is claimed depends on the order. `NPos`, the code's greatest `size_t`, is an
  index that no row has.
* `find_longest_matches` calls itself for what is before and behind a match, less
  of `a` each time. `Matches` is that, as many levels deep as `a` has rows.
* Where blocks of the same length compete, the code prefers the one with fewer
  modified rows but counts them in a range that is off; and `find_longest_matches`
  compares `i` with `end2` where `end1` is meant. Both are modelled as they are,
  and cost nothing but a choice.

`ChunkedIndexSets` has the ranges, the chunks with what they cache, and each
operation as a pass over them. `OperationsAgree` starts every operation from every
index set up to a bound in every way it can be chunked and compares with
`IndexSets`, results and cached values. Two known exceptions are definitions of
their own: `CountLeavesOut` (`count` from inside of a chunk into the next leaves
out that chunk's first range) and the counts of chunks that the builder has to
add in `add_shifted_by`.

`DeepChanges` is `DeepChangeChecker`. What it does a level further is a parameter of
what it does at one, and the levels are put together from the last one, which the
length of the path allows, to the first. A checker is asked about one row after another and remembers
those it found unmodified. `CheckersAgree` does not try sequences of questions: it
asks one question of a checker that knows any rows it may rightly know, and
requires the answer to be right and what it knows afterwards too, which covers
every sequence. `m_current_path` is not initialized, and keeps what the last
question left, so the levels that are not in use hold the worst (`AnyPath`).
`LinksOnlyToItself` is the case that is left out: `get_modification_checker` has a
shorter way when there is one related table, which is also so for a table that
links to itself, whose links it then does not follow.

## 3. Runs

| Run | Shows | States |
|---|---|---|
| `tap_history` | `MapScreen`'s inductive invariant and what follows from it, that it implements `PinBook`, and that the detail panel describes the tapped pin and only the tapped place changes, as long as only taps chose it | 822,164 |
| `settings` | the stored theme is the shown one, never a fourth colour, a finished save is complete | 186,978 |
| `search_table` | a visible table has the pins it counted; an answered one shows its candidates, and its rows lead to them | 17,513 |
| `sync_session` | nobody who waits is called twice, forgotten or left without a handler, a dying session has a handler that will end it, no commit goes unannounced | 1,526,017 |
| `sync_dying` | a session that dies, is revived and dies again ends only when its last death is uploaded; it does end; who waits is answered | 168,514 |
| `session_registry` | who refers to a session refers to the registered one; a logged out user has none running; the user reaches it; calls end but for two lock-ups | 177,606 |
| `callback_list` | `CallbackList` implements `Delivery`; the count is short by exactly the callbacks added and removed again in the delivery; who woke the worker up is called, unless it is one that this costs | 110,229 |
| `notifiers` | every change is told once, at the right version, is spared only those who asked, and is told in the end | 1,521,464 |
| `change_sets` | change sets, alone, merged and translated for queries, turn the rows of before into those of now; index sets agree with their definition, and so does the checker that follows links | 294,548 |
| `delete_removes_tapped_pin` | violated: tap, `viewFor` of another pin, delete: the other pin goes | - |
| `unregister_finds_session` | violated: two threads end the same session, the second finds nothing registered | - |
| `no_change_is_missed` | violated: a callback added while the worker is between asking for changes and handing over, and called before the hand-over, misses changes of that run | - |

A violated property is what a comment or an assertion of the code says; each is
a finding with the line quoted in `PROJECT.json`.

### Bounds

`MapScreen` has two places, so that there is a pin that was tapped and another
one that was not, and a place for the marker besides a pin; two titles and two
images, so that a copy from the wrong pin shows; the coordinate (0, 0) comes on
top. One search at a time is under way (`MaxSearches`): a search only moves the
marker, and two of them in a row do what two answers in the other order do.
Places and titles are symmetric (no definition tells two of them apart); images
are not, one of them is the default. `Settings` has two colours that lose digits,
with what they become, and two of the three names of the dot. `SearchTable` has
at most two pins and two results for a text and a window of two rows, so that
there are rows of both kinds, rows out of view, and results behind pins.

`sync_session` has one application thread beside the event loop: what two
application threads do in one step each is done by one in any order, and only the
loop of `update_configuration` and the calls after it take several steps, which
interleave with the event loop. Two waiting functions make one that finds another
in the list; two `sync::Session`s give a handler of an earlier one; one commit,
one death and one resync are enough for each to meet everything else. The case
of two deaths, which the death count is for, is `sync_dying`'s, with one
function. `session_registry` has two application threads, as each of the two
mutexes needs somebody waiting for it while a third thread is the event loop, and
two sessions, so that a new one meets the end of the old. `callback_list` adds
four callbacks, so that one can be removed before, at and behind the index with
one more to go. `notifiers` has one notifier and two commits, versions 2 and 3,
both of which change what it watches: one to be skipped and one not, one packaged
and one accumulated. Its safety properties also hold with three commits
(9,556,163 states).

`change_sets` starts from three rows with room for a fourth, which gives
insertions before, between and after, and moves across a row in between; four
instructions in up to four transactions reach merges of merges, and moves of what
was moved. (With five instructions the properties hold as well, when the change
sets of a table are merged in the other order too.) Chunks hold two ranges and
indices go to 4, so that there are three ranges, two chunks, and a full one that
splits; with 5 and with 6 they also agree. The code's chunks hold 4 ranges in
debug builds and 256 in others; nothing depends on the number but that it is
even. The checker's path has 3 levels, one less than in the code, and two rows in
each of two tables: so a row can be out of its reach, which with four levels only
a fifth row could be, and cycles and lists are longer than it goes. All graphs of
three schemas are tried, and any modified rows; the proof is for any graph and any
length of the path, with `LinksOnlyToItself` left out.

Every bound is a constant named `Max...`, used in guards only, and `Touching` and
the sets of threads and values are constants too.

Deadlock is checked in the passing runs of the application. Those of Realm end
where their bounds do, or in the failed assertion and the lock-ups they name, and
switch the check off; `CallsEnd`, `DyingEnds`, `WaitsEnd`, `WokenAreCalled` and
`ChangesAreTold` are what remains of it there.

## 4. Fairness

The application: none is assumed, and no liveness is claimed. Every step waits
for a touch, for MapKit, for a network answer or for the system, and the code
itself promises none of them. The steps the code does take on its own (the
transactions of `changeSetting`) run to their end within one handler unless the
process is killed, after which nothing needs to happen.

* `SyncSession`: a call that has begun goes on (weak fairness of each thread's
  `Continue`; it waits for nothing but a mutex that is held within steps); the
  client uploads what it was told of; and the completion handlers that can run do
  so in the end, however often the event loop does something else: the header of
  the client says that "as long as the client's event loop thread is running, all
  completion handlers will be called". This is strong fairness since handling an
  error keeps the event loop busy again and again. Nothing is assumed of errors,
  tokens, users.
* `SessionRegistry`: each thread's `Continue` is strongly fair: a thread waiting
  for a mutex gets it if it is free again and again.
* `CallbackList`: a posted notification is run by the thread's run loop, and
  callbacks return (`Deliver`, weak).
* `Notifiers`: the same (`Deliver`), the worker runs (`Work`), a process that has
  committed notifies the others (`NotifyOthers`), and write transactions end.
  That the user refreshes or calls anything else is not assumed.

## 5. What is proved

All theorems hold for any sets of places, titles, images, colours, threads,
functions, notifiers and versions, and any bounds, from the named assumptions of
the modules.

### The application

`MapScreenProofs`. No safety property of `MapScreen` is inductive alone.
`NoTrap` needs that every annotation has its row (`MapShowsRealm`); that needs
that a coordinate has no more than one row (`Create` deletes one row but all
annotations); `NothingSavedAtOrigin` needs that a button leading to
`pincoordinate` appears only after an annotation was touched (`PlaceIsChosen`);
`NoUntitledPin` needs that an enabled button of an open form vouches for its text
(`EnabledMeansTitled`), which needs that a detail panel shows a titled pin
(`PinWasTapped`); `EditFormIsReset` needs nothing else but makes the form of the
plus button empty. `Inv` is the conjunction, a part of the `HistoryInv` that the
run `tap_history` checks, and proved inductive with one step for each action. The
theorem `MapScreenImplementsPinBook` maps each step to a `Save`, an `Erase`, a
`Clear` or a stutter, with the rows of a place read as their first one.

The same module has the theorems about `TapHistory`. `DetailShowsTappedPin` and `OnlyTappedPlaceChanges` follow from
`HistoryInv`: the map screen's `Inv`, and three facts on what the taps left. As
long as only taps chose the pin, `pincoordinate` is the tapped place (`TapPlace`),
and a selected pin is the tapped one, stored, with its title in `pintitle`
(`SelectedIsTapped`); no detail panel is below the edit form
(`NoDetailUnderForm`), so saving cannot change the pin that a panel describes.
A step that writes none of this and opens nothing keeps all of it (`QuietStep`),
which leaves taps, the detail button, saving and the two ways to delete.

`ViewControllerProofs`, about `Settings`: `ThemeIsStored` and `AtMostThreeColors` need how far a save has
come (`SaveProgress`), that a running application has three colours
(`ColorsAreSet`) and that what was read back survives another round of storing
(`RowsAreRounded`); `SaveStoresThePanel` follows from the same invariant.

The same module, about `SearchTable`: `Pins[indexPath.row]` in `didSelectRowAt` is in range
because a visible table has the pins it counted (`VisibleTableHasItsPins`);
that needs that `Pins` is either what was found or empty since a selection
(`FoundOrEmptied`), and that a reload with counted but missing pins traps
before it shows anything. The rows of an answered table follow from a lemma
on the concatenation of pins and results.

### Realm

`SyncSessionProofs`. `WaitersAreKept` and `WaitsAreAwaited` need that only the
event loop handles errors and resyncs and that no handler knows of a later resync
(`ResyncsAreCounted`); `DeathIsAwaited` and the action property
`DiesOnceUploaded` need the same of deaths (`DeathsAreCounted`): that the count a
handler captured is the last one identifies the `sync::Session` as well.
`CommitsAreAnnounced` needs what the announcement rests on while the session is
not active (`CommitsAreRemembered`); both have an exception, a commit made while
the session was dying or inactive, which nobody hears (`unheard`).
`PutOffIsNotImmediate` is why the token's answer carries out a close without
having to end the session at once.

`SessionRegistryProofs`. `ReferencedIsRegistered` says that there is one session
for a file although `unregister_session` removes whichever is there. It is
inductive with who holds which mutex at which step (`MutexesAreHeld`): between
finding a session and taking a reference to it the manager's mutex is held, and
the check for references in `unregister_session` is under the same.
`RegisteredIsKnown` and `LoggedOutIsQuiet` are about states in which all calls
have ended; what they need of every other state is where the registered session
is known while somebody works on it (`Kept`): in the set of the user's sessions,
in the one that waits for his login, or, while his mutex is taken for a logout,
with the thread that took it out of there. From when `register_session` is
through, the registered session stays kept (`RegisteredIsKept`); a thread that
will revive a session has found it kept (`RevivedIsKept`); and it runs only where
the next logout finds it (`RunningIsKnown`), unless a thread that found the user
logged in revived it after he was logged out (`late`). `UserIsConsistent` ties
the two sets to the user's state and to his mutex.

`CollectionNotifierProofs`, about `CallbackList`, for any number of callbacks and
any order of adding and removing them. The invariant has that tokens are new
(`TokensAreNew`), that those a delivery was packaged for come before those added
since (`PackagedFirst`), that the index is set only in a round (`AtIndex`), that
there are changes only for those who are there (`NoneForOthers`), and
`ShortByTheUndone`; it gives that property (`AlwaysShortByTheUndone`),
`HaveIsExact`, and the refinement: `KeepsThePromise` maps each step to one of
`Delivery`'s or to a stutter. That the count is kept exact by a removal rests on
how many of the packaged ones are left when a position is taken out
(`PackagedFirst` makes them a prefix); the lemmas on that and on the next wanted
position carry most of it. What it needs of `Huge` is that a count that has
wrapped around is greater than any number of callbacks.

The same module has the checker that follows links. A row counts as modified if a
modified row can be reached from it by fewer links than the path is long; where a
checker does not have to look any further, there is no invariant to be kept, but
what it knows must be right after each question. The proof is by induction over the
levels of the path. At each level it says of the answer: a yes is right; if it is a
no, although a modified row is a number of links away, then some row on the path
above is as near to one, or the path is about to end, and every level from there on
is marked (`Blocked`); and what is remembered as unmodified is so for the whole
reach, not only for what is left of it. The marks are what the last part rests on: a
row that was cut off must not be remembered. They are read on the levels in use
only, since the path still has levels of earlier questions. A row with a modified
one in reach has a least number of links to it, and on the way of that many links no
row comes twice, so that the path above cannot be what hides it. The tables that a
checker looks at come from a search through the schema, which is shown to find all
that are linked with as many rounds as there are tables. `CheckersAreRight` is about
any question to any checker that knows nothing wrong, `CheckersAlwaysAgree` is
`CheckersAgree`, which the run `change_sets` looks at before the first instruction
(`DeepChangesAreFound`), for any graph; both leave `LinksOnlyToItself` out, where
the code does not follow links.

`NotifiersProofs`. `Inv` has, besides types and the properties themselves: the
worker runs what it took from the two lists (`ListsAreExact`); notifiers that
have run are at one version, never past a commit that is to be skipped
(`VersionsAgree`); a writer is at the newest version and nobody else commits
(`TransactionsFit`); only a notifier that has run has anything for a callback
(`CallbacksFit`); the worker is busy with those it has taken, and looks for
modifications for every callback that was there in time (`StagesFit`); the rows a
notifier compares with are as good as those of the version it is at, or has just
been run to (`HasReached`), and what it has found is what changed since, all of it
unless the callback is `late` (`RowsAreCurrent`); nothing of a later version is told, also before the first
call (`NothingTwice`); a notifier is behind its Realm by the Realm's own commit
at most (`InStep`); and a mark to skip is there for the commit it was set for
(`SkipsAreAhead`). From these follow `DueAgreesWithRead`, `TellsExactly`, and the
action properties `DiscardsOnlyWhenMoved` and `SparesOnlyTheAsked`. `TellsExactly`
is what everything else is for: `Call` adds the package to what was told, and
only with the version of the package known to be that of the notifier when it
was packaged is nothing added twice.

`ChangeSetsProofs`. For a list or a table of any size, any number of instructions
and any number of transactions: `DescribesTheChange`, `ModificationsAreExact` and
`MovesAreMoves`. The proof goes in layers, down to `ListInv` for lists and after
it for tables, which are merged as lists are.

* Index sets. What shifts an index is `Unshift` of a set, which determines the
  set; `InsertedAll` and `ErasedAll` compose as it does (`InsertedAllLaw`,
  `ErasedAllLaw`), and `Shift` undoes it. These hold by induction over natural
  numbers, from the well-founded minimum of a set of them (`LeastOf`).
* Collections. Two of them are `Lined` by the indices that were deleted in one
  and inserted in the other when the entries that stay are the same in the same
  order; then leaving out what does not stay leaves the same sequence
  (`LinedLeavesTheSame`), which is `DescribesTheChange`. `InsertAt` and `RemoveAt`
  are given by where the other entries go.
* `Tells` is what a change set has to keep while it grows, and is stronger than
  the three properties: rows in no move and no insertion are lined; the moves are
  of different rows, and each is told as deleted and as inserted; a row that has
  stayed or was moved is marked exactly if it was modified. The marks of moved
  rows are in no property, but a row that was moved may be back where it was at
  the end, and then its mark counts.
* The instructions. Each of `Modify`, `Insert`, `Erase`, `Move` and `Clear` keeps
  `Tells`, most of them by one lemma (`Carry`) on what happens to a change set when
  some indices are deleted and some inserted after it.
* `CleanUpStaleMoves`, by induction over the moves: a row deleted and inserted
  with as many rows before it has stayed (`StaleLined`), and because each move is
  judged by what those before it have left, taking one out leaves the others
  right.
* `MergeInto`, which is where most of the work is: `FollowLaw` is an induction
  over the moves of the earlier set, with what has been joined, carried on and
  dropped so far, while the later set's moves are taken out one by one with the
  last put in their place. `AllMovesLaw` and `AllModificationsLaw` put the result
  together, and `Carry` does the rest.
* `ListInv`: the transaction's change set tells of the list since it began, the
  merged one of the list before that. `Clear` counts the rows there were from the
  deletions and insertions so far, which needs that the deletions are of rows
  that existed; and `Modify` marks one row, which needs that rows are different.
* The instructions of a table. Its rows are not shifted: what is told neither as
  deleted nor as inserted is where it was, and `TableTells` says so, with each
  entry of the mapping from a row of then to the same row now. A row that comes to
  an index is one that stayed there or one the mapping knows (`RowFrom`), by which
  `CarryRows` keeps `TableTells` through `move_over`, `swap`, `subsume`, new rows
  and `clear`. `merge_rows` and the erasing that follows it are one step, after
  which the rows are the same with another mapping; between the two `TableTells`
  does not hold. `clear` deletes more indices than there were rows, which is why
  only a list's deletions are all of rows that existed.
* `ParseComplete`. The mapping has one entry for each row and is finite, for it
  goes one to one into the insertions (`MappingLaw`); `ByFrom` puts it in order by
  counting the entries from rows before (`ByFromLaw`); and what was taken out as
  having stayed is where it was. What is left `Tells`.
* `Chained`. The change sets of several transactions on a table are kept apart
  and merged from the last on. There are collections between them, from one to the
  next of which each of them tells; `MergeSteps` takes the fold apart, and by
  induction from the last set back the merged one tells of all.
* `TableInv` and `ListInv` together are `CollectionInv`, the inductive invariant:
  each is kept by the other's instructions because a collection keeps its kind.

`QueryChangesProofs`. `ResultsAreDescribed` is for any rows that matched a query
before and any that match now. It rests on `CollectionInv` and on `QueryInv`,
which says two more things of a table while its log is read: a row that is not
told as inserted is where it was (`InPlace`), and without a swap a row only ever
goes to the front (`Sinks`).

* `NowAtLaw`: where a row of before is found now, it is. That a row which is there is
  always found is not needed.
* Results are in the order of the table or of a key: `Ordered` counts, and by
  `OrderedLaw` it puts each entry once, in the order of the keys. `InOrderLaw` and
  `ByKeyLaw` are the two uses, in which no two entries have the same key.
* What is left of both results, without the rows that only one of them has, has the
  same rows (`Comparable`); and two sequences with the same distinct rows that are
  matched in pairs which do not cross are, without the others, the same. So it
  comes down to rows that stay and do not cross (`Matched`, `MatchedIsLined`).
* `calculate_moves_unsorted` goes through the rows of now. Its invariant
  (`Unsorted`, kept by `MoveStepLaw`) is that the rows it has let stay are in order
  and that `expected` is the place behind the last of them, not counting what has
  been taken out. A row that is no candidate stays without being looked at any
  further. That it was before all that come after it (`SettledOrder`) is where
  `InPlace` and `Sinks` are needed: it is where it was, and a row that is behind it
  now has not come there from before it.
* `calculate_moves_sorted` looks for blocks. `LongestMatchLaw` says that what it finds
  is a block of both within the box it is looking in, whichever it prefers, which is
  also what the code asserts of it; `MatchesLaw` that the blocks before and behind it
  are in order with it (`InLine`), by induction over the levels. All of them in
  line with each other give a matching (`Lining`, `LiningIsMatched`), and
  the rows that are in no block are those that are told as deleted and inserted
  (`KeptLaw`). It finds something to keep or not: that the blocks are the longest is
  not needed, and not claimed.
* `TellsWhen` and `LocatedLaw` lead from the rows back to the indices that are told.

`ResultsAreAlwaysDescribed` is the property in every reachable state.
`SortedIsAlwaysDescribed` goes beyond it: it is about any two sequences of distinct
rows, in whichever orders, and any rows told as modified.

## 6. What is only model-checked

* Liveness: `DyingEnds`, `WaitsEnd`, `CallsEnd`, `WokenAreCalled`,
  `ChangesAreTold`.
* `IndexSetsAreKept`: `ChunkedIndexSets` uses RECURSIVE operators, which the provers
  cannot look into. So that the change sets are right is proved for index sets
  that are what `IndexSets` says, and that these are is checked on small ones.
* That every action can happen, that the passing runs of the application do not
  deadlock, and the violated properties, which are counterexamples and need no
  proof.

### Statements that do not hold

Three of them have a run of their own. Others are definitions beside the
properties, or properties with one condition taken away, for a reader who wants to
see the trace. Where a property is about what holds outside of a bad ending that
the code can reach (`trapped` in `SearchTable`, `Stuck` in `SessionRegistry`,
`undone` in `CallbackList`), that ending is documented by its name and not kept
out by the property:

| Definition | What breaks it |
|---|---|
| `TapHistory.ModifyChangesTappedPin` | tap, `viewFor` of another pin, change: the other pin is replaced |
| `TapHistory.PreviousDetailPanelHidden` | the detail button twice |
| `TapHistory.DeletePinsHidesDetailPanel` | detail, then the delete-pins button; a cross stays |
| `Settings.LaunchNeverTraps` | save, kill after the first colour, launch |
| `Settings.CancelForgetsTheChoice` | choose, cancel |
| `SearchTable.UpdatedResultsAreShown` | select a row while the completer is still busy with a text that saved pins contain |
| `SearchTable.TextRowIsSearched` | a result below a saved pin is selected |
| `SyncSession.OkMeansUploaded` | a second function joins the list after the first one's handler was registered, and is called with it |
| `SyncSession.AdvanceChangesState` | the session is logged out between the two halves of `handle_error` |
| `CallbackList.WokenAreCalled` without `undone > 0` | a callback whose adding woke the worker up is the last of a delivery in which another one is added and removed again |
| `Notifiers.SuppressedIsNotTold` | a write transaction begun inside a callback and committed without notifying, while a worker pass is on its way: the hand-over of that pass takes the mark to skip away before the commit, which is then told |
| `QueryChanges.ResultsAreDescribed` without `~swapped` | a table of five rows, results the first three; `swap_rows` of the first and the last, and of the second and the fourth: the results come in the reverse order, and as the one in the middle has stayed, `calculate_moves_unsorted` takes a row that passed it for one that stayed too. With fewer than five rows it does not happen |
| `DeepChanges.CheckersAgree` without `~LinksOnlyToItself` | two rows of a table that links to itself: the other is modified and the first counts as unchanged |

Other things the models show and no property is about: a resync puts its
functions back over those registered meanwhile, which are lost; a notifier whose
results nobody looks at rests, and its rows then make it tell changes twice;
packages are discarded when the Realm was moved by its user; a notification that
falls into a write transaction which is then cancelled is lost until the next
commit. Two lock-ups are named in `SessionRegistry.Stuck`. In the index sets,
`push_back` of the builder counts 1 for a range of any width when it has to add a
chunk (`index_set.cpp:244`), and `count` leaves out a range
(`index_set.cpp:291-302`).

## 7. Plan

1. Done: `Panels`, `MapScreen`, `PinBook` and the refinement; `TapHistory`;
   `Settings`; `SearchTable`; the proofs about all of them.
2. Done: `SyncSession`, `SessionRegistry`, `CallbackList` with `Delivery`,
   `Notifiers`, with their proofs; `ChangeSets`, `QueryChanges`, `IndexSets`,
   `ChunkedIndexSets`, `DeepChanges`, with the proofs about all but `IndexSets`'
   implementation.
3. `SearchPin`: the two geocoder callbacks and the search that write title and
   place of the one shared marker, in any order, against an abstract module in
   which a marker has the title of its own place; with it, the relation between
   the text of the bar and the pins that were found for it.
4. `Tutorial`: page control, pages and timers, over any order of page requests.
5. A refinement of `Settings`: an abstract theme that a save replaces as a
   whole, which `Settings` implements as long as no save is cut off.
6. Of change sets: the lists a transaction log observes while rows are moved below
   them, modifications per column, and transactions without tracked moves.
7. An abstract module for `Notifiers`: a callback and a sequence of commits, of
   which it hears in order.
8. `ChunkedIndexSets` without RECURSIVE operators, and a proof that each operation
   computes what `IndexSets` says: first of `FindFrom`, on which all others rest.

## 8. Not modelled

Of the application:

* The interstitial advertisement (`VC` 141-144, 767-770): shown by `Create` when
  it is loaded; no other state depends on it.
* Location updates and the visible region (`VC` 218-263): they move the region
  only. The user's coordinate at a tap is any place.
* Animations: a layer's frame is final when its animation starts, and touches
  during the half second are as if it were over.
* Failing database writes: every `try!` would end the program; a write that
  succeeds is one transaction.
* The texts of geocoder answers, the tutorial (section 7).
* The half-written memory of a low-memory warning, scene life-cycle callbacks
  (they only print), layout, cells and headers of the collection views.

Of Realm:

* `results.cpp`, `list.cpp`, `object_store.cpp`, `schema.cpp`: accessors and
  migrations on one thread; the application's schema version never changes.
* The metadata Realm, file actions, partial sync, permissions, work queues: the
  application's Realm is local. Of these there is what sessions and their registry
  need.
* Opening, caching and closing of Realms in the coordinator, and notifiers of
  lists and single objects.
* Core (`Pods/Realm/include/core`), of which only headers are there: transactions,
  versions and the log are modelled as the ObjectStore uses them.
* The Cocoa binding and RealmSwift, which pass calls on.

The other pods (Google Mobile Ads, GoogleUtilities, GoogleAppMeasurement,
nanopb): nothing of the application's state depends on them.
