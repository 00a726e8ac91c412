# Formal models of Qt WebEngine

TLA+ modules, TLC configurations and TLAPS proofs about the parts of Qt
WebEngine (`src/src/core`, `src/src/pdf`, `src/src/pdfwidgets`) whose own logic is concurrent or
stateful. Chromium, Qt and the graphics drivers are external: they appear as
the calls and callbacks this code can receive.

## The system

Qt WebEngine embeds Chromium's content layer in Qt. Its own code is glue, and
the glue keeps state where the two sides do not fit each other:

| part | state | operations | talks to | hard behaviour |
|---|---|---|---|---|
| find in page (`find_text_helper.cpp`) | request counter, current and last completed id, previous text, callbacks by id | startFinding, stopFinding, reply, load committed, destruction | page API, renderer by messages | replies out of order, application code called back in the middle |
| native output device (`compositor/native_skia_output_device*.cpp`) | front, middle and back buffer, flags, present counts, fences, Skia image mutex | BeginPaint, EndPaint, Present, swapFrame, texture, waitForTexture, releaseTexture, SwapBuffersFinished | display compositor (GPU thread), scene graph (render thread) | two threads and a task queue over three buffers |
| software output surface (`compositor/display_software_output_surface.cpp`) | tile, damage, deferred acknowledgement | Resize, begin/end paint, OnSwapBuffers, swapFrame | the same | the same with copies |
| compositor binding (`compositor/compositor.cpp`) | global table of bindings, two ends, waitForRelease, a read-write lock with a condition | bind, unbind, compositor(), lock/unlockForRelease | item (GUI thread), device (GPU), clean-up job (render) | destruction on three threads |
| view item (`render_widget_host_view_qt_delegate_item.cpp`) | window connections, node | paint, releaseResources, CleanupJob | binding, device | clean-up on another thread |
| page adapter (`web_contents_adapter.cpp`, `web_contents_delegate_qt.cpp`) | lifecycle state, recommended state, loading state and progress, callbacks | load, stop, reload, lifecycle requests, signals from Chromium | view API, profile | order of loading signals, discard and undiscard |
| downloads (`download_manager_delegate_qt.cpp`, `qwebenginedownloadrequest.cpp`, `qwebengineprofile.cpp`) | target callbacks and saved pages that wait, the requests of the profile, ids | target determination, save, accept, cancel, resume, updates | Chromium's items, application | updates delayed by timers, guessed ids |
| permissions (`permission_manager_qt.cpp`) | requests that wait, transient and persistent store | request, decide, reset, page gone | page API, preferences | one answer for many requests, a store per frame |
| media requests (`media_capture_devices_dispatcher.cpp`) | a queue per page | request, answer, cancel, page gone | permissions | answer meets the wrong request |
| custom URL jobs (`net/custom_url_loader_factory.cpp`, `net/url_request_custom_job*.cpp`) | loader and proxy on the IO thread, delegate and job on the UI thread, a data pipe | start, reply, fail, redirect, data, cancel | network stack, application | posted tasks cross, either side goes first |
| profile, cookies, scripts, favicons, notifications, dialogs, pickers, certificates, WebAuthn, printing, extensions | mostly a queue or a controller with one answer | request, answer, destruction | application and Chromium | answered once, or after the page is gone |
| PDF document (`pdf/qpdfdocument.cpp`) | status, the document of PDFium, what it reads, connections to a network reply | load, close, password, signals of the reply | views, PDFium, network | signals of an earlier reply |
| PDF renderer and view (`pdf/qpdfpagerenderer.cpp`, `pdfwidgets/qpdfview.cpp`) | requests that wait, a worker thread, a cache of images with its order of eviction | request, render, deliver, paint, change zoom, page, mode or document | document | results that were overtaken, a small cache |
| PDF navigation and search (`src/src/pdf`) | jump history, search results | jump, back, search by timer | views | incremental results |

What makes each part correct:

* find in page: a search is answered once, with its own result, and "find
  next" continues a session that exists.
* output devices: frames are shown whole and in order, no picture is painted
  while it is read, and every swap is acknowledged once.
* binding and view item: neither end uses the other after it is gone, each
  binding is deleted once, resources are released while their device exists.
* page adapter: visible pages are awake, recommendations are current, a page
  that may sleep does; loads start once, finish once and tell the truth.
* downloads, permissions, media requests, dialogs, pickers, certificates,
  authentication, WebAuthn: each request is answered exactly once, by the
  answer meant for it, also when its page goes first.
* custom URL jobs: a job that is released is not used again on the other
  sequence, and its data arrives complete and in order.
* user scripts, cookies: what the application changed is what every renderer or
  store has in the end, whatever was queued or restarted meanwhile.
* PDF: "Ready" is said of a whole document and of the last one loaded; a
  request for a page is rendered once and what is shown is current; back and
  forward return where they were.

PROJECT.json lists every component, with the reason for those left out, and
every hazard with the line where it bites.

## How the parts interact

One page is a `QWebEnginePage` (or the Qt Quick view) over a
`WebContentsAdapter`, which owns Chromium's `WebContents`; a
`WebContentsDelegateQt` and a `FindTextHelper` listen to it. They run on the
GUI thread and interact by direct calls, by signals whose slots run in the
middle of the caller, and by posted calls (`QTimer::singleShot(0, ...)`).
Chromium reports to the delegate by synchronous observer calls; the renderer
is another process, so what is reported of one document may be late with
respect to another.

A picture takes another way: viz paints into an output device on the GPU
thread, the device posts `update()` to the view item on the GUI thread, the
scene graph syncs the item on its render thread and takes the frame from the
device, and a task on the GPU thread tells viz that the swap is over.
`compositor.cpp` connects item and device through a global table.

A request for a custom scheme lives on two threads which only post tasks to
each other: the loader and its proxy on the IO thread, the delegate and the
`QWebEngineUrlRequestJob` of the application on the UI thread. A redirect that
is followed gives the loader the proxy of the next hop while tasks of the last
one may still be on their way.

A permission is asked of the page, or, for microphone and camera, of the
dispatcher, which queues the requests of a page and asks the permission manager
for the front one. The application's answer goes back both ways: the permission
manager answers every waiting request it decides, and each such answer takes
the front of a queue.

A download is an item of Chromium, an entry of the delegate as long as a target
callback waits, and a request of the application; the three talk through timers
with copies of the item's state in one direction and directly in the other.

A PDF view paints from a cache of images; what is missing it requests of the
renderer, whose worker thread renders the document under a lock; the results
come back as queued signals.

## Modules

| module | models | state | actions |
|---|---|---|---|
| `FindText` | `find_text_helper.cpp` | the members of FindTextHelper; the suspended frames of its functions; the renderer's find session and the requests it may still answer | one per function, split where the function leaves for a slot or a callback |
| `FrameStream` | what an output device promises | frames submitted, shown, acknowledged | submit, show, acknowledge |
| `NativeOutputDevice` | `native_skia_output_device.cpp` and how the item drives it | the members of the device and of its three buffers, the task queue of the GPU thread, the node of the scene graph | one per critical section of `m_mutex`, and per stretch of code between two on buffers the thread owns |
| `SoftwareOutputDevice` | `display_software_output_surface.cpp` | surface and image by tiles, the damage, the deferred callback | one per critical section, as above |
| `CompositorBinding` | `compositor.cpp` and `releaseResources`, `CleanupJob` of the item | the table, the two ends, the flag and the wait set, handles, jobs | one per write-locked section; taking and giving up a Handle |
| `PageLifecycle` | lifecycle state, recommended state and visibility (`web_contents_adapter.cpp`), with their callers in the delegate, the page and the view | the inputs of the recommended state; the steps left of the calls in progress | one per function or branch of it; the event loop starts calls when none is in progress |
| `LoadStream` | what a page promises of its load signals | the progress seen, the ends seen | start, progress, finish |
| `LoadSignals` | the load state of `WebContentsDelegateQt` | `m_loadingInfo`, the signals emitted; as external state the pending navigation, the document and its renderer | one per observer callback, split by what Chromium reports |
| `LoaderStream` | what a URL loader promises the network stack | redirects heard and followed, responses, ends | redirect, follow, respond, end |
| `UrlSchemeJob` | one request for a custom scheme: `custom_url_loader_factory.cpp`, `url_request_custom_job_proxy.cpp`, `url_request_custom_job_delegate.cpp`, `url_request_custom_job.cpp` | the members of the loader, `m_client` and `m_started` of the proxies, the jobs and what was called on them, the device, the tasks posted to both threads, the pipe | one per task of the IO thread (`Start`, `ReplyServed`, `Redirect`, `Fail`, `ReadyRead`, `ReadRound`, `ReadyWrite`, ...) and of the UI thread (`Initialize`, `ReleaseJob`); the application's calls; the network stack's end |
| `PdfDocument` | `qpdfdocument.cpp` | the members of QPdfDocumentPrivate, the replies with the kind of document they bring, and the connections to them | `LoadFile`, `LoadReply`, `Close`, `SetPassword`, one per signal of a reply; the functions that call each other (`tryLoadDocument`, `checkComplete`, ...) are operators on a record of the state |
| `PdfPageRenderer` | `qpdfpagerenderer.cpp` | the requests that wait, the calls queued to the worker, what it renders, results | `requestPages`, `WorkerTakes`, `WorkerRenders`, `Deliver` |
| `PdfView` | `qpdfview.cpp` over `PdfPageRenderer` | page, size and mode, the size of the layout, the cache and its order, whether a paint is due | one per property that is set, status of the document, paint, `PageRendered` |
| `PermissionManager` | `permission_manager_qt.cpp` | a record with both stores, the waiting requests, the permissions shown to the application | operators: `RequestPermissions`, `setPermission`, what a decision answers |
| `MediaRequests` | `media_capture_devices_dispatcher.cpp` with the page's and the profile's part in it, over `PermissionManager` | the queue of each page, the posted tasks, what each request was given | request, decide with or without a prompt, ask again, cancel, destroy a page |
| `Downloads` | `download_manager_delegate_qt.cpp`, `qwebenginedownloadrequest.cpp`, the download part of `qwebengineprofile.cpp` | Chromium's items, the callbacks and saves that wait, the timers, the requests and the profile's table of them | start, save, progress, stop; delivery of a timer with what a slot does; accept, cancel, delete, resume |

`MCUrlSchemeJob` and `MCMediaRequests` give the structured constants their
values; `MCPdfDocument` lets the two replies change places.
`NativeOutputDeviceProofs`, `CompositorProofs` (the binding and the software
device), `PageSignalsProofs` (find in page and the load signals),
`PageLifecycleProofs`, `UrlSchemeJobProofs`, `PdfProofs` (the document and the
view), `MediaRequestsProofs` and `DownloadsProofs` hold the theorems.
Names of actions and variables are those of the code; comments name the member
where the model's name is shorter. An operator marked "for a mutant" is a
plausible mistake in the definition next to it; no specification uses it, and
every property of the runs is known to fail when one of them takes that
definition's place.

Re-entrance is modelled, not assumed away: in `FindText` a frame of the helper
waits on `stack` while a slot or callback runs and possibly calls the helper;
in `PageLifecycle` `todo` holds what is left of every call in progress, and a
slot puts a further call in front of it. In `Downloads` a slot of
downloadRequested accepts or cancels before the profile goes on, and a slot that
deletes the request is left out (see below).

## Runs

| run | question | answer |
|---|---|---|
| `find_text` | is each search matched with its reply and reported once, whatever the order of replies, loads, stops and newer searches? | yes, as long as no slot or callback calls the helper in the middle of it; no callback runs twice even then |
| `native_device` | two threads, three buffers: is a buffer ever written while it is read, a fence lost, a swap never acknowledged? | no; the device implements `FrameStream`, liveness included (that presents are balanced is only proved) |
| `software_device` | is the surface copied while it is painted, or the image left with stale tiles? | no; the same stream is implemented |
| `binding` | do handles protect both ends, is each binding deleted once, does each unbind return? | yes, with one clean-up job; the run goes up to the first illegal access |
| `page` | are visible and inspected pages awake, is the recommended state current, is a page visible with its view, and does an application that follows the recommendations, late as they come, end with a discarded page? | yes, under the conditions below |
| `load` | whatever overlaps, do loads start once, progress upwards and finish once, and is success that of a loaded document? | yes, but for a crash and for custom scheme jobs |
| `scheme_job` | whatever crosses between the two threads, does the network stack see one response and one end, is a success complete, is the device used only while its job exists, does each answer end the request, is each job released? | yes, up to the first of the accesses below, and unless the application fails the job it has answered |
| `pdf_document` | two replies and four files, loaded and closed in any order, some of them broken: is "Ready" said of the last one, whole, is the data PDFium reads its own, is a closed document empty, does a load end with its reply? | yes for a load that finds nothing left of an earlier one; a load does not end while the thread waits for missing pages, nor when its reply had ended before it without a length or with a broken page |
| `pdf_view` | is a request rendered once, is what is shown current, does a view that is left alone settle? | yes, but for results that were overtaken and requests that were dropped |
| `permissions` | is a page given only what it asked for and the application granted to its origin, is no request stranded, none answered twice, do queues drain? | yes, although answers meet the wrong request |
| `downloads` | is every target callback answered, does a request show the state of its item when the timers have run, is every completion seen? | yes where the guessed id of a saved page is right |

One run shows a statement of the documentation to be false of the code.

| run | what happens |
|---|---|
| `find_text_destroy` | the page is destroyed during a search: its callback is dropped, although it is documented to run at the latest then |

### Departures without a run

Further places where the code departs from an assertion, a test, a comment or
what its reader expects. The models contain the behaviour, as a condition in a
property or as an outcome of its own, unless it says "read".

Find in page
* `nested`: startFinding emits findTextFinished before it numbers the new
  request (`find_text_helper.cpp:80`). A slot that searches again makes two
  requests newer than the last completed one, and the assertion at `:116` fails
  on the first reply; a callback can be lost, and a nested stop can leave "find
  next" with a session the renderer has ended.

Compositor binding
* `failed = "freedBinding"`: both ends wait for a clean-up job, the output
  device wakes first and deletes the binding the item then reads.
* `failed = "noObserver"`: two clean-up jobs share one `waitForRelease`; the
  first lets the item go, the second finds no binding. `CleanupStaysDone` is
  stated for one job.
* `failed = "noCompositor"`: releaseResources gives up its Handle before the
  job locks, so an output device that unbinds in between fails the assertion
  of the job (`render_widget_host_view_qt_delegate_item.cpp:402`, `:438`).
* read: the render thread holds the read lock of the table while it waits for
  the Skia image mutex (`native_skia_output_device.cpp:441`). The task that
  unlocks it is queued on the GPU thread, which may be in unbind, waiting for
  the write lock: nobody goes on. `NativeOutputDevice` has no table and
  `CompositorBinding` no mutex.

Page
* `"slot" \notin past`: a slot of lifecycleStateChanged freezes the page that
  `setVisible(true)` has just woken up, and the page is shown frozen.
* `"silent"`: sound that starts in a background page, and a commit without
  loading UI, change what the recommended state depends on without an update
  (`web_contents_delegate_qt.cpp:201`, `:486`; `qtwebengine-features.qdoc:652`
  says that sound counts). A page that such a commit leaves active while
  "Frozen" is already its recommendation is not told again, so that
  `FollowerSettles` speaks of pages of which nothing ever changed silently.
* the contents that `discard` puts in place are "Unloaded" for the delegate,
  which looks at them before their history is copied
  (`web_contents_adapter.cpp:2262`), and "Loading" is only set by the commit: a
  page that is woken up and frozen before that is recommended to be active.
* a view that shows a discarded page makes `undiscard` run `setVisible(true)`
  inside `setVisible(true)`, and `visibleChanged(true)` is emitted twice
  (`qwebenginepage.cpp:177`; the test at `tst_qwebenginepage.cpp:4015` counts).

Load signals
* document A was loaded when B replaced it, and B crashes while loading:
  `m_loadingInfo` still says success, and so does loadFinished
  (`web_contents_delegate_qt.cpp:284`).
* `bypassed`: a custom scheme job that replies with a null device reports
  loadFinished while the load state goes on, so progress and a second
  loadFinished follow.
* `isErrorPage` and `isDownload` of a load stay set for the next one when that
  starts before DidStopLoading: a document may be reported as an error page, or
  as a download with success.
* switching ErrorPageEnabled off between a failure and the end of its load
  fails the assertion at `web_contents_delegate_qt.cpp:391`.

Custom URL jobs
* `failed`: `reply()` of the proxy uses `m_client` after
  `notifyExpectedContentSize()` has completed the request with an error and
  cleared it (`url_request_custom_job_proxy.cpp:68`); `succeed()` uses it
  without a check, and the loader a raw `m_webContents` on the IO thread
  (`custom_url_loader_factory.cpp:359`).
* `FailedLate`: `fail()` after `reply()` waits for a read that may never come
  (`url_request_custom_job_proxy.cpp:112`).
* `Unsignalled`: a sequential device that ends without a last readyRead never
  completes the request.
* without a handler when the job is created, nobody answers the request.
* the end of a range is not applied to a device that has more: each read is
  limited by the whole range, not by what is left of it
  (`custom_url_loader_factory.cpp:397`); the start of a suffix range is never
  sought. `OkIsComplete` asks for at least the range.
* read: `ProfileAdapter::removeUrlSchemeHandler` does not end for the handler
  of a protected scheme.

PDF document
* a reply with nothing left to read when it ends counts as failed, which every
  reply has whose data was read in time: a document that was loaded from it goes
  from Ready to Error (`qpdfdocument.cpp:231`), although Error is documented as
  the status "after Loading, if loading has failed" (`:627`).
* a document with a broken page is open and never Ready; when its reply had
  ended before it was loaded, nothing sets another status and it stays Loading
  (`:384`). Of a file only the first two pages are looked at, so one that is
  broken later is Ready (`:268`).
* `fresh`: close() and load() return early without a document, so what an
  earlier load left behind stays: a later load from the network does nothing
  (`:279`), a header that arrives late opens a document that was closed, while the
  status is Null, an earlier reply writes into the newer one's buffer (`:317`).
* `stuck`: the loop that waits for pages that are missing does not end
  (`:379`).
* a reply without a length that has arrived before load() leaves the status at
  Loading (`:239`).
* read: `avail` is leaked when a local file is loaded over a reply.

PDF view
* `lost`: a request the worker takes while the document is not Ready is dropped
  and stays in the list of pending ones, so that the page is never requested
  again in that size (`qpdfpagerenderer.cpp:92`).
* `overtaken`: an image that arrives after the cache was cleared is shown,
  although it is of the old document or size (`qpdfview.cpp:199-216`).
* a viewport of more pages than the cache holds renders them for ever
  (`ViewSettles` has the condition).
* read: `setDocument(nullptr)` uses the null pointer (`qpdfview.cpp:426`).

Permissions
* an answer takes the front of the queue, whichever request it was for, and
  setPermission answers twice (`web_contents_adapter.cpp:1519`): a second
  request may be refused by the answer of the first. `GivenWasAllowed` shows
  that it is at least given nothing it must not have.
* a request for both media of which one is granted and one denied is not
  answered by the decisions (`permission_manager_qt.cpp:413-427`; the comment at
  `:424` expects it).
* a cancelled request leaves its prompt, and a destroyed page its requests in
  `m_multiRequests`.
* read: under AskEveryTime a decision about one type answers all requests of
  the origin; the clean-up of the transient store uses an iterator it erased
  (`:889-892`); a frame that is gone is used in ProcessQueuedAccessRequest.

Downloads
* `clash`: the id guessed for a saved page is that of the next download
  Chromium starts; the assertion at `qwebengineprofile.cpp:234` fails, and
  without assertions one request replaces the other, and cancelling the old one
  cancels the new one's item.
* an update that was queued before cancel() shows the cancelled request in
  progress for a moment, while isFinished is true.
* a request nobody accepts is neither cancelled nor deleted
  (`qwebengineprofile.cpp:151-154` says it is).
* read: timers hold a pointer to the profile that may be gone; a slot that
  deletes the request leaves the profile with a dangling pointer (`:255`).

### Bounds

* `FindText`: two texts (the same and another), three searches, three ids
  shared with other pages, one level of nesting. Three searches are needed for
  one that supersedes a search that superseded one; replies are distinguished
  by their order with respect to `current` and `lastCompleted` only.
* `NativeOutputDevice`: three buffers, the number the code has at most, two
  shapes, three frames, after which each buffer has been in each role.
  `SoftwareOutputDevice`: two tiles (damaged, not damaged), two sizes and
  ratios, four frames. The theorems have none of these bounds.
* `CompositorBinding`: three bindings (an end that leaves and returns finds a
  new one), two jobs.
* `PageLifecycle`: two streams, so that one can end while the other goes on;
  two posted notices, so that one can be delivered when a newer is on its way;
  four steps of calls in progress, the depth of a slot inside undiscard inside
  setVisible. `Starts` and `Emit` stop new calls at these bounds; what is in
  progress is never cut short.
* `UrlSchemeJob`: two hops, so that tasks of the first meet the second; two
  units of data and a pipe of one, so that a read is cut short and taken up
  again; a range that is a prefix, one that reaches past the end, one that
  starts there, a suffix, and none. Any read of the device may fail. The theorems
  have none of these bounds.
* `PdfDocument`: two replies, so that one is left over; two units, of which the
  first opens a linearized document, which then waits for the rest (`stuck`),
  while another needs both, so that its load by units ends as Ready or, if it is
  broken, as Error; three pages, so that one
  can be broken behind the two that a file is asked for; files that are whole,
  locked, broken within the first two pages (`"cut"`) and behind them (`"torn"`).
  The replies are new, have failed, or have arrived in full with their end
  signalled or not. The theorems have none of these bounds.
* `PdfView`: two documents that are loaded twice between them, so that one can
  be closed and loaded again; three pages, two sizes, a viewport of two pages
  and a cache that evicts when a third arrives; three actions of the user, which
  may be between any steps of the worker.
* `MediaRequests`: two pages, one with frames of two origins, the other with a
  frame of the first origin, so that a decision concerns requests of another
  page; two requests, of which one is queued behind the other or of another
  kind; one decision without a prompt on top of those with one.
* `Downloads`: a download and two saved pages, so that the id guessed for a page
  can be that of the download, of the other page, or right; an item adds an
  update only while fewer than two timers wait, so that updates of two items,
  and of one, wait behind each other and behind a request, and cross an answer.
  What the application does is bounded by the items. The theorems hold for any
  number of downloads, pages and timers.
* `LoadSignals`: 100% is two steps of progress; nothing else is bounded. A
  pending navigation, the document it replaces and the crash of that are the
  most that can overlap, for Chromium keeps one navigation of the main frame.

CHECK_DEADLOCK FALSE is said of the systems that stop: after the last frame,
after the page is destroyed, after the first illegal access of a binding.

### Fairness

* `FindText`: slots and callbacks return, the helper runs on (WF of `Resume`),
  and the renderer answers the request it works on (WF of that reply).
* Output devices: the GPU thread returns from `Present` or `OnSwapBuffers` and
  runs its tasks, the render thread ends the frame it began (WF), and Qt Quick
  syncs an item that asked for an update. The last is strong fairness for the
  native device, because the render thread may also render frames without
  syncing the item, and weak for the software device, where it has nothing else
  to do. Nobody is obliged to draw.
* `CompositorBinding`: `QReadWriteLock` admits no new reader while a writer is
  blocked, so the lock is free again and again and a blocked writer gets it;
  hence `[]<>(handles = {})` and SF of what waits for the lock. Threads end
  what they began (WF). Whether an end leaves is up to it.
* `PageLifecycle`: a function runs to its end (WF of `Proceed`) and a posted
  call is delivered (SF, since other events of the loop may come in between).
* `LoadSignals` and `PdfDocument` have only safety properties.
* `UrlSchemeJob`: both threads run their tasks (WF of `IoStep` and `UiStep`),
  the network stack reads its end of the pipe (WF of `Consume`) and follows a
  redirect or gives the request up, and a device that sends data goes on (WF of
  `Arrive`). The application need not answer.
* `PdfView`: both event loops run (WF of `Paint`, `PageRendered` and of the two
  steps of the worker).
* `MediaRequests`: posted tasks run (WF of `ProcessQueued`); that the
  application decides what it is asked is a premise of `QueuesDrain`.
* `Downloads`: timers run out in order (WF of `Deliver`).

## Proofs

TLAPS proves, for every value of the constants that satisfies the named
assumption of the module, and for any number of steps:

* **NativeOutputDevice** (`DeviceConstants`): `DeviceInv` is inductive. The
  safety properties alone are not: that no buffer is written while it is read
  rests on who owns which buffer, and that on a swap being in one place. So
  `DeviceInv` says that the roles are distinct (`RolesDistinct`), that the GPU
  thread writes only the back buffer and the render thread reads only the front
  one (`WriterOwnsBack`, `ReaderOwnsFront`), that an outstanding swap is either
  to be shown or posted (`OneSwapOutstanding`, which lists the four task queues
  possible), which frame the front holds (`FrontIsLatest`), and what the node
  and the fences are between frames. Type correctness, the five safety
  properties of the run and the refinement of `FrameStream`'s safety part
  follow.
* **SoftwareOutputDevice** (`SoftwareConstants`): `SoftwareInv` is inductive: a
  swap is in one place (`SwapInOnePlace`), and what was not copied yet is in the
  damage (`DamageCoversChanges`), which is why copying the damage of one frame
  is enough. Torn copies, stale tiles and the refinement follow.
* **CompositorBinding** (`BindingConstants`): `BindingInv` is inductive. That an
  end is not gone while a Handle is held is not: it needs to be known where each
  thread stands, so the invariant relates the table, the two ends, the jobs and
  the wait set, and says which of them may hold the lock. With it, handles
  protect both ends, a binding exists as long as it has an end, and one
  clean-up job finds the device it released still bound.
* **UrlSchemeJob** (`JobConstants`): `RequestInv` is inductive: the loader is
  the client of the current proxy only while it lives, a device it holds belongs
  to a job whose release is not even posted, and what the network stack has seen
  fits the state of the loader (`NetInv`, `LoaderInv`); it rests on the order in
  which jobs are created and released (`JobInv`, `UiInv`) and on a call being
  posted once and before its job has started (`IoInv`). That the device does not
  outlive its job, that only the loader is a client, and that the stream is well
  formed follow, for any number of redirects, any size of the device and the
  pipe and any ranges. That a success has handed over all that was announced
  rests on a second invariant, `DataInv`: the part announced lies within the
  device (`AnnouncedInv`), the device stands where what was handed over of it
  ends, counted from where the range of a buffer starts (`PositionInv`), nothing
  is read that has not arrived (`DeviceInv`), and what a success has seen stays
  so (`SuccessInv`).
* **FindText** (`FindConstants`): `FindInv` is inductive. A search that has not
  been reported is owed in exactly one place, a suspended frame or an id
  (`OwedOnce`); this holds at any depth of nesting and gives that no callback
  runs twice. As long as application code has not called the helper in the
  middle of a call (`CalmInv`), one call is in progress and its last frame fits
  the search the renderer works on; between events that gives that a reply meets
  the current search, that no callback is lost, and that "find next" continues
  the session there is.
* **LoadSignals** (`LoadConstants`): `LoadInv` is inductive: the application
  has seen the progress of the load state (`SeenIsProgress`), nothing is left
  of a load when none runs (`IdleIsClear`), success is remembered only of a
  document that may still take it back (`SuccessOfDocument`), an error page is
  remembered as one (`ErrorPageRemembered`). All properties of the run follow,
  among them the refinement of `LoadStream` up to a bypass.
* **PageLifecycle** (`PageConstants`): `PageInv` is inductive. Between calls the
  properties say all there is to say; in the middle of one they do not hold, and
  the invariant says what the steps in `todo` still owe: a changed input has its
  update to come (`UpdateInv`), a page about to be shown or inspected is awake
  or woken up first and nothing in between puts it to sleep (`WakeInv`), the
  last step that shows or hides does what the view will be, a view that is
  closing included (`ViewInv`), and one step at a time leads to a change that
  is not announced yet (`AnnounceInv`). Each action takes the step in front away
  and puts up to three others there; one lemma for each part says when that
  keeps it. The recommendation is current whatever slots call, the other
  properties hold until one calls, for any depth of nested calls.
* **PdfDocument** (`PdfConstants`): `PdfInv` is inductive. Each function of
  the document calls others, so the invariant speaks of the record they pass on
  (`DocumentKept`, one lemma for each function): an open document is that of the
  device, what a buffer holds is its own data and no more than the reply has
  sent, and the status fits the document. `FreshInv` adds what a load that found
  nothing left of an earlier one knows: there are no connections, source or
  device but its own. It gives that "Ready" shows what was loaded last and never a
  page that was found broken, that PDFium reads the data of the document it has
  open, and, under the same condition, that a closed document is empty. That a
  load ends with its reply rests on a second invariant, `EndingInv`: a reply
  whose load goes on is connected to the signals of what is still missing, and
  nothing it has sent waits to be read (`EndsInv`), so that its end counts as
  failed; one that has all its data when it is loaded is Ready at once
  (`FullEnds`).
* **PdfView** (`RendererConstants`, `ViewConstants`): `ViewInv` is inductive. It
  states `RequestsAccounted` for each place a request can be in (`Account`), so
  that a step touches two places at most, and what makes the cache right before
  an image gets there: what is under way was pending when the cache was last
  cleared, or is of the size and document there are (`UnderWayCurrent`). A
  repaint may queue its requests in any order; that the order has each of them
  once is a pigeonhole argument on a finite set of pages.
* **MediaRequests** (`PermissionConstants`, `MediaConstants`): `MediaInv` is
  inductive. That nothing is given that was not allowed rests on the stores:
  what a store calls granted was allowed (`StoresInv`), and what is posted or
  stands in a queue is the request its number stands for (`MessagesInv`,
  `QueueInv`, `RequestsInv`). That nobody is stranded rests on who owes the
  answer (`Owed`): a media request that waits is in the queue of its page, and
  another one waits in the permission manager; a queue that is not empty has a
  posted task, or a request of its page waits in the permission manager; and in
  the middle of a step, an answer still to be delivered counts as waiting. That a
  request is answered once rests on the same: who is in a queue waits
  (`QueueInv`), no two messages are of the same request unless it is for media
  (`Unique`), and a message that is not for media waits until its answer is
  delivered (`Awaits`). `setPermission` walks the types of a decision, for each
  the waiting requests, and the answers it collects take the front of queues in
  turn; that each of these walks keeps the invariant is induction over a
  sequence of any length, carried out by hand: where a walk failed there would
  be a first place, the least of a non-empty set of naturals (`LeastNat`, from
  the well-founded order of the library). The functions in which the walks are
  written are shown to exist first (`VisitAllIs`, `setPermissionIs`,
  `DeliveredIs`).
* **Downloads** (`DownloadConstants`): `DownloadsInv` is inductive. It says of
  every number what its item is (`ItemInv`), that a callback kept for it has a
  request that comes or waits for an answer (`ComesInv`, `AskedInv`) and, where
  no number was given twice, that the number has one request (`FreeInv`) which
  shows what the item is or has an update to come (`OwnInv`). That it speaks of
  one number is what makes the proof possible: a lemma for each operator says
  what it does to its own number (`Effect`, `Step`), one lemma for all says that
  the others keep their invariant when what it reads of them stays (`View`), and
  only a new number (`Fresh`) moves `m_currentId`, which all read. That the
  number of a saved page is one Chromium may give counts items and saves against
  the downloads begun. The types, `EveryCallbackAnswered` and `AgreeWhenQuiet`
  follow, for any number of downloads, of saved pages and of timers that wait.

The constants' bounds on the number of frames are part of the actions' guards
and of no argument: the theorems hold for any `MaxFrames`.

Every invariant and every action property of the runs that pass has a theorem.
Only model-checked are:

* The liveness properties (`SearchIsReported`, the liveness part of
  `ImplementsStream` for both output devices, `UnbindReturns`, `FollowerSettles`,
  `EveryAnswerEnds`, `JobsReleased`, `ViewSettles`, `QueuesDrain`,
  `CompletionsArrive`): fairness and ENABLED are beyond the prover. So of
  `FrameStream` the safety part is proved and the liveness part is checked.

## Not modelled

* Chromium, Qt and drivers, other than as callers and callees.
* `PageLifecycle`: slots of iconChanged during discard; remote DevTools clients
  as an input of the recommended state; the page before its contents exist, and
  contents that Chromium has created (popups); the lifecycle of a DevTools page,
  on whose inspector the page calls setInspector.
* `NativeOutputDevice`: `releaseTexture` called by releaseResources on the GUI
  thread; the destruction of the device; `initialize()` failing for one buffer.
* `LoadSignals`: urls, error texts and headers; certificate error controllers.
* `CompositorBinding`: other ids, which share the lock only.
* `UrlSchemeJob`: registration of schemes and handlers, headers, CORS (a refusal
  is a choice), the factory; abort(), which nobody calls.
* `PdfDocument`: rendering, texts and meta data; the page model; replies that are
  deleted, sequential devices that are no replies; slots that call back; a
  broken document that opens before all its data are there.
* `PdfPageRenderer`: a change of the render mode; destruction.
* `PermissionManager`: subscriptions, AskEveryTime, mouse lock, the periodic
  clean-up; a frame that navigates to another origin.
* `MediaRequests`: desktop capture, the choice of devices.
* `Downloads`: pausing, forced paths, file names, the end of the profile, a slot
  that deletes the request in the middle of downloadRequested.
* The components with status not_modelled in PROJECT.json, with the reason.

Hazards that were seen and are not in the list of PROJECT.json, most of them
described above as departures: find in page `:69`; native device `:132`, `:149`,
`:173`, `:180`, `:492`; software surface `:96`; binding `compositor.cpp:134`;
page adapter `:1318`, `:2112`, `:2226`, `:2253`; delegate `:284`, `:391`; custom
job proxy `:68`, `:112`, `:117`, `:147`; PDF document `:89`, `:239`, `:379`; PDF
view `:207`, `:228`, `:426`; permission manager `:413`, `:464`, `:585`, `:644`,
`:656`, `:890`; download delegate `:114`, `:136`, `:146`, `:239`, `:645`.

## Plan

Done, in this order: the frame path (the only code with three threads), find in
page, the lifecycle of a page and its load signals; custom URL jobs, PDF document
and view, permissions and media requests, downloads; the proofs of the safety
properties of all of them.

Next:

1. `FramePath`: `CompositorBinding` composed with `NativeOutputDevice`, so that
   a Handle held by the render thread, the wait for the Skia image and an
   unbind of the GPU thread meet (deadlock hazard), and `releaseTexture` comes
   from the GUI thread too; a device that is destroyed with tasks pending.
2. The null reply of `UrlSchemeJob` connected to `LoadSignals` in place of its
   external action.
3. An abstract specification "each request is answered exactly once" that
   permissions, media requests and downloads refine.
4. `PdfNavigator`: the jump history against a reference definition; the search
   model over its timer.
5. JavaScript dialogs, cookie store commands, user scripts over renderer
   crashes, favicons, WebAuthn.

Then, proving more: the safety part of the specifications of item 3 and, when
`FramePath` is written, that the two ends and the device keep their invariants
in the composition.
