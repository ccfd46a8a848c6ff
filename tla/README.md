# LDNS Selector: verification project

LDNS Selector is a Windows program that fetches a list of DNS servers from a web
service, pings each of them with DNS requests, and puts a network adapter on the
two that answer fastest (one click), or on a server the user picks by hand (the
"professional" view).  This directory holds TLA+ models of its core, the
configurations that check them with TLC, and theorems checked by TLAPS.

Run `tlc -config <run>.cfg <MC module>` for a run of the table below and
`tlapm <module>` for a module whose name ends in `Proofs`.  `PROJECT.json` lists
the runs, the lines of the source each definition models, the hazards and the
findings.  Paths below are relative to the repository, with `S/` for
`src/code/src/`, `P/` for `src/code/third/DNSPing/Source/` and `D/` for
`src/code/third/duilib/src/`.

## 1. Inventory

| component | state it keeps | operations | made correct by |
|---|---|---|---|
| `dns_selector` (`S/dns_selector.cpp`) | none between jobs; a job's locals: list, measured times, the two addresses, the target adapter. The machine's DNS settings are its real state | `on_initialize`, `on_auto_done` (`auto_select_dns`), `on_switch_dns`, `on_freshen_adapter_info`, `on_freshen_dns_info` | what a job may change on the machine, on success and on failure; which servers it chooses; retries and fallback end; the backup is sensible over a sequence of jobs |
| `ui` (`S/ui.cpp`) | enabled buttons, the queue of posted functions, two lists with their maps and "last selected" pointers | clicks, item selection, functions posted by `post_call`, detached threads | one operation at a time; buttons come back; no dangling pointer; lists and maps agree |
| `dns_ping` and DNSPing (`S/dns_ping.cpp`, `P/Interface.cpp`, `P/Main.cpp`, `P/Process.cpp`) | the **global** `ConfigurationParameter` with its statistics and its timeout | `ping` | success only if every request was answered; the time is a mean of this call's answers; the call returns |
| `wmi_interface` (`S/wmi.cpp`) | COM pointers, COM initialisation | `get_adapter_list`, `switch_adapter_dns` | both addresses go in one call; failures change nothing; references balanced |
| `dns_switcher` (`S/dns_switcher.cpp`) | none | `get_adapter_list` (joins WMI and traffic, sorts), `switch_adapter_dns` | an id names one adapter; the traffic beside an adapter is its own; the first of the list is a busiest one |
| `performance_counter` | none | `get_interface_list` (two `GetIfTable` calls) | the buffer fits the table |
| `ip_fetcher` (`S/ip_fetcher.cpp`) | the **static** counter `s_suffix` behind the names of nameless views | `fetch`, `parse_respond` | the map is exactly what the answer says; a fetch that may be repeated has filled nothing |
| `ad_performancer` | none | one request for a page | - |
| `util`, `version`, `WinMain` | singletons | entry point, conversions | - |
| duilib's window (`D/Core/UIManager.cpp`, `D/Core/UIContainer.cpp`, `D/Control/UIList.cpp`) | pointers to the controls under the mouse, pressed, with the focus; rows of a list, rows to be destroyed, one posted message | mouse and keyboard messages, `RemoveAll`, `Add`, `WM_APP + 1` | no pointer to a destroyed control; a removed row is destroyed, later and once |
| vendored: the rest of duilib, cpprestsdk; resources | - | - | - |

**How they interact.** `WinMain` creates the window. Each operation button
posts "disable the buttons" to the window itself, starts a detached thread, and
that thread calls `dns_selector` through the `ui_notifyer` interface
(`S/interface.h`); `dns_selector` calls `ip_fetcher` (HTTP), `dns_ping` (UDP)
and `dns_switcher` (WMI) synchronously. When the job is through, its thread
posts "enable the buttons". Nothing else is synchronised: no mutex exists in
the program. Posted functions travel as `WM_TASK_MSG` to the window and are run
and freed by `ui::MessageHandler`, a filter of duilib's own message loop.

**What is hard here.**

- *Interleaving and ordering*: the click, the posted disabling, the thread and
  its posted enabling; the thread of `OnSwitchAdapter`, which runs
  `OnFreshenAdapterInfo` itself and thereby touches the window's lists and starts
  a third thread (`S/ui.cpp:473`); two jobs in the global statistics of DNSPing,
  whose timeout is cleared and set again with them (`P/Main.cpp:252`).
- *A library without locks*: duilib is meant for one thread; `S/ui.cpp:473` makes
  its list remove rows on another one, while the window's thread destroys them.
- *Lost messages*: while the window is dragged, Windows' modal loop dispatches
  `WM_TASK_MSG` past the filter (`S/ui.cpp:594`).
- *Partial failure and retry*: three requests, a fallback that itself changes the
  machine, one more request, and any later step may still fail (`S/dns_selector.cpp:62-118`).
- *Stale state*: adapters are listed twice and the order may change in between;
  pointers to list items; statistics read after the call.
- *Boundaries*: an empty list, a list of one, one address in two views, every
  ping lost, no answer received (0/0), a wait that ends exactly at its limit, an
  index wider than the word it is packed into, a traffic counter that wraps.
- *Threads in the parser*: two refreshes, or a refresh and a job, walk answers at
  once and share `s_suffix` without a lock (`S/ip_fetcher.cpp:118`).
- *Failures with a tail*: every call into COM, Windows or the JSON library may
  fail; a failed initialisation is cleaned up twice (`S/wmi.cpp:467`), a failed
  enumeration ends like a complete one (`S/wmi.cpp:64`), an exception in the
  middle of an answer leaves a half-filled map (`S/ip_fetcher.cpp:76`).

The complete list, with lines and the properties that cover each, is `hazards`
in `PROJECT.json`.

## 2. Modules

| module | models | depends on |
|---|---|---|
| `DnsJob` | abstract: what one job promises to the machine | - |
| `DnsSelector` | the jobs of `dns_selector` with what they do to the adapters; implements `DnsJob` | `DnsJob` |
| `DnsSwitcher` | `dns_switcher`, `wmi_interface` and `performance_counter`, call by call | - |
| `IpFetcher` | `fetch` and `parse_respond`, run by several threads | - |
| `FreshenDns` | `on_freshen_dns_info` on top of a fetch | `IpFetcher` |
| `DnsPing` | `DNSPingInterface::Ping` down to `SendProcess` | - |
| `Ui` | window thread, queue, threads, lists | - |
| `Program` | `Ui` with the jobs, the rows of the adapter list and the machine | `Ui`, `DnsJob` |
| `PaintManager` | what a list and the window's event pointers do with rows that are removed, from one thread or two | - |
| `MCDnsSelector`, `MCDnsSwitcher`, `MCFreshenDns`, `MCDnsPing`, `MCUi`, `MCProgram`, `MCPaintManager` | instances for TLC | |
| `DnsSelectorProofs`, `DnsJobProofs`, `DnsSwitcherProofs`, `FreshenDnsProofs`, `DnsPingProofs`, `UiProofs`, `ProgramProofs`, `PaintManagerProofs` | theorems | |

The modules meet where the code has an interface. `DnsSelector` takes of
`dns_switcher` what `SwitchContract` and `BusiestFirst` say of it, and fetches
again into the same map because of `RetryStartsEmpty`. `Program` runs the jobs as
`DnsJob` promises them, and `KeepsPromise` is the property that `DnsSelector`
keeps that promise.

### DnsJob

The contract of a job as the machine sees it: it begins, automatic or manual; an
automatic one may put one adapter on the public servers, once; it ends, and only
a successful end may change an adapter, for a manual job the one asked for.
`Set` leaves the adapter alone or sets both addresses. `DnsSelector` supplies
`job`, `request`, `fell` and `outcome` as state functions of its own variables.

### DnsSelector

`adapters` is the machine: per adapter whether DHCP is on and the first two
entries of its DNS search order. `pc` says where the job is, `res` is its `res`,
`n` counts failed requests, `map_dns_info` is the fetched list as a set of
(view, vip) pairs (one `std::map` of views to addresses; order never matters to
what follows), `ping_t_ms` the times measured so far, `dns_1`/`dns_2` the
variables `str_pre_switch_dns_1`/`_2`, `target` the adapter. `orig` and
`fallback` are history.

One action is one stretch of code up to and including one external call:

| action | code |
|---|---|
| `on_auto_done`, `on_switch_dns` | a job begins with fresh locals (`dns_selector.cpp:306`, `384`) |
| `FetchSucceeds`, `FetchHttpFails`, `FetchGivesUp` | the request loop: only an HTTP failure is retried, every other error returns at once (55-76, 108-118) |
| `FallbackListFails`, `FallbackList`, `FallbackSwitch` | after the last failure the busiest adapter is put on the public servers and the list is asked for once more (77-107) |
| `Ping` | one measurement, recorded as 9999999 when lost (121-154) |
| `Select`, `SelectNone` | sort and pick; the sort is not stable, so any order of equal times (156-201) |
| `ListFails`, `List` | second adapter query and the backup rules (203-258) |
| `Switch` | the final `switch_adapter_dns` (261-270) |
| `ManualList` | the adapter query of `on_switch_dns`, whose failure only leaves the backup equal to the first address (387-428) |

`switch_adapter_dns` has three kinds of outcome: an empty address is refused
before anything happens; any WMI failure leaves the adapter alone; success as the
code sees it (`ExecMethod` succeeded) may or may not have changed the adapter,
because the method's own return value is never read (`wmi.cpp:324-356`).
Switching is one step, as both addresses go to WMI in one call. The adapter the
busiest-first sort puts in front is any adapter, since its key is traffic counted
between the calls. A list may name an empty address, which `ip_fetcher.cpp:130-148`
takes like any other (`NoDns`), and a ping may report any time up to
`PING_TIMEOUT`, that of a lost one included.

### DnsSwitcher

One action is one call into COM or Windows with what the code does next; each
may fail at any time. `InitCalls` and `MethodCalls` are the two chains of calls
in `initliaze_wmi` and `switch_adapter_dns`: what a call takes, on which objects
it is made, what follows. `held` counts, per pointer, references taken less
references given back, `ptr` is the pointers that are not null; the code releases
by pointer and never clears one, which is why the two differ after a failure.
`present`, `servers` and `octets` are the machine; `Plug`, `Unplug` and `Traffic`
change it between any two calls. `vec_wmi`, `dwSize` and `vec` are the locals of
the listing. `MAKELONG` and `LOWORD` are arithmetic over a word of any width. The
other variables are history: what the properties compare the result with.
Reading the properties of one WMI object (seven `Get`s) is one step, as the
object is a snapshot.

### IpFetcher and FreshenDns

A JSON value is `null`, `bad` (of another type than asked for: cpprestsdk throws)
or good. `HeadError` is the chain of checks on `status` and `data`; `Items` is one
round over a view, with the skip, the throw in its middle and the `insert` that
never replaces; `LoadSuffix` and `StoreSuffix` are the two halves of
`++s_suffix`, between which another thread's may come. `FreshenDns` adds the
thread of `on_freshen_dns_info`: one fetch, the pings view by view with
`time_out++`, the sort, the rows for the window. The order of the views is the
hash map's, so any. A ping may report any time, also one at or above `time_out`:
the 0/0 of a call that asked nobody (`Interface.cpp:32`).

### Ui

`queue` is the message queue, `enabled` the four operation buttons (they are
enabled and disabled together), `kind`/`pc` the detached threads. `list`, `map`,
`sel` and `last` hold, for the adapter and the DNS list of the professional view,
the items, the keys of the item map, the selection and the `m_p_last_selected_*`
pointer. The jobs themselves (`DnsSelector`) are one step of their thread here:
they touch no state of the window. The thread of `OnSwitchAdapter` is the
exception and is split at every statement that touches shared state
(`ClearLast`, `ClearList`, `ClearMap`, `PostDisable`, `SpawnFreshen`, `SwitchEnds`).

External behaviour, modelled from how the code uses it: posted messages come in
order and before input; a disabled button takes no click; a modal move loop
(`dragging`) takes posted messages and runs none. The history variables
`switched`, `lost` and `initfailed` name the three circumstances under which the
program's guarantees are weaker, so that each property can say exactly when it holds.

### Program

Every step of `Ui`, with its data: a click carries the adapter and the address it
selected (`work`), a refresh reads the adapters one after the other (`read`) and
posts the rows (`posted`), each item of the list shows a row (`shows`). A query
that stops early posts what it has read: `wmi.cpp:64` and `241` report success
with part of the adapters. The adapters of the machine are a fixed set here;
`DnsSwitcher` lets them come and go. A job does
what `DnsJob` allows, between the click and its posted end. `overlapped` becomes
true with the first operation that starts beside another thread; `ProgramNext`
follows the program up to there. `behind` is the adapters an automatic job has
changed since they were last read: `on_auto_done` does not refresh the list.

### PaintManager

`alive` is the row objects that exist, `items` the list's `m_items`, `cleanup`
and `posted` are `m_aDelayedCleanup` and `m_bAsyncNotifyPosted`, `queued` counts
the messages `WM_APP + 1`. The pointers hold labels of rows, or `Button`, which
stands for the operation buttons and, as a thing to hover over, for every other
control that is no row: a row is covered by its labels, and an event a label gets
ends at its row. Each mouse or keyboard message is one action; the position of the
mouse is a parameter (what `FindControl` finds there, `None` for outside the
window). `FindControl` clips to the list, but a row tests its own unclipped
rectangle when it is told of a leave (`UIList.cpp:2862`): with rows of 35 pixels in
a list of 71 the last visible one is usually cut, and its rectangle may hold a
point where another control is hit. `Holding(pt)` is the rows that may hold the
point: over a row exactly that one of the list, over another control at most one;
a row no longer in the list may or may not.

`Worker` is the operations that may be under way at once. `Activate` is `OnClick`:
a refresh begins with `RemoveAll` on the window's thread, and its rows come later
(`Fill`), at any free addresses, those of destroyed rows included. A switch
(`SwitchThread`) runs `RemoveAll` on its own thread step by step (`Walk`,
`PostMessage`, `SetPosted`, `Walked`, `EmptyItems`), starts its refresh and enables
the buttons, before or after that refresh is through (`SwitchEnables`,
`ui.cpp:480`), so that a second operation may begin beside it. The handler of
`WM_APP + 1` is four steps (`AppMessage`, `Delete` per row, `Deleted`,
`EmptyCleanup`), because the steps of the other thread come between them. The
arrays themselves are not protected; a step on one of them is atomic here, so the
two-thread runs show the least that can happen. Where a second thread empties,
fills or walks the list during a `RemoveAll`, what becomes of `m_items` is
undefined: `met` records it and the model ends there.

### DnsPing

The path `Interface.cpp` takes through the vendored tool with its fixed
arguments: memset and defaults of `ConfigurationParameter`, `-n` (`ReadCount`),
`-w` (`ReadWait`), the check of the timeout before Windows 8 (`CheckTimeout`,
`ShortenTimeout`), the counted loop - or, if the count is 0 when it is looked at,
the loop of up to `UINT16_MAX` requests -, socket, send and receive, the wait past
packets that fail validation, statistics, and the verdict of `Ping`, which ignores
the result of `dnsping_main`. `Thread` is a set because statistics and timeout are
global: a second call can run when two operations overlap, which `Ui` shows
possible after a successful `OnSwitchAdapter`. `SocketTimeout` is read when a
socket is opened and again at each wrong packet; a socket opened while it is 0 is
`endless`, as 0 is no limit to Winsock. `LowerThanWin8` is fixed at the start.
`own` records what the call would have counted for itself, and how many of the
packets it counted had failed validation. Times are whole milliseconds; 0/0
converted to an unsigned integer is any value of `Garbage`.

## 3. Runs

| run | question | bounds | result |
|---|---|---|---|
| `DnsSelectorList` | which servers does a sequence of jobs choose, and does every job return? | 1 adapter, 4 configurations, 2 views, 2 addresses (one is also the first public server) or none, answered or lost | holds |
| `DnsSelectorAdapters` | what do jobs do to the machine, and is each a `DnsJob`? | 2 adapters, 4 configurations each, 1 view, 2 addresses or none, 2 times (one is `PING_TIMEOUT`) or lost | holds |
| `Ui` | exclusion, buttons, selections; do the buttons come back? | 3 threads, 1 item | holds |
| `DnsPing` | is the reported time right, what do wrong packets weigh in it, when does a socket wait for ever, does a call return that another one has interfered with? | 2 callers, 2 requests, default count 3, waits 1 and 3 against a `-w` of 2 (which is also the least), default timeout 4, uncounted limit 2, before and from Windows 8 | holds |
| `FreshenDns` | what does a fetch leave in the map, what does the window get? | 2 threads, 2 addresses, answers of up to 2 views of up to 2 items, good, null or of a wrong type at each place; counter modulo 3 | holds |
| `DnsSwitcher` | references, list, order, adapter reached | 2 adapters with IP, 1 without, 1 address, words of 2 bits, counters of 1 bit, 1 foreign row | holds |
| `Program` | is the program one job after the other, is the list true? | 2 threads, 2 items, 2 adapters, 1 address, symmetry and a view | holds |
| `PaintWindow` | where do the window's pointers and the removed rows go, on one thread, and is every removed row destroyed? | 2 rows, 2 labels each, 2 operations | holds |
| `PaintThread` | what stays sound when `RemoveAll` runs on the switch thread? | 2 rows, 1 label, 2 operations, symmetry and a view | holds |
| `AssertDnsNotEmpty`, `GoesOnOnlyWithAnswer`, `AssertAdapterKnown` | a statement of the program's text | as the corresponding run | violated, see section 6 |

**Why the bounds are enough.** *DnsSelector*: two views are the least with which the
code reaches both branches of "is there a second server", name one address twice, or
tie; the address that is also `DEFAULT_DNS_1` makes both DHCP backup rules fire; the
four configurations are static without, with one and with two servers, and
automatic. An empty address in the list is refused as first server and replaced as
second. Jobs run one after another without limit: the state has no counter over
jobs. `NET_WORK_INTERFACE_REQUEST_MAX_TIME` is the code's 3. `time_out = 9` and
`PING_TIMEOUT = 99` stand for 9999999 and 0xFFFFFFFF; only their order matters. Two
adapters suffice for `JobEffect`, which speaks of two: the fallback's and the
target. *Ui*: three threads are the most the code runs together until a second
overlap (switch thread, its freshen, and the operation the early enabling admits);
`Room` is the bound on thread slots, it blocks only further clicks and always leaves
a switch thread the slot of its freshen. One item suffices for dangling selections;
a second only adds copies. *DnsPing*: waits on both sides of the timeout give the
validation loop a second round; `-w` equal to the least it may be (500 in the
program) takes the branch to 1 ms before Windows 8, and the default left by another
call the subtracting one; two requests are the least with a mean, and a default
count of its own shows a count left over; two callers are all that one overlap of
operations brings; the true limit 65535 becomes `StatMax` so that the uncounted loop
ends within reach. *FreshenDns*: two views are the least with a repeated name, a
nameless one beside another, or a bad one after a good one; two items the least with
a repeated address or a throw half way. The second thread only ever sees an answer
with a nameless view, the one kind that touches what the threads share; modulo 3 the
counter wraps within two answers. *DnsSwitcher*: one index is one bit wider than the
word and its low word is another adapter's index, so that the cut reaches somebody;
a 1-bit counter wraps while a list is made. *Program*: two threads and two items
admit everything up to the first overlap (one item per adapter, one operation and
its successor's click). All adapters start static without servers: automatic ones
differ in nothing that `JobsInTurn` and `ListIsTrue` read except `Columns`, which
shows both columns alike. `View` leaves out what no later step and no property of
that run reads. *PaintManager*: two labels let the mouse leave a label without
leaving its row, two rows let one be destroyed while another is visited; a third
only repeats either. Two operations are the switch and the one its early enabling
admits, and with two threads in the list the model ends. There are no state
constraints.

`CHECK_DEADLOCK FALSE` is set for `Ui`, `Program` and `PaintThread` only (and for the
run of `Ui`'s finding): after `MessageLoopEnds` the process is gone, `Program` is not
followed past an overlap, and `PaintThread` not past two threads in the list.

**What the properties say.**

- `JobEffect`: a failed job leaves every adapter as it was, except the one its
  fallback has set, and that only after every request has failed; a successful
  one changes at most its target in addition, to the two addresses it chose.
- `BestTwoChosen`: no server left out was faster than one of the two chosen.
- `BackupIsAnotherServer`: the same address is set twice only when the list
  names it twice.
- `EmptyOnlyWithoutAlternative`: the only circumstances of an empty address: named
  by the user or by the list, or no usable second server in the list and a static
  adapter without another of its own.
- `RepeatSettles`: asking again for a server just set keeps its backup in a manual
  job; an automatic one that needs a backup keeps it too, except that an automatic
  (DHCP) adapter gets a public server and a pair of equal servers leaves none; what
  it chooses then stays, so the rules do not oscillate over a sequence of jobs.
- `JobReturns`: a job ends.
- `OneOperation`: from the click to the end of its thread no second operation
  starts, although disabling is itself only posted - until an `OnSwitchAdapter`
  has succeeded, whose own freshen then runs under enabled buttons.
- `QuietMeansEnabled`, `ButtonsComeBack`: every way an operation can end, in
  every overlap, leaves the buttons enabled, unless initialisation failed or a
  drag lost the message. `ButtonsComeBack` also excepts two jobs that ping at once
  (`PingsOverlap`), of which one need not return.
- `SelectionIsLive`: no selection points to a destroyed item; map and list agree.
- `MeanOfOwnAnswers`: a call alone that sent requests and reports success had all
  of them answered, and reports a time between its fastest and slowest.
- `PingReturns`: once no other call goes on a call returns, whatever the others
  did to the shared statistics and timeout and however its requests are answered -
  unless it waits on an endless socket.
- `EndlessOnlyByOverlap`: and that a call alone never does, on any Windows.
- `WrongAnswersCost`: from Windows 8 on each wrong packet counted as an answer enters
  the mean with a whole `-w` at least, so it cannot make a server look fast. Before,
  the 500 ms of the program become 1 ms (`Main.cpp:118`) and it does.
- `KeepsPromise`: `DnsSelector` implements `DnsJob` (refinement, liveness included).
- `ListIsExact`: after a successful fetch the map has exactly the views and
  addresses of the answer, the first of a name winning, as long as no other thread
  took the counter in between.
- `RetryStartsEmpty`: a fetch that may be repeated has left the map empty.
- `RowsAreTheList`: the window gets nothing of a failed
  fetch, and of a good one every address once, in ascending order, lost ones below
  all answered ones that report less than `time_out`.
- `ReferencesInOrder`: no call on an object that is not held; everything given
  back once on every path, unless initialisation failed (then twice).
- `ListComplete`, `TrafficIsOwn`, `BusiestFirst`: the joined and sorted list, while
  adapters come and go and counters move.
- `SwitchContract`: a failed switch changes nothing, a successful one at most the
  adapter whose index is the id's low word.
- `JobsInTurn`: the whole program refines `DnsJob` until an `OnSwitchAdapter` has
  succeeded.
- `PointersAlive`: the pointers through which events are delivered never point at
  a destroyed control, whatever is pressed, hovered or focused when a refresh runs.
- `ItemsAlive`, `NoRowLost`, `CleanupQueued`, `RemovedIsDestroyed`: the delayed
  cleanup: not before the list has let go of a row, no row forgotten, a message
  for those that wait, an end to the waiting. On one thread all hold.
- `ItemsAliveAfterRemoveAll`, `OneCleanupMessage`: what is left of them with the
  switch thread, also beside another operation, as long as no two threads are in the
  list at once: damage to the list ends with `RemoveAll`, and the flag that may get
  stuck at least never floods the queue. Two `RemoveAll`s at once may post twice.
- `LeaveNeededHovered`: only the row under the mouse waits for the mouse to leave,
  or one that the list's edge cuts while the mouse is over another control, as long
  as no waiting row has been destroyed.
- `ListIsTrue`: when all is quiet the adapter list has no adapter twice and shows
  of each what the machine has; only an automatic job leaves it behind. It may lack
  adapters: a query that stopped early is a success.

Each property of a passing run has a mutant of the code (`mutants` in
`PROJECT.json`; operators marked "Mutant of" in the modules) that violates it.

## 4. Fairness

- `DnsSelector`: `WF(Step)` - HTTP requests carry time limits, pings that no other
  job's overlap do as well (`EndlessOnlyByOverlap`; this module runs one job at a
  time), WMI calls return. Starting a job is not fair: nobody has to click. It implements
  the `WF(End)` of `DnsJob` (part of `KeepsPromise`).
- `Ui`: `WF(Pump)`, `WF(MessageLoopEnds)` and `WF(Thread(w))` - the message loop
  keeps running, jobs return (`JobReturns`, `PingReturns`), Windows schedules
  every thread. Input, and the end of a drag, are not fair. As jobs that ping at
  once need not return, `ButtonsComeBack` claims nothing of behaviours in which two do.
- `DnsPing`: `WF(Step(t) /\ ~Endless(t))` per caller - the scheduler is fair to
  threads, and a receive ends by its timeout if its socket was opened with one; a
  socket opened while another call had the timeout at 0 may wait for ever, and
  nothing is assumed of it. Which answer arrives is never fair: packets may
  be lost or wrong for ever.
- `PaintManager`: `WF(~met /\ Cleaning)` - the message loop handles what is
  posted. Input, the fill and the switch thread are not forced.

Strong fairness is not used anywhere. `DnsSwitcher`, `FreshenDns` and `Program`
state safety only.

## 5. Proofs

All theorems hold for all values of the constants that satisfy the named
assumptions of the modules. Every invariant a passing run checks is proved, and
the two action properties and the refinement (its safety part) as well; the
table of theorems, with the property each states, is in `PROJECT.json`.

**DnsSelector.** Assumptions: `AdapterAssumption`, `DnsAssumption`,
`InfosAssumption`, `TimeAssumption`, `MaxTimeAssumption` (the public addresses
differ and are not empty, the constant of a lost ping is below `PING_TIMEOUT`, the
greatest unsigned number, which no time exceeds; all are facts of the code's
constants and types). Of the fetched addresses nothing is assumed: they may be empty.

- `TypeCorrect` needs more than types: `n` may grow only while it is below its
  limit, and the fallback needs a target. `Control` states which values each
  place of a job allows; `TypeOK /\ Control` is inductive (`ControlInit`,
  `ControlStep`, `ControlAlways`).
- `EffectOfJobs`: `JobEffect` is preserved given `TypeOK /\ Control`. Lemma
  `SwitchEffect` reduces `switch_adapter_dns` to "same or assigned"; only the two
  actions that call it and the two that start a job can disturb the property.
- `TwoFastest`, `BackupDiffers`, `EmptyBackup`: the chosen addresses are explained
  by the measured list at `list` and `switch`. `Chosen` (every pair is measured
  there, and `BestTwoChosen`) is inductive; `BackupFacts` states what the
  backup rules return.
- `RepeatStable` follows from `RepeatFacts`, about `ManualBackup` and `Backup` over
  every configuration, automatic ones and equal pairs included, given how `dns_2` was
  chosen.

**Ui.** Assumptions: `ItemAssumption`, `KindAssumption`. The set of threads and
of items is arbitrary. The inductive invariant is `TypeOK` together with

- `Gate`: while no switch has succeeded, at most one thread is active, and while
  it is, either the posted disabling is the only message in the queue and the
  window is not being dragged, or the queue is empty and the buttons are disabled.
  This is why delayed disabling is safe: input is only taken from an empty queue.
- `Quiet`: when all threads are through and nothing was lost, an empty queue means
  enabled buttons, and a non-empty one does not end with a disabling.
- `SelectionIsLive`, inductive with the two.

Theorems: `TypeCorrect`, `ButtonsExclude`, `ButtonsRecover`, `SelectionsLive`.
Lemmas on the last message of a queue under `Append` and `Tail` are stated once and cited.

**DnsJob.** `ImplementsJob`: every step of `DnsSelector` is a step of `DnsJob` or
a stutter. `TypeOK /\ Control` of `DnsSelectorProofs` is all that is needed: it
says in which place of a job `fallback` and `target` are set. One lemma per way a
step can map: `BeginMaps`, `ReturnMaps`, `InsideMaps`, `FallbackMaps`, `SwitchMaps`.

**DnsPing.** `TypeCorrect` needs that the statistics are never decremented below
zero, for any overlap; the shared timeout may be, since two calls can both subtract
from it, so it is an integer. Assumed of it is `TimeoutAssumption` (the `-w` of the
program is one that DNSPing accepts). For the mean, `Alone` says that while no call
has overlapped another at most one is in progress, and of that one: the global sums
are its own (`Sums`), the place it has reached fits its counts (`Progress`), and
what it last told is right (`Told`). `Sums` bounds the total between `min * got` and
`max * got`, and from Windows 8 on below by `wrong * WaitingTime`; it survives an
answer by `CountSums`. `MeanAtLeast`, `MeanAtMost` and `DivMono` carry the bounds
through the integer division of `Interface.cpp:35`. `Timed` follows the timeout of a
call alone from one place to the next: on either kind of Windows it is positive when
a socket is opened, which is `AloneNeverEndless`.

**FreshenDns.** Assumptions: `UintAssumption`; `NullAssumption` (no name is the
JSON null); `AnswerAssumption` (what a service answers is JSON, and its views are
fewer than 2^32: an answer is held in memory as one object per view, and with
more of them two nameless views could get one number); `TimesAssumption` (times
are unsigned; no bound is assumed).

- `RetriesStartEmpty`: `NotYetFilled` (a thread before its answer, or whose
  request failed, has an empty map) is inductive, since `HeadError` never returns
  the result of a failed request (`HeadErrorType`). `FailuresShowNothing`:
  `FreshInv` follows the failure from the fetch past the pings to the sort.
- `RowsShowTheList`: `MeasuredInv` says that `vec` holds a pair of the map at most
  once, with its uptime and either an answered time or a lost ping at or above
  `time_out`, and all pairs from the sort on. `SeqsAreListings` and
  `SortShowsList` carry that through any order the sort may give: as lost pings
  count upwards from `time_out`, sorting by time puts them behind all that is below it.
- `TypesAreRight`: `FetchTypeInv` says of a thread inside `parse_respond` that its
  answer has passed `HeadError` (`DataOK`) and that it stands at one of its views.
- `ListStaysExact`, the longest of the proofs, is about the map of a fetch no
  other one raced. What `MapVipUptime` computes is a fold; `FoldIsRecursive`
  unrolls it and `MapIsMentions` gives its closed form (each address with the
  uptime of its first mention), by a least counterexample, since the
  provers cannot instantiate an induction rule. `Walk(data, n, m, S)` says what the
  map `m` holds after `n - 1` views: each that counts is there, and nameless ones
  under pairwise different names of the set `S`. `Used` counts the names given out
  backwards from the shared counter, which needs no record of where it stood when
  the thread began (`Back`), and makes a new name differ from all before it also
  when the counter wraps. `WalkInv` (every undisturbed thread walks) and `SuffixInv`
  (between `LoadSuffix` and the insert the thread's copy fits the counter unless it
  was raced) are inductive together.

**DnsSwitcher.** Assumptions: finitely many adapters, distinct indexes, and word
and counter widths that are positive.

- `SwitchKeepsContract`: `EffectInv` says that nothing changes before
  `ExecMethod` and what it may change; `LowWordOfLong` (arithmetic of `MAKELONG` and
  `LOWORD` for every width) that the id leads to an adapter with the same low
  word.
- `ReferencesStayInOrder`: `HeldInv` gives for every place exactly the set of
  references held (`Exactly`), until initialisation fails. `TypesAreRight` adds how
  far below zero a count can get after that.
- `ListStaysComplete`, `TrafficStaysOwn`, `BusiestStaysFirst`: `EnumInv` (what has
  been enumerated is listed once, and from the end of the enumeration on that
  includes whatever stayed), `MachineInv` (an adapter's counter is among those
  it has shown since the call began) and `ReturnedInv` (the three properties, and
  the order of the result, until the caller has it) are inductive. The sort is
  used only for what `std::sort` promises: its result is a permutation, and no
  element is greater than one before it.

**Program.** Assumptions: those of `Ui`.

- `ProgramIsUi`: each step is one of `Ui` or leaves its variables alone, so `Ui`'s
  theorems hold in the composition. `ProgramRunsJobsInTurn` then needs of `Ui` only
  its invariant - a click finds every thread off - with `WorkType` and `InTurn` (a
  thread inside a job is `runner`, and its record is the job the click began).
- `ProgramTypesAreRight`, which holds whatever overlaps: `DataInv`. The part that
  takes work is `RowsTravel`: there are as many lists of rows in `posted` as
  functions in the queue that take one (`CountAppend`, `CountTail`), each for
  adapters only.
- `ShownIsTrue`: the property speaks of quiet moments, so its invariant `ListInv`
  has to say what holds in between, up to the first overlap. `Alone`: two threads
  at once are a switch that has only to enable the buttons, and its refresh.
  `Travelling`: one list of rows is under way at most, and then nothing runs but
  such a switch. `Emptied`: while rows are read or under way the list is empty, so
  a delivery is never added to old items. `RowsTrue`: rows read or under way are
  the machine's, as no job can run meanwhile. `EachOnce` (no two items of one
  adapter) and `ShownTrue` say it of the list, except (`Doomed`) between the success of
  a switch by hand and its clearing of the list, where the list shown is wrong.

**PaintManager.** Assumption: `PaintManagerAssumption` (`nullptr` and a button are
no labels). With or without the switch thread, and for any number of operations,
`ListInv` (what `RemoveAll` still has to visit exists and does not wait yet) and
`MessageInv` (between the test and `PostMessage` the queue is empty) hold while no
two threads have met in the list (`Unmet` is both under `~met`); `Unmet` is
inductive and gives `RemoveAllHeals` and `OneMessage`. `~met` is needed: with two
`RemoveAll`s at once both may find the flag clear and post. Without the switch
thread, `RowsInv` says where every row is at each place of the handler, and
`PointersInv` adds which rows may wait for the mouse to leave and that they exist
until one is destroyed; they give the other five theorems, which are stated for
`~SwitchThread` since with it they fail (section 6).

The inductive invariants the proofs rest on were checked with TLC on the
instances above before they were proved.

**Only model-checked.** The liveness properties (`JobReturns`, `ButtonsComeBack`,
`PingReturns`, `RemovedIsDestroyed`, the fairness in `KeepsPromise`): fairness and
`ENABLED` are beyond the prover. No recursive operator is used; `Select`, `Sort`
and `GetIfTable_2` state what the sort guarantees, and that a sorting function
exists for every input is not proved.

## 6. Findings

Each is a run that TLC refutes; the quotes are in `PROJECT.json`.

1. `AssertDnsNotEmpty`: a one-server list and a static adapter with no other
   server reach `Assert(!str_dns_2.empty())` in `wmi.cpp:250`; a release build
   reports an invalid address although a good server was found.
2. `GoesOnOnlyWithAnswer`: lost pings are recorded as 9999999 and compared with
   0xFFFFFFFF, so "no DNS to switch to" is never reported when every server is lost.
3. `AssertAdapterKnown`: `OnSwitchAdapter`'s thread changes list and map without
   the window thread; a click in between meets an item the map does not know.

With `SwitchThread = TRUE` the properties of `PaintWindow`, `TypeOK` apart, fail in
the model; they follow from the third finding's cause, so they are no runs of their
own (put them into `PaintThread.cfg` in place of its `VIEW`, `SYMMETRY` and invariants
to see the traces). Two of them in words. `ItemsAlive`: the same thread's `RemoveAll`
hands rows to duilib, whose handler on the window's thread may destroy them while
the list still holds them; duilib's comment promises to "delay the cleanup" for the
sake of the calling code (`UIManager.cpp:1590-1591`). `RemovedIsDestroyed`:
`PostAsyncNotify` posts first and sets its flag afterwards (`UIManager.cpp:2842-2844`);
with the handler in between, the flag stays set, nothing is posted again, and rows
removed from then on are never destroyed. Two `RemoveAll`s at once, which the early
enabling of `ui.cpp:480` admits, are not followed: both may post between the other's
test and its assignment.

Seen while modelling, part of the models, and contradicting no statement of the
repository: the return value of WMI's method is never read, so a refused change
is reported as success (`wmi.cpp:324`); after the fallback the address kept as a
backup is the public server the job has set itself (`dns_selector.cpp:245`); a
ping that `dnsping_main` rejected counts as answered (`Interface.cpp:27`); a
failed initialisation of WMI is cleaned up twice (`wmi.cpp:467`); the interface
table of a successful listing is never freed (`performance_counter.cpp:55`); an
enumeration that fails half way gives a shorter list and success (`wmi.cpp:64`);
a call to `Ping` that opens its socket while another one has the shared timeout at 0
waits without a limit (`Process.cpp:94`); before Windows 8 the timeout of 500 ms
becomes 1 ms and a wrong packet makes a server look fast (`Main.cpp:118`);
`ReapObjects` leaves a destroyed row in `m_aNeedMouseLeaveNeeded`, whose members a
later mouse move calls (`UIManager.cpp:1261`); a press on a row that is destroyed
before the release leaves the mouse captured (`UIManager.cpp:1337`).

## 7. Not modelled, and possible extensions

Not modelled: log and page controls, colours and layout, `ad_performancer`,
string conversion, version, DNSPing's other options. Of the vendored libraries,
which are almost all of the repository's lines, only what the program's own state
depends on is: of duilib the window's pointers and the removal of rows, and not
its drawing, layout, other controls, timers, picture and archive decoders; of
cpprestsdk what its JSON accessors do to the values the program reads. Its
`pplx` tasks are not in this build at all (for this toolset `pplxtasks.h` includes
the compiler's own `ppltasks.h`), and the server and WebSocket halves are never
called. What a detached thread does between `WM_QUIT` and the end of the process
is cut off at `MessageLoopEnds`.

Possible extensions:

1. `Program` past the first overlap: which of `ListIsTrue` and of `JobEffect`
   survives two jobs at once, and with `DnsPing`'s shared statistics.
2. A proof that every finite list can be sorted as `Sort`, `Select` and
   `GetIfTable_2` ask, so that these steps are never blocked; on the instances TLC
   finds no deadlock there.
3. The last moments of the window: threads that still post after `WM_QUIT`.
