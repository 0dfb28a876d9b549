# gnome-topbar in TLA+

gnome-topbar is a desktop panel for the niri compositor. It has three crates: the GTK front end
(`src/crates/topbar`), the services behind it (`src/crates/topbar-services`), and what both share
(`src/crates/topbar-core`). Every service is one tokio task that owns its state, takes commands off a
bounded queue and publishes snapshots; the front end runs on one GTK main loop, draws snapshots and sends
commands. So the hard behaviour is never a data race. It is the order in which one task meets its
commands, its timers, the answers to what it asked, the world's changes (network, bus, sleep, monitors)
and the configuration's reloads; and what survives a failed write or a restart.

This directory holds TLA+ modules of that behaviour, the TLC configurations that check them on small
instances, and proofs, for every value of the constants, about notifications and their restarts, the state store, sleeping and
waking, the services that read the world by themselves, reloads and bars, the levels and choices the panel shows, and
the layout of a bar.

Contents: [the system](#the-system) · [modules](#modules) · [runs](#runs) · [bounds](#bounds) ·
[fairness](#fairness) · [proofs](#proofs) · [where the code and its documents disagree](#where-the-code-and-its-documents-disagree)
· [not modelled](#not-modelled) · [plan](#plan)

Paths below are relative to `src/crates/topbar-services/src` unless they begin with `topbar/`
(`src/crates/topbar/src`), `core/` (`src/crates/topbar-core/src`) or `docs/` (`src/docs`).

## The system

### How the parts meet

- **Commands.** A widget calls a handle; the call is spawned on the runtime (`topbar/bridge.rs`) and ends
  in the service's queue. Two calls made by one widget are two tasks: they may arrive in the other order.
  `send` waits when the queue is full.
- **Snapshots.** A service publishes on a `watch` channel: a reader sees the last value and may miss those
  between. Anything computed from a snapshot may be stale when the command made from it arrives.
- **Answers.** HTTP requests, subprocesses and D-Bus calls are either awaited in the task's loop (nothing
  else is handled meanwhile) or run off it and come back as an event. Which of the two it is decides
  which interleavings exist, so every module says which.
- **Daemons.** NetworkManager, BlueZ, UPower, PipeWire, PulseAudio, niri and applications change at any
  time, and say so in signals that arrive later than the change, and later or earlier than answers.
- **Reload.** The front end reads the file, computes a delta, replaces the shared cell, rebuilds the
  widgets the delta names and tells the services whose section changed.
- **Sleep.** `lifecycle` follows logind and counts resumes; one consumer in `runtime.rs` refreshes every
  service in turn after each.
- **Disk.** All remembered choices live in one file that one writer owns.
- **Command line.** A second process: for most commands it talks to the panel's socket, for the volume,
  brightness and media keys it goes past the panel to the machine.

### Inventory

What each component keeps, does, and must get right. "M" is modelled, "P" partly, "–" not (see
[not modelled](#not-modelled)).

| component | | module | state | hard part | what makes it correct |
|---|---|---|---|---|---|
| notifications | M | `Notifications`, `NotificationRestart` | records, history, banners with timers, unseen, DND, next id | three lists edited apart; caps; ids reused or restored | lists agree; senders hear of every end once; critical is never timed and gets on screen; a held banner stays; saved = shown |
| state store | M | `StateStore`, `Memory` | document in hand, document written, window, temp file | failures and exits between any two steps | no section clobbered; edits reach disk in order; each lands |
| lifecycle | M | `Wake` | delay lock, suspended flag, resume count | next sleep announced during a round trip | told before the lock goes; last signal heard wins; lock held while promised |
| service runtime, resources | P | `Wake` | which services run, resume consumer; pair of CPU samples | one consumer awaits every service in turn; timer races the discard | every resume is carried through; no percentage across a sleep |
| weather, refresh | M | `Weather`, `Common` | place, settings, phase, request, owed fetch, back-off; the location dialog's rows and searches | answers for something that changed meanwhile | never blank after a failure; always another fetch; right in the end; rows are the newest search's |
| crypto | M | `Crypto` | entries, prices, request, owed fetch; the settings view | a view editing a list read from an old snapshot | phase fits prices; the user's choice outranks the file |
| custom widgets | M | `Custom` | registry, a task per section, scripts that run | a replaced task's script goes on | registry follows the file; loading ends |
| updates | M | `Updates` | section, check, owed check, queue | commands wait behind a subprocess | checking is true; a resume's check is made |
| notmuch | P | `Notmuch` | last stamp, last list | mail between the two commands | a list that stands is not older than its count |
| inhibitor | M | `Inhibitor` | lock, published flag, queue | logind dies during a call | shown = held; shown on = honoured |
| reload | M | `Reload` | running configuration, what each part copied | two readers of one file; a delta kept apart from what parts read | every part shows the running file; last save wins |
| configuration | M | `Config` | places a file may be, what is said of it | loads at start, by the watcher, by command | nothing is dropped in silence; the usable runs |
| bar manager | M | `Bars` | bars by connector, queued syncs, retries | bursts, half-arrived and replugged monitors | one bar per monitor; hidden stays hidden |
| bar layout | P | `Layout` | widths and places of three sections | a center wider than what is left | sections fit, never overlap |
| change attribution | M | `Common` | recent requests of ours | window and tolerance | our echo is ours, nobody else's is |
| audio | M | `Sound` | levels, devices; the audio thread's queries | optimistic values, late echoes, reconnects | at rest shown = server's |
| brightness | M | `Backlight` | level; a throttle and its gate | values faster than writes | the last value lands |
| network | M | `Network` | access points, one attempt, prompt, stash, VPN wait, radio flag | prompt deadline against a late answer; signals that cross reads | a password goes to its own attempt; prompts end |
| bluetooth | M | `Bluetooth` | devices, browsing, scanning, one question, pending pairings | pairing off the loop while questions are on it | a question ends; nobody looks unseen |
| media | M | `Media` | players, pin, covers, the card | late covers, vanished players | the cover is the track's; the pin's player is there |
| tray | M | `Tray` | items, registry, watcher's name, the menu | names lost mid-registration | icons are items; ghosts go |
| niri | M | `Niri`, `Requests` | replayed state, back-off; the request connection | reconnects and kicks; late replies | state is the last session's; a reply goes to its asker |
| power profiles | M | `Profiles` | active profile | own change between optimism and refusal | shown = daemon's |
| battery | M | `Battery` | two sources, limit | two files that must never cross | said to be set = set |
| privacy | M | `Privacy` | nodes, links, listeners | ids used again | shown = who watches |
| headset | M | `Headset` | reading, tool | a tool that hangs, reloads | reading is the tool's |
| ipc, command line | M | `Ipc` | lock, socket, connections, queue; the client's deadline | killed at any point; two clients | one panel; a client is told the truth |
| subprocesses | M | `Subprocess` | running programs, pipes, deadlines | children that keep the pipe | an answer is whole; none outlives its caller |
| popovers | P | `Popovers` | what is open, fades, catchers, lists | a fade against a new open | a catcher has its popover |
| blur | M | `Blur` | manager, attachments | surfaces mapped again, capability lost | a region fits its surface |
| toasts | M | `Toasts` | cards on their way in and out, holds | hovers overtaking each other | banners = daemon's list |
| OSD | M | `Capsule` | a surface per monitor, fade, timer | a change in mid-fade | what is shown leaves |
| hold to confirm, power | M | `Holding` | rows counting, captions | two hands, repeats | letting go cancels |
| tooltips | M | `Tooltips` | one window, its anchor | anchors that go | a tip is its widget's |
| connectivity, bridge, wayland tokens | P | in their users | flags | – | readers hear changes |
| animation | P | frames in `Capsule`, `Niri`, `Popovers` | a run and its frame | retargeted or superseded in mid-run | it ends where it was last sent |
| bar widgets, style, start-up, logging, fakes | – | | geometry, text, pixels | – | – |

`PROJECT.json` lists every component with its files, and under "hazards" each hard spot at its line with
the properties that would catch it going wrong.

## Modules

Names follow the source where TLA+ allows it. In `PROJECT.json`, "map" names the lines each definition
stands for: one definition for each piece of code, the helpers that stand for a part of it, and most of what an external
party may do, being under that entry. A definition named `X_Something` beside `X` is a mutant: `X` with a slip a programmer could make.
No specification uses one; each shows that some property notices that slip.

### Notifications

`Notifications` is `notifications/task.rs` with `policy.rs`. The task's struct is the record `daemon`
(`connected`, `dnd`, `next`, `history`, `toasts`, `timer`, `records`, `unseen`), and
the helpers (`RemoveToast`, `Close`, `DismissToast`, `ShowToast`, `Deliver`, ...) are functions from record
to record, composed in the order of the Rust calls; `signals` and `reply` are what one step emits and answers,
and `saved` is the document last handed to the store. An action is one turn of the task's `select!`: a
request from the bus (`Notify`, `CloseOne`), a command of the panel, or `ExpireDue`. A handler that closes
several notifications puts them in `loop`, and `LoopStep` closes them one by one before the next turn (`Idle`).
`Tick` is time. Urgency, transience and timeout are kept, text and icons are not.

`NotificationRestart` adds the `disk`, to which a document handed over is saved at any later time, and ends and
restarts the panel between any two steps. It takes the store by its promise (`Memory`), which
`StateStore` is shown to keep.

### State store

`StateStore` is `state_store.rs`; its first part is the file's content by section. `Open` (migration of the old directory
and the first read), `Update` by a handle, the writer's `Receive`, `Absorb` and `Elapse`, then `CreateDir`,
`WriteTemp`, `Rename`, each of which may fail (`GiveUp`), and `Exit` at any point. `Memory` is the promise
seen by users of the store: what is remembered is a prefix of the edits made, applied in order, and
only grows; it is stated of any kind of document and of edit. `StateStore` implements it (`KeepsEditOrder == Remembered!Spec`, with what is on disk as
what is remembered).

### Sleep and waking

The first part of `Wake` is `lifecycle.rs` with logind as external actions (announce, lose patience, sleep, resume, die,
restart). The second is the resume consumer of `runtime.rs`: the services in the order it
asks them, their bounded queues, which of them run (`Demand`, from what is placed on the bar; dormant
ones keep an open queue nobody reads), which answers are awaited, and the CPU sampler of `resources/task.rs`.

### Services

`Common` holds what several services share, as operators: the interval and ladder of `refresh.rs`, and the echoes of
`change.rs`. `Weather`, `Crypto`, `Custom`, `Updates`, `Notmuch`
and `Inhibitor` are one task each; an action is a turn of the loop, and an await inside a handler ends
the action where another party can act. So in `Updates` and `Notmuch`, which run their subprocess in the loop, commands
queue up behind it; in `Weather`, `Crypto` and `Custom`, which spawn the request, every command can
arrive between a request and its answer; and `Inhibitor` makes D-Bus calls during which logind may
die. `Crypto` also has the settings view that edits the list it last drew, on a task per click. `Weather` also has
the location dialog: a search per pause in typing, each on a task of its own, numbered by `generation` and refused if the task believes the network down when it takes it (`TakeSearch`), rows that
are those of the newest (`RowsAreNewest`), coordinates typed by hand, and a save that goes to the task.

`PanelServices` puts the six side by side, each an instance whose parameters are the fields of one record constant
(`Market`, `Scripts`, `Packages`, `Inbox`, `Login`; the weather takes `Card` or `Dialog`, for the part of it that is looked at). They share no variable, so their composition is a shuffle of
their steps, and no property of one of them can tell a shuffle from that service's own behaviour. So in
each behaviour one service, the *subject*, takes every step. That is the full composition projected on the
subject: no property about a single service gains or loses anything, and the state space is the sum of
the six rather than their product. Each property states one theme for all services it applies to
(for instance `KeepsTrying`: nothing goes quiet for good). Where services do meet - the
network read before its readers on a resume, a reload's settings sent in an order - the meeting is
in `Wake` and `Reload`.

### Surfaces

`Reload` is `topbar/reload.rs` with `core/delta.rs`. A file is broken or gives each section a value. The watcher
and the command both read and install; `Install` computes the delta, replaces the cell, rebuilds the parts
the delta routes to (`drawn[p]` is what part p copied when it was built), restyles, and sends
settings to services on tasks of their own (`sent`, `told`). `Bars` is `topbar/bar/manager.rs`: monitors
are listed before they have a name or a size, hotplug signals queue syncs, a sync waits a bounded time for
geometry, and a reload rebuilds every bar. `PanelSurfaces` puts them side by side in the same way.

### Devices

The modules of `PanelDevices` have three variables each: `panel` (the task and the widget that shows it), `world` (the
other side) and `wire` (what is under way between the two: signals, calls, answers, commands). A handler is
a function on the three together (`Now`), composed as the Rust calls are, and `Become` takes its result. What
the other side does unasked is bounded by `Moves`, what the user does by `Clicks`, and each instance chooses
what may happen in it (`Does`), so a service comes as several subjects.

- `Network` is `network/task.rs` with the secret agent (`secret_agent.rs`), the flow of one attempt (`flow.rs`) and the
  password box of the card. NetworkManager acts as the repository's own double (`fake.rs`) does, which is where the
  project says what it believes of it. Calls may be refused, a question of the agent's may name no network (`Unnamed`: an SSID that
  cannot be read, which the code takes for the attempt's own), and a password is sent to whatever attempt it meets, with the network its box
  was open for kept beside it. Subjects `joining`, `crossing` (a password under way while one attempt gives way to another), `roaming`,
  `listing`, `vpn`.
- `Bluetooth` is `bluetooth/task.rs` with its agent, the pairing tasks beside the loop, the ordering of the list and the
  accordion that starts and stops discovery. Subject `pairing`.
- `Tray` is `tray/task.rs` with the watcher, which is the panel's own or another's, one follower per item, the overflow and
  the menu popover. Subjects `tray`, `menu`.
- `Media` is `media/task.rs` with the rule of which player matters (`relevance.rs`), the debounced cover, the card, and
  the command line's key, which surveys the players for itself. Subjects `players`, `covers`, `card`, `mediakeys`.
- `Popovers` is `layer_popover.rs`, `popovers.rs` and `expander.rs`: hosts, fades frame by frame, catchers, the
  registry, lists that unfold. Subjects `popover`, `outputs`, `lists`, `again`.
- `Blur` is `wayland/blur.rs` and the surfaces that own a region; the compositor may withdraw the protocol. Subjects `blur`, `withdrawn`.
- `Toasts` is `toast.rs` and the notification column, before a daemon reduced to its lists. Each hover, click and
  switch is a task of its own. Subjects `banners`, `hover`, `column`.
- `Holding` is `hold.rs`, the power card and the captions. Subjects `hold`, `keys`, `panels`.
- `Tooltips` is `tooltip.rs`. Subject `tips`.
- `Ipc` is `ipc.rs` on both sides, `control.rs`, `commands.rs` and `ipc_client.rs`: processes that are started and killed, lock, stale
  socket, connections, the queue to the main loop, two deadlines, the version handshake, and the keys that read a device, compute and write
  it from a process of their own. Subjects `started`, `commands`, `unlocked`, `presses`, `mixed`.
- `Config` is `core/config.rs`: where a file is looked for, the parse of every table of the schema key by key with the warnings and
  errors it collects, the lists of widgets, and loads by start, watcher and command. Subjects `schema`, `typos`, `arranged`, `places`.
- `Subprocess` is `proc.rs`: a captured program with its pipe and deadline, a detached one with its grace,
  the children either leaves. Subjects `programs`, `families`, `clicked`.
- `Layout` is `section_layout.rs` with `core/layout_math.rs`, in whole pixels. Subject `sections`.

### Levels

`PanelLevels` puts together, in the same form, the services of which the panel shows a level or a choice that may be set here and
elsewhere: `Sound` (`audio/*`, with the echoes of `Common`, which are `change.rs`), `Backlight` (`brightness/*`), `Capsule`
(`surfaces/osd.rs`), `Battery`, `Profiles`, `Privacy`, `Headset`, `Niri` (the event stream, the keyboard label, and the strip: its slots, its sliding pill, clicks on it and the wheel) and
`Requests` (the connection on which windows are focused). Power profiles have the daemon's two bus names, each of which comes and goes by itself. Time is a choice of which timer is due, apart from the window of
an echo, which is counted.

A subject of `PanelLevels` is a part: a record of its kind, of the machine it is looked at on (devices, files, steps,
monitors, workspaces) and of what may happen there. `Parts` is a constant, so what is proved is proved for every such
table; the one that is run is `MCParts`. `ConstantsAssumption` asks of a table what its services assume of the machine:
thresholds that make sense, a scale that is not empty, a value that stands for none.

### Proof modules

`NotificationsProofs`, `WakeProofs`, `ServicesProofs` (of `PanelServices`), `SurfacesProofs` (of `PanelSurfaces`), and of
`PanelLevels` two: `MachineProofs` (battery, headset, power mode, capsule, backlight, and the requests to niri) and
`LevelsProofs`, which extends it (workspaces, who watches the screen, and the theorems of them all). `StateStore` and
`Layout` hold their own.

## Runs

Those that pass:

| run | module, cfg | size | what it checks |
|---|---|---|---|
| `notifications` | `Notifications`, `Notifications.cfg` | 631k states | the daemon's lists, records and timers agree (`Consistent`); history is exactly what lasts (`OnlyLastingInHistory`); caps (`WithinCaps`); `CriticalNeverTimed`; a sender hears of the end exactly once, in the step that forgets it, and never of one that lives on (`SendersAreTold`); `CriticalIsShown`; `HeldBannersStay` |
| `notification_timers` | `Notifications`, `NotificationTimers.cfg` | 229k | with fairness and two senders: every entry the user sees is in what was handed to the store, in order and within the cap a restart applies (`HistoryIsSaved`); a banner whose timer keeps running ends (`EveryBannerEnds`) |
| `notification_restart` | `NotificationRestart` | 272k | a restart forgets nothing that was saved (`RestartForgetsNothing`); a restored id is given to nobody else (`RestoredKeepTheirIds`) |
| `state_store` | `StateStore` | 165k | nothing is clobbered (`InHandIsDiskEdited`), a writer at rest has saved or failed (`AtRestDiskIsInHand`), refinement of `Memory` (`KeepsEditOrder`), and every edit lands unless its write fails, the panel ends, or edits keep coming (`EditsLand`) |
| `wake` | `Wake`, `Wake.cfg` | 130k | at rest the panel's view is logind's last signal and a lock it believes in is held (`LogindIsBelieved`); a machine that waited for the lock is not asleep before the panel has said so (`ToldBeforeSleep`); the CPU pair starts anew after a resume (`PairIsRefreshed`); the network is re-read before weather and prices are asked for (`NetworkReadFirst`); with everything started each resume is carried through (`WakesOnceStarted`) |
| `services` | `PanelServices` | 217k | what is read again and again always has another read scheduled, out or owed (`KeepsTrying`); what is published is what the task has, mail lists not older than their count, rows of the dialog the newest search's (`SnapshotsFit`); the file decides what runs and the user's choice outranks it, across restarts (`FileAndChoice`); a failure blanks nothing and nothing is asked of a network believed down (`QuietWhenItFails`); when the world stops changing, place, settings, a resume's check and the lock come right (`ComesRight`) |
| `surfaces` | `PanelSurfaces` | 128k | each part shows the running file in every section it is rebuilt for (`RoutedIsDrawn`); the panel ends up with the file as last saved (`LastSaveWins`); with no sync queued there is one bar per monitor (`OneBarEach`); hidden bars stay hidden over a reload (`ReloadKeepsHidden`); waiting for a monitor ends (`SettlesDown`) |
| `devices` | `PanelDevices`, `Devices.cfg` | 662k | once all signals are read the panel shows the other side as it is (`QuietIsCurrent`); what was made for one thing does not outlive it or go to another, and a client, a caller or the user of a file is told the truth (`NothingStrays`); prompts, questions, searches, pairings, fades, countdowns, requests and programs end (`WaitsEnd`) |
| `levels` | `PanelLevels`, `Levels.cfg` | 353k | at rest the panel shows the volume as it is, and in mid-slide the row of workspaces keeps its width and its gaps (`QuietIsCurrent`); at rest it shows backlight, limit, mode, tool, workspaces and watchers as they are, the last value set is the one that lands, what was said to be set is set, the two limits never cross on their way, a capsule leaves, a reply goes to its asker, and a late one to nobody once its connection is thrown away (`PromisesAreKept`); what waits ends (`WaitsEnd`) |

Which conjunct of a theme speaks of which subject is written out in its definition; each conjunct is
stated in the module of the subject, where it is commented.

Those that find a sentence of the source not kept: `notification_orphan`, `wake_fills` and `hold_repeat`; see
[below](#where-the-code-and-its-documents-disagree).

For every property of a passing run `PROJECT.json` names a mutation of a mapped definition, of the
kind a slip in that code would make, under which TLC finds the property violated in that same run.

## Bounds

Each bound is a constant or a guard, and is named. Those that are tables are at the end of the module that is run.

- *Notifications*: two banners, a history of two, three ids, one sender: enough for a full stack with a
  critical on top, an overflowing history, an id replaced in every position, and a third party to each
  pair. `IdBound` stops deliveries of fresh ids, `UnseenBound` stops counting. The second run trades the third
  id for a second sender and a later start.
- *State store*: two sections, so that an edit can clobber another; three edits, so that one can be on disk, one
  in hand and one queued; `Debounce = 2`, so that a window can be open with and without time passed.
- *Wake*: two sleeps (the second can fall in any step of the first's aftermath); queues of one or two,
  so that they fill within the two; three placements of widgets.
- *Services*: `Changes` bounds what the world does (network, reloads, clicks, mail, restarts) at three
  to five for each: enough to change something while a request is out, change it back, and fail in
  between. Time is the ladder position and which timers are armed, not seconds.
- *Surfaces*: two saves and any number of commands between; files that differ in one section, in two, and
  in pairs that interact; two connectors and four plug events: an unplug and replug of
  one with the other half-arrived.
- *Devices*: per subject, up to three unasked moves of the other side and up to four clicks. An attempt, a prompt and
  a second attempt (`joining`, `roaming`); two passwords sent for two networks, with three clicks (`crossing`, `MaxSent`); a question, a second question and a lost adapter (`pairing`); three items of
  two applications, of which one overflows; three tracks of which two have covers; two popovers on a monitor or one on
  each of two; fades of two frames, so that a change falls before, in and after one; countdowns of two frames; two
  panels, or two clients with a queue of one, so that one is queued while one is answered; a file with one
  mistake per key, and with two in one table; pipes that hold one piece where a program prints up to two.
- *Levels*: levels of two to four steps; two clicks or moves in most subjects, up to five where it is one thing that comes
  and goes: enough for a change here and one elsewhere to cross in every order. That more of them change nothing is
  what `PromisesKept` proves of `PromisesAreKept`; of the volume it rests on these. Two controllers of the backlight with different
  resolutions; a limit that can be above, at and below the one before; three numbers of PipeWire's, apart from the library's or the same;
  three workspaces, a restart and a sleep of the compositor; a slide turned aside twice, within the four halvings that
  whole pixels allow; three deltas of the wheel or of half a step, so that one falls in the window and one after it.

`MaxActs`, `MaxAsks` bound how often NetworkManager or BlueZ change their mind or ask within what was begun.

## Fairness

Weak fairness of what a runtime owes a task that is ready, and strong fairness only where a `select!` with several
ready branches picks among them at random (`tokio::select!` without `biased`), which happens again
and again.

- `Notifications`: time passes (`Tick`), and the task neither starves its deadline (`ExpireDue`) nor stops
  inside a loop (`LoopStep`).
- `StateStore`: the writer is polled when an edit or its timer is ready (`WriteLoop`). A disk may fail for ever:
  `EditsLand` speaks of writes that did not fail.
- `Wake`: lifecycle's steps, the consumer, and each *started* service's reading of its queue. A dormant
  service has no task, so nothing is assumed of it: this is what `KeepsWaking` turns on.
- `Weather`: the timer, the answer, the flag's delivery; `SF(SettleGood)` says that a request made again and again
  is not refused for ever. `Updates` and `Inhibitor`: the `select!` branches, and that a call returns.
- `Reload`: the watcher's thread and each task that carries settings. `Bars`: the timers.
- The subjects of `PanelDevices` and `PanelLevels`: the task takes what is queued for it (`Turn`); time passes and the main loop draws
  (`Clock`, `Loop`); a daemon, or a program, that was asked does it, refuses, or runs into the deadline the code sets
  (`Daemon`, `Server`, the audio library's `Thread`). Strong fairness for the battery's poll and the headset's timer and commands, each a branch of a
  `select!` that may lose to others. In the compositions these are stated as "again and again not due, or again and again
  taken", with `...Due` the state predicate under which the step can be taken; `WF` and `SF` of each module by itself say the same.

Nothing is assumed of users, of monitors, of logind's patience, or of the network. The bounds on what the world does
mean that it stops changing at some point of each behaviour; the temporal properties say what must be true from then on.

## Proofs

`tlapm` checks them for every value of the constants, from assumptions that TLC evaluates in the runs: caps, ids and
timeouts are positive and the saved documents a run may start from list each id once (`ConstantsAssumption` of `Notifications`,
`PersistedAssumption`); `Debounce` is positive (`StoreAssumption`); queues have room (`RoomAssumption`); of services and
surfaces, that the start is a file and a part reads sections of it, that intervals and queues are positive, and that "none" is not
a place, an asset or a script (`ConstantsAssumption`, a `ConstantsOK` of each instance); widths and sizes are naturals
(`LayoutAssumption`, a hypothesis of its theorems, evaluated by the `devices` run as part of `NothingStrays`).

**Notifications.** `TypeCorrect`, `AlwaysConsistent`, `HistoryIsLasting`, `CriticalsAreUntimed`, `CapsHold`.
None is inductive by itself: a delivery decides
between the lists by what they hold, a banner's timer is right only if its record says what it was made for,
and the history is over its cap while the loop that trims it is under way. `IInv` therefore is the
conjunction of the types, of `Good` (lists, records and timers agree, `Coherent` and `Filed` and `Timed`), of the
stack's cap (`Fits`), and of where an overrun comes from: what the history holds too much is exactly what
the loop under way is still going to close. One
lemma for each helper (`CloseEffect`, `DismissToastEffect`, `ShowToastEffect`, `DeliverEffect`, ...) says what it
keeps of `Good` and what it changes; one for each action composes them in the order of the code; `StepIInv` is the
case split on `Next`. `OverflowShrinks` gives that closing an id never makes the overrun larger.
The lemmas it begins with are about lists without repetition: insertion at the front, removal, as many elements as places.

The promises made outside (`HistorySaved`, `SendersTold`, `CriticalShown`, `HeldStay`) rest on the stronger `JInv`: the document
handed over last has all that is shown, in order and within the cap (`Kept`), unless a loop of closings is under way that will still change the history and so save it
again; and a loop that takes banners down has only banners whose timer runs, so a held one is never among them. A second
lemma for each helper says whom it tells (`Told`: a step that says something forgets the one it speaks of and nobody
else, and a connected daemon that says nothing forgets nobody).

Restarts. `RestartForgets` says that a restart brings back every entry and its order. `RestartInv` adds to `JInv` that what is
on the disk is a document that lists no id twice: every document handed over is one, and that is all `Restore`
needs. `RestoredIdsKept` (a restored id is given to nobody else, however old the saved counter) needs in addition that no record's
id is at or above the counter (`Ahead`), and is stated for runs whose ids stay short of wrapping (`IdBound < MaxId`):
once `next_id` wraps the code does hand out ids again, so without the hypothesis it is false.

**State store.** `TypeCorrect`, `NothingClobbered`, `RestsWhenSaved`, and `Implements`: `Spec => KeepsEditOrder`, the
refinement of `Memory`. `IInv` is the types, `InHandIsDiskEdited`, and what each phase of a write knows:
about to be renamed, the temp file is whole and holds what is in hand (without it a rename
could put anything on disk); while no write has failed the writer is right about what is on disk; a
process that is down has nothing in hand. `InitRefines` and `StepRefines` show that first
states map to first states and every step to a step of `Memory` or a stutter.

**Sleep and waking.** `TypeCorrect`, `LogindBelieved`, `PairRefreshed`, and as action properties `TellsBeforeSleep` and
`ReadsNetworkFirst`, for any number of sleeps. What the panel believes is true only at rest, so the invariant says what is true
on the way there: announcements under way alternate and the last of them is the truth (`Told`); the belief is wrong in exactly
the way the next one says. `Held` ties the lock to what the task is doing, `Warned` says where a warning is while the machine
waits for the lock. Of the consumer, `InOrder` ties its place in the order of services to the resume at which the network
was last read, and `Waits` says that what was sent to a sampler that does not run yet is there when it starts.

**Services.** `TypeCorrect`, `KeepTrying`, `SnapshotsTrue`, `ChoiceHolds`, `QuietOnFailure`: all of the run's properties but the
temporal one. `AllInv` is the conjunction of an invariant for each service, and since a step is one service's, `AllKept` needs a
lemma for each that its own steps keep its part and another that the others' leave it alone. What had to be added:

- *weather*: a reading on the card is backed by one that was kept (`Backed`), or a failure would have nothing to fall back on; of the
  dialog, its type, and that a search under way is numbered no higher than the newest, and the one with its number is for
  what was asked last (`Searching`).
- *crypto* needs nothing more: its four properties are inductive together.
- *custom*: tasks are numbered in the order they are started, so a new one is never mistaken for an old one; a task
  that says it is loading is busy, and a busy one has its script running.
- *inhibitor*: a new owner that is announced and not yet heard of belongs to a life already over or the present one, so
  there are never as many to hear of as there were lives; a call made for a command finds nothing held.
- *notmuch*: a stamp is a database and its revision, ordered in that way. No stamp taken is ahead of the database, and one
  equal to the database's own was taken of it as it is. So `ListIsNotOlder` and `EmptyIsReread` hold at every
  moment, also between the two commands, and not only between checks.

**Surfaces.** `TypeCorrect`, `RoutedDrawn`, `OneBar` and, as an action property, `HiddenStay`. The content of the first is
`ChangedIsRebuilt`: for every pair of files, a section that differs and that a part is rebuilt for has the part in the
list of those to rebuild. For bars, the invariant adds what is known of GDK's list (`Listed`): no two monitors are one output, and a name is the
output's or is missing; so keys are distinct, and with `InjectiveCounts` there are as many bars as monitors. `HiddenStay` follows from what
one sync leaves alone (`SyncLeaves`).

**Layout.** `BarFits` (the sections are in the bar, in order and apart, whatever comes and goes before the next frame) and
`BarIsShared` (once a frame is drawn the center has its minimum, and more only where both sides have theirs), for every
width of monitor and every size of section. `Safe` is types and both; `ClampBounds`, `CenterBounds`, `AroundCenterFits` and
`LinearFits` are the arithmetic of the helpers, one of which holds in each branch of the allocation.

**Levels.** `PromisesKept`: `Spec => []PromisesAreKept`, for every table of parts. A behaviour shows one subject, so
`LevelsInv` has an invariant for each kind, which `LevelsKept` takes from one step to the next. None of the promises is
inductive: most speak of rest, and the invariants say what is true on the way there. What is left out of it, because there it is false and
listed [below](#where-the-code-and-its-documents-disagree): what a slow power daemon shows, two reloads under way at once, a sleep in niri's
handshake, lines of a newer niri, PipeWire's numbers where they are the library's as well, and a late reply before its connection is thrown away.

- *backlight*: what is shown is what is on the screen, or a kernel event, an answer or a call is still under way that will have it
  read again (`ScreenInv`); a shut gate has a call or an answer behind it (`GateInv`); with nobody else about, the last
  command is waiting behind the gate, or out, or done (`LastInv`); the slider stands where the screen is, or is to be drawn, or
  has just said where it is itself (`SliderInv`).
- *battery*: at each moment of a change of the two thresholds the files hold a pair the kernel takes (`Halfway`), whichever
  of the two is written first: this is `OrderedWrites`, for every pair of presets. What was said to be set is set until
  somebody else sets it or a write fails (`SaidInv`).
- *power mode*: with no owner of the name still to be heard of, the mode the task has (or while it asks, the one it would go back
  to) is the daemon's, unless a change is still to be heard (`ModeInv`); a call is answered once (`CallInv`). `NeverAnothers` (no other mode than the
  daemon's is shown) is proved for every daemon, `QuietIsCurrent` for those that answer once they have a name: `SlowIsShown` below.
- *requests*: one that has sent is at the head of the line for the lock (`HolderInv`); while none that gave up has still to throw the connection
  away, a live connection carries nothing but the exchange of the one that has it (`LinesInv`). Hence `StraysAreThrown`, also where
  replies are late, and `RepliesGoHome` where none is.
- *headset*: of the sections that are queued the last one is the file's, or the one in use is (`ToldInv`).
- *capsule*: one that is up has a timer, or fades (`Leaving`).
- *workspaces*: the lines under way, taken in order, make of the state the panel has the state niri has, and between them each
  line has what it speaks of (`Fits`, which is what `apply` relies on); what is drawn is made from that state or is still to be
  drawn. A connection that is cut is being made again, or its back-off runs. Stated without sleeps in the handshake and
  lines of a newer niri, for which it is false: `KickIsHeard` and `NewIsShown` below.
- *privacy*: of every number of PipeWire's, the last event under way that says whether it is there, and as what, is right, or
  there is none and the graph is (`GraphInv`); so for whether a link flows, once its state is told (`ActiveInv`); a link whose
  state is not told will be bound (`BindInv`); a number is announced again only behind its removal (`OrderInv`), so a
  listener goes with its link; and the library's own numbers stay below PipeWire's (`ProxyInv`), since it gives the least that
  is free and there are no more links than numbers. Stated where the two are apart (`Apart`): the code keeps both in
  one map, and where they meet it is false, which is `WatchedIsShown` below.

Only model-checked:

- what must eventually happen (`EveryBannerEnds`, `EditsLand`, `WakesOnceStarted`, `ComesRight`, `LastSaveWins`, `SettlesDown`,
  `WaitsEnd`): liveness under fairness is outside the prover;
- the themes of `PanelDevices` (`QuietIsCurrent`, `NothingStrays`), each about some ten services, of which `Layout` is proved;
- `QuietIsCurrent` of `PanelLevels`: the volume, whose answers, events and written values cross on one socket, and the
  pixels of a row in mid-slide, which are exact only as long as halvings come out even (`SlotRects` are multiples of eight, so
  up to three slides turned aside one within another; the code's are floating point).

Induction over data is outside the prover too: what a recursive function computes on every input. No module declares a
`RECURSIVE` operator: recursion is by function.

## Where the code and its documents disagree

Three are runs (kind, line and quotation in `PROJECT.json`, "findings"):

- `notification_orphan`: a transient notification that meets a full stack keeps a record in no list, which the
  panel never closes; only its sender can, by closing or replacing it (`notifications/task.rs:376`, against `:131`).
- `wake_fills`: each resume sends to services that were never started; when a queue is full the consumer
  waits for ever and nothing is refreshed again (`runtime.rs:339`, against `:303`). The same follows from the first resume
  on a bar without Quick Settings, where the battery's answer is awaited (`runtime.rs:340`; placement `{"clock"}`).
- `hold_repeat`: each repeat of a held key begins another countdown, and with motion off each is a timeout that the release does
  not stop: let go early, the machine still shuts down (`topbar/widgets/quick_settings/hold.rs:262`, against `:5`).

The others are stated in the modules and are refuted when added to the cfg named here. Where a subject is given, that
cfg's `Subjects` may be cut to it.

| property | add to | line | the sentence it contradicts, and what happens |
|---|---|---|---|
| `UnseenWithinHistory` | `NotificationOrphan.cfg` | `notifications/task.rs:313` | `:133` unseen counts "History entries that have arrived since the panel was last opened" |
| `CriticalStaysOnScreen` | `Notifications.cfg` | `notifications/task.rs:473` | `policy.rs:279` "nothing critical is taken off screen behind the user's back" |
| `RestartBringsNothingBack` | `NotificationRestart.cfg` | `notifications/task.rs:331` | `:304` a replacement "must not leave the old entry behind" |
| `CounterSurvives` | `NotificationRestart.cfg` | `notifications/task.rs:331` | `:174` "Never hand out an id the last run already used" |
| `CollectsForDebounce` | `StateStore.cfg` | `state_store.rs:113` | `:27` DEBOUNCE is "How long the writer collects further edits before it touches the disk" |
| `NeverOvernight` | `Wake.cfg` | `resources/task.rs:48` | `:10` "the sampler discards a delta that spans more wall-clock time than it should have" |
| `ShownIsForHere` | `PanelServices.cfg` | `weather/task.rs:199` | `:288` "it would be wrong and look right" |
| `AsksWhenNowhere` | `PanelServices.cfg` | `weather/task.rs:308` | `weather/model.rs:148` Loading is "There is a location and the first fetch has not landed yet" |
| `ShortIsQuiet` | `PanelServices.cfg`, `location` | `topbar/widgets/weather/dialog.rs:333` | "goes quiet": a text too short to search for does not outdate the search before it, whose answer fills the dialog |
| `RunsNeverOverlap` | `PanelServices.cfg` | `custom/mod.rs:200` | `custom/task.rs:6` "Runs never overlap." |
| `NothingToShow` | `PanelServices.cfg` | `updates/task.rs:78` | `:79` with nothing to run "the snapshot stays at its default": a reload to that leaves the old count |
| `EveryClickCounts` | `PanelServices.cfg` | `topbar/widgets/crypto/settings.rs:235` | `:16` "Every control applies immediately": a click computed from an old snapshot undoes the one before |
| `StaysAwake` | `PanelServices.cfg` | `inhibitor.rs:189` | `:15` "takes the lock again if it was holding one" |
| `PaintFollowsTheme` | `PanelSurfaces.cfg` | `core/delta.rs:104` | `docs/configuration.md:617`: the strip and the OSD keep the palette they were built with |
| `StripFollowsMotion` | `PanelSurfaces.cfg` | `topbar/reload.rs:248` | `docs/configuration.md:618` `theme.animations`: "Flip two switches." |
| `ForecastFollowsWeather` | `PanelSurfaces.cfg` | `core/delta.rs:203` | `topbar/widgets/control_panel/mod.rs:105` "The same component the weather widget's popover mounts" |
| `EveryLabelRestated` | `PanelSurfaces.cfg` | `topbar/bar/window.rs:183` | `topbar/fonts.rs:18` "Apply the workaround to every label under `root`" |
| `ToldTheLast` | `PanelSurfaces.cfg` | `topbar/reload.rs:307` | `:293` "Hand the changed sections to the services that own them" |
| `PresentIsUntouched` | `PanelSurfaces.cfg` | `topbar/bar/manager.rs:143` | `:126` "Bars for monitors that are still present are left untouched" |
| `HiddenWasAsked` | `PanelSurfaces.cfg` | `topbar/bar/manager.rs:247` | `:282` "a bar nobody can find is worse than one nobody asked for" |
| `OnAListedMonitor` | `PanelSurfaces.cfg` | `topbar/bar/manager.rs:152` | `:307` the bars are reconfigured "once, from the state the display settled in" |
| `KeyKept` | `Devices.cfg`, `joining` | `topbar/widgets/quick_settings/cards/network.rs:412` | `:297` a snapshot must not "throw away a half-typed key" |
| `PasswordsStayHome` | `Devices.cfg`, `joining`, `crossing` | `network/task.rs:1204`, `:1069` | `topbar/widgets/quick_settings/cards/network.rs:303` "The network the box is currently open for": the command carries no network, so a password that is still under way when another attempt starts is kept for that one; and a question whose SSID cannot be read gets the attempt's, whoever it is about |
| `AttemptsEnd` | `Devices.cfg`, `roaming` | `network/task.rs:1398` | `:265` "this one ends the attempt": one put back with neither a prompt nor an active connection has nothing to end it |
| `VpnEnds` | `Devices.cfg`, `vpn` | `network/task.rs:1001` | no sentence, but a wait without an end: the reply to a switch waits for a signal of one state, and nothing else ends it |
| `RadioEnds` | `Devices.cfg`, `listing` | `network/task.rs:1250` | pending goes when a change is signalled: asked for what it already is, the radio signals none |
| `AnswersGoHome` | `Devices.cfg`, `pairing` with two moves | `bluetooth/task.rs:544` | `:542` "one pairing at a time, and the newest is the one the user is looking at": a yes pressed under one question answers the next |
| `FoundAreLast` | `Devices.cfg`, `pairing` | `bluetooth/model.rs:99` | `:98` "a *contiguous* run" |
| `TakeoverKeeps` | `Devices.cfg`, `tray` | `tray/task.rs:600` | items registered with the watcher before are not asked to register again |
| `RowsGoHome` | `Devices.cfg`, `menu` | `topbar/widgets/tray/menu.rs:149` | `:74` "The tray item it belongs to": a late layout is drawn as another item's |
| `Ticks` | `Devices.cfg`, `card` | `topbar/widgets/control_panel/media.rs:777` | "only while the popover is open and only while something is playing": and then not always |
| `SeekLands`, `ControlLands` | `Devices.cfg`, `card` | `media/task.rs:108`, `:51` | "so a seek cannot land in the wrong track"; "asks of the player it is showing" |
| `KeyMeetsCard` | `Devices.cfg`, `mediakeys` | `media/cli.rs:8` | the key acts on the player "the card would have been showing": its survey has no pin and no memory of who played last |
| `CatcherHasPopover`, `ListsAreShown` | `Devices.cfg`, `again` | `topbar/surfaces/layer_popover.rs:520`; `topbar/widgets/expander.rs:136` | `layer_popover.rs:699` "The catcher must never outlive the popover it belongs to": asked for again before the fade out has shown a frame, the run has no length and ends as one that closes |
| `OldTreeGoes`, `BorderIsBack` | `Devices.cfg`, `popover` | `topbar/surfaces/popovers.rs:126` | "A rebuilt widget must not leave its old tree on screen" |
| `RadioStops` | `Devices.cfg`, `lists` | `topbar/widgets/quick_settings/panel.rs:362` | "so the radio stops looking for things to put in it": searched with no list open to show it, until the 20 s limit |
| `LateIsBlurred`, `OneTimer` | `Devices.cfg`, `withdrawn` | `topbar/wayland/blur.rs:310`, `:464` | "Blur is not *required* to be capable here": what is attached while it is not is never watched; off and on within 30 s leaves two timers |
| `BlurComesOff` | `Devices.cfg`, `banners` | `topbar/surfaces/toast.rs:261` | "the region comes off as the last one starts leaving": those leaving already are counted as cards |
| `HoldsEnd` | `Devices.cfg`, `hover` | `topbar/surfaces/toast.rs:508` | `notifications/mod.rs:182` "while the pointer is over it": the leave may overtake the enter |
| `SeenWasShown`, `LastSwitchWins` | `Devices.cfg`, `column` | `notifications/mod.rs:177` | "Record that the user has looked at the history": what came meanwhile is marked too; of two switches thrown the one that arrives last counts |
| `LettingGoCancels`, `HeldToTheEnd` | `HoldRepeat.cfg` | `topbar/widgets/quick_settings/hold.rs:262` | `:66` a key's repeat "must not restart the countdown" |
| `DismissedIsStill`, `ClosedIsClean` | `Devices.cfg`, `hold` | `topbar/widgets/quick_settings/cards/power.rs:158`; `panel.rs:366` | "must not still be counting down": `closed` comes at the end of the fade; a failure may be left on a closed panel |
| `OnlyItsAnchorDismisses`, `NothingIsNotShown` | `Devices.cfg`, `tips` | `topbar/surfaces/tooltip.rs:15`; `topbar/widgets/custom.rs:151` | any anchor that goes takes the tooltip of another with it; a text that has become empty stays |
| `GaveUpAlike`, `AcceptsUntilItStops` | `Devices.cfg`, `started` | `topbar/ipc_client.rs:22`; `ipc.rs:186` | panel and client "cannot disagree about which happened"; "Accept connections until the panel stops" |
| `OnlyHoldersListen` | `Devices.cfg`, `unlocked` | `ipc.rs:147` | "Only ever called by a process holding the" lock: start-up goes on without one |
| `AppliedIsReturned`, `PressesAddUp` | `Devices.cfg`, `presses` | `audio/cli.rs:124` | "returning the value that was actually applied": whether it was is not looked at; two presses may both step from the same value |
| `MismatchIsLoud` | `Devices.cfg`, `mixed` | `core/ipc.rs:6` | "lets an old CLI fail loudly": a key that only shows what it did exits well |
| `OneRunTellsAll`, `ErrorsAreReal` | `Devices.cfg`, `typos` | `core/config.rs:416` | `docs/configuration.md:57` "One run tells you everything": of a table with two wrong types the first is told; a widget with a command and another mistyped key is told it has none |
| `ParsesBack` | `Devices.cfg`, `schema` | `core/config.rs:524` | `docs/configuration.md:67` the dump "parses back to the same configuration": what is marked `serde(skip)` is left out |
| `SavesAreNoticed` | `Devices.cfg`, `places` | `topbar/reload.rs:54` | `docs/configuration.md:601`: only the place started from is watched |
| `ReadingIsShort`, `DetachedGoOn`, `LeavesNobody` | `Devices.cfg`, `clicked` | `proc.rs:241`, `:17`, `:169` | "either failed or been running for" its grace: reading a failed one's words waits for a child that keeps the pipe; one that is "left alone" comes to a halt at a full pipe; a service torn down "must not leave" a program behind, but does its children |
| `CenterNeverShrinks` | `Devices.cfg`, `sections` | `topbar/bar/section_layout.rs:9` | "shrinks the sides — never the center": it is held under `center_ceiling` |
| `DragIsQuiet` | `Levels.cfg`, `volume`, `screen`, `coarse` | `change.rs:141` | `topbar/widgets/quick_settings/cards/sliders.rs:18` "keeps the OSD capsule off the screen while the user is dragging" |
| `LoginIsQuiet` | `Levels.cfg`, `mic` | `audio/task.rs:274` | "the first reading after a connection simply carries no change" |
| `CeilingIsPolicy` | `Levels.cfg`, `ceiling` | `audio/task.rs:107` | `:48` "policy, not hardware", and "nothing about the sound server has to be re-read for it": lowered and raised again, it leaves the clamped volume shown |
| `SlidersFollow` | `Levels.cfg`, `outs_dragged` | `audio/worker.rs:687` | no sentence: a volume set in the moment in which the thread has the name of a default without one is let fall, nothing changes, and the slider stays where it was put (53 steps in; TLC needs `wire.sent` and `wire.requests` held to one each to get there in time) |
| `LastDragLands` | `Levels.cfg`, `volume` | `audio/task.rs` | `brightness/throttle.rs:14` "the final value always sent": of the volume, not always |
| `ShownIsSeen`, `BarIsRight`, `ReloadIsQuiet` | `Levels.cfg`, `osd` | `topbar/surfaces/osd.rs:554`, `:229` | "reverses a fade on a surface that never unmapped"; a bar told its last value again stands still in mid-way; a reload shows the last snapshot once more |
| `OneCapsule`, `HostHasSurface` | `Levels.cfg`, `screens` | `topbar/surfaces/osd.rs:521`; `toast.rs:79` | "does not light up all of them"; "never posted to nowhere at all" |
| `ReadFromSysfsAlone` | `Levels.cfg`, `upower` | `battery/task.rs:232` | "the battery is read from sysfs alone" |
| `SlowIsShown` | `Levels.cfg`, `mode_slow` | `power_profiles/task.rs` | a daemon that takes its name before it can answer is not shown once it can |
| `WatchedIsShown`, `NoClaimLeft` | `Levels.cfg`, `watch_ids` | `privacy/worker.rs:151`, `:48` | `privacy/mod.rs:40` "whether a screen is being shared right now", where a number of PipeWire's is one of the library's |
| `DeadAreDropped` | `Levels.cfg`, `watch` | `privacy/worker.rs:147` | "dropping it is what keeps a session of six hours from accumulating one per stream" |
| `ToolIsCurrent` | `Levels.cfg`, `headset_twice` | `topbar/reload.rs:339` | two reloads' settings may arrive in the other order |
| `NeverEmptied` | `Levels.cfg`, `strip_again` | `topbar/widgets/workspaces/mod.rs:99` | "Dim rather than empty" |
| `OneStep`, `PoolIsSpent` | `Levels.cfg`, `strip_scrolled` | `topbar/widgets/workspaces/model.rs:265` | `:11` "at most one workspace step per debounce window", `:255` "the rest of the flick pools until the window is over": nothing runs when it is over, and the pool is added to the next delta, however much later |
| `NewIsShown` | `Levels.cfg`, `strip_new` | `niri/stream.rs:3` | "impossible for the panel to show stale or torn workspace state": an event of a newer niri is skipped |
| `KickIsHeard` | `Levels.cfg`, `strip_early` | `niri/mod.rs:69` | "Reconnect the event stream, whatever state it thinks it is in": not while it is in the handshake |
| `RepliesGoHome` | `Levels.cfg`, `asking_late` | `niri/requests.rs:142` | "whatever the reply was, it is still queued on it. Throw it away" |

Smaller ones, seen while reading and not stated as properties:

- After BlueZ restarts its agent is not registered again. A player that was too slow to answer is dropped until
  its name changes hands. One tray item that times out drops all items of its bus name (documented so).
- Commands queued for the audio thread are dropped across a reconnect (`audio/worker.rs:213`).
- `popovers.rs` `close_all` returns true whenever a popover is registered, open or not.
- `topbar/reload.rs:54` "a reload reads the same file the panel started from" holds with `--config`; without it the search is made again.
  `reload.rs:357` the banner "names the first" error: it names the header line before it.
- `topbar/cli.rs:4` "Every subcommand talks to the running panel": volume, brightness, media and the default configuration do not.

## Not modelled

- Text, parsing and wording: the answers of weather, price, geocoding and mail services, package managers'
  output, D-Bus hints beyond those a decision rests on. A parse is an answer that succeeds or fails. Of the configuration,
  where warnings and errors are the point, each key's value is of a class: usable, refused, of a wrong type.
- Interpolation, heights and text of the front end (`topbar/anim`, `topbar/style`, fonts, placement of popovers): arithmetic over
  floating point or generated text, with tests of their own; no state is shared with another actor. Of an
  animation its frames are counted where others act between them; the workspace strip's slots are laid out in pixels,
  an eased run being at its start, half way or over.
- GTK, the compositor and the daemons themselves, beyond what the code assumes of them. The main loop is the assumption that
  front-end handlers do not interleave.
- Views of one snapshot without state of their own (clock, system monitor, the battery's and mail's buttons, the calendar), memory and disk readings,
  activation tokens, start-up order, logging, and the fakes the tests talk to.
- Products of subjects. Two services that share no variable are checked apart; those that meet are in one module.

## Plan

1. Proofs, next to those there are: `QuietIsCurrent` of `PanelLevels` (the answers and events under way, taken in order, make of
   what the audio thread has read what the server has); of `PanelDevices`, the parts of `NothingStrays` that are about
   one prompt or one question (`Network`, `Bluetooth`, `Ipc`).
2. `Toasts` before the whole of `Notifications` in place of its lists, once the state space of the two is small enough to join them.
3. An abstract register that `Backlight`'s throttle implements.
