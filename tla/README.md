# Specifications of the terminal multiplexer

TLA+ models of the parts of this repository that keep state and share it: what
they are, how they are checked with TLC, and what is proved of them with TLAPS.
Paths are relative to the root of the repository (`src/` in `PROJECT.json`).

## 1. Inventory

The program is a terminal emulator with a built-in multiplexer. One process
(the GUI, or `wezterm-mux-server`) holds one `Mux` object; panes run child
processes in ptys; a GUI, or remote clients over a socket, show and steer them.

Almost all state changes on one *main thread*, which runs closures and futures
from a queue. Concurrency comes from three places: threads that read ptys or
wait for children and post closures to that queue; `await` points inside the
operations, at which other queued work runs; and remote peers.

| Component | State | Operations | Interacts with | Hard behaviour |
|---|---|---|---|---|
| Mux core (`mux/src/lib.rs`, `domain.rs`, `activity.rs`) | registries of panes, tabs, windows; pane counts by workspace; count of activities | spawn, split, move pane, remove pane / tab / window, prune, rename workspace | owns windows and tabs; threads of local panes post to it; GUI and server call it and subscribe to it | spawns that await while windows close; prunes skipped while an `Activity` is held; children exiting during a prune; cached counts |
| Windows (`mux/src/window.rs`) | ordered tabs, active index, last active id | push, insert, remove, prune, activate, move | the mux, key assignments of the GUI | indices that shift under removal |
| Split tree (`mux/src/tab.rs`, `bintree`) | binary tree of panes, sizes, active index, zoom, recency | split, remove, resize, rotate, zoom, swap, sync with a remote tree | the mux removes dead panes from it; the client replaces it | a zipper that mutates the tree while walking it |
| Local pane (`mux/src/localpane.rs`) | process state, exit behaviour | is_dead, kill | a waiting thread and a reading thread | who notices an exit, and in which order |
| Command injection (`mux/src/command_injection.rs`) | first sequence number seen | poll until output or timeout | panes | timeout racing output |
| Executor (`promise/src`, `window/src/spawn.rs`) | task queues, wakers | spawn, poll, wake | everything | a wake-up between a check and the registration of a waker |
| GUI front end (`wezterm-gui/src/frontend.rs`) | GUI window to mux window map, windows being created, switching flag | reconcile, switch workspace, quit | subscribes to the mux, posts to the queue | notifications that are acted on later than they were sent |
| Sidebar (`mux/src/sidebar*.rs`, `workspace_defaults.rs`) | order, hidden, remembered names; metadata; a file | remember, hide, move, rename, set metadata, load, save | the mux, the data directory | renames that merge entries; crashes and other processes around the file |
| Mux server (`wezterm-mux-server-impl`) | per-client, per-pane push state | one handler per request | the mux, the client | pushes, replies and notifications crossing |
| Mux client (`wezterm-client`) | outstanding requests, id mapping, line cache | rpc, reconnect, fetch lines, apply delta | the server; mirrors its trees in a local mux | stale lines, late answers, reconnection |
| tmux, SSH, codec, terminal emulation, caches, pty, configuration, windowing | see `PROJECT.json` | | | |

What makes each of them correct:

* **Mux core.** A tab is in one window, a pane in one tab; ids are never reused;
  nothing dead stays on screen for good; every running pane can be reached from a
  window; `is_workspace_empty` tells the truth; when all windows are closed the
  mux becomes empty, because that is what ends the program.
* **Windows.** The active index names a tab; the tab the user looks at stays
  active while others come and go; closing the active tab activates the one the
  documentation says.
* **Split tree.** The sizes of the parts add up to that of the tab, and are what the
  panes were told; the active index follows its pane; a new pane comes to stand where
  it was asked for.
* **Local pane.** What a child writes is shown whole and to the end; its exit is
  noticed; the pane goes for the reason that `exit_behavior` names, and for no other.
* **Command injection.** A command is typed into a shell that reads it, or not at all.
* **Sidebar.** A workspace appears once, stays where it was put, survives a
  restart; a crash while saving loses at most that save.
* **Executor.** Every closure of normal priority that is queued is run; the main thread never
  sleeps on one, and sleeps when there is none; a task that is scheduled is polled, and once.
  Whoever awaits a thread should be told when it ends, which the code does not keep (section 5).
* **Front end.** Quitting never ends a process whose pane the user has just
  opened; no two GUI windows show the same mux window, and none shows one of another
  workspace; a switch that was begun is completed.
* **Client and server.** A line on the client is the server's line or is marked
  stale; no line waits for an answer that nobody owes; a quiet screen is shown in the
  end, whatever the connection lost.

## 2. Modules

| Module | Models | Checked by | Proved in |
|---|---|---|---|
| `Mux` | mux core | `MCMux` | `MuxProofs` |
| `WindowTabs` | one window's tabs and the GUI's actions on them | `MCWindowTabs` | `TabProofs` |
| `Executor` | what a scheduler of the main thread promises (abstract) | implemented by the next two | |
| `SpawnQueue` | the spawn queue on X11 and Wayland | through `QueuedTasks` | `SpawnQueueProofs` |
| `SpawnQueueEvent` | the spawn queue on Windows | `MCSpawnQueueEvent` | `SpawnQueueEventProofs` |
| `ThreadTask` | a task that waits for a thread | `MCThreadTask` | `SpawnQueueProofs` |
| `QueuedTasks` | such tasks in that queue: `SpawnQueue` and `ThreadTask` put together | `MCQueuedTasks` | `SpawnQueueProofs` |
| `TabTree` | the tree of panes in a tab | `MCTabTree` | `TabProofs` |
| `LocalPane` | a pane, its child, its threads, and the command typed into it | `MCLocalPane` | `LocalPaneProofs` |
| `FrontEnd` | GUI windows, workspaces, quitting | `MCFrontEnd` | `FrontEndProofs` |
| `LineCache` | a client's copy of the lines of a pane (operators) | through `RemoteLines` | through `RemoteLines` |
| `RemoteLines` | that copy, the server's pushes and the connection | `MCRemoteLines` | `RemoteLinesProofs` |
| `Sidebar` | the list of workspaces and what changes it | `MCSidebar` | `SidebarProofs` |
| `SidebarFile` | how the sidebar is kept across restarts | `MCSidebarFile` | `SidebarProofs` |

`SpawnQueue` and `SpawnQueueEvent` refine `Executor`; `QueuedTasks` composes `SpawnQueue` and
`ThreadTask` and refines the latter; `RemoteLines` composes a server, a
connection and a `LineCache`. `FrontEnd`, `LocalPane` and `TabTree` each restate the part of
the mux that they need, because their questions are about one window, one pane, one tab.

### Mux

`mux` is the `Mux` object: the three registries, the tabs of each window, the
panes of each tab (`layout`), the workspace of each window, the cache of
occupied workspaces, and what the main loop still has queued. `next` holds the id
counters, `exited` the panes of a tab whose `is_dead()` answers true, `waiters` and
`readers` the threads that have not posted yet, `ops` the spawns and splits that
have been polled and have not returned, each with the `Activity` objects it holds.

Each method of `Mux` is an operator on that record (`AddPane`,
`RemoveTabsInternal`, ...), so that an action can call several of them in the
order the code does. An operation that awaits is two actions (`StartSpawnTab`,
`FinishSpawn`); between them anything may run when `Yields` is TRUE (an
`ExecDomain` with a Lua callback, a remote domain), and nothing may when it is
FALSE (the default local domain, whose future is ready in its first poll).
`PruneDeadWindows` polls panes three times; children may exit in between, so the
set of dead panes grows within the step (`mid`, `late`).

Abstractions. A window holds a set of tabs and a tab a set of panes; order and
shape belong to `WindowTabs` and `TabTree`. `PrunablePanes` therefore
lets a pass of `remove_pane_if` take any non-empty part of the removable panes of
a tab, which covers the leaf its walk skips. The queue keeps whether it holds at
least one prune and which panes have a removal queued; the Boolean `more` of
`RunPrune` and `RunRemovePane` says whether another of the same is behind it. The
pane counts are kept as the set of workspaces whose count is not zero, which is
all their reader asks. All panes belong to the local domain, which does not
detach. The early return of `recompute_pane_count` on a lock that is held does
not happen on one thread and is left out.

### WindowTabs

`window` is the `Window` object (`tabs`, `active`, `last`), indices from 0 as in the code.
One action per operation that the GUI or the mux performs on it. `PruneDeadTabs`
takes the tabs one by one, as the loop does; it is a recursive function over their
places, `pruned[n]` being the window after the first `n`. Closing a tab is
`Mux::remove_tab` seen from the window. `UsizeMod` keeps the wrap-around of
`as usize % max` at 64 bits.

### Executor, SpawnQueue, SpawnQueueEvent

`Executor` says what `promise/src/spawn.rs` needs of a scheduler: closures of two
priorities are taken from any thread, none is lost, every one of normal priority is
run, and something is run while anything is queued. The other two implement it
(`ImplementsExecutor`). That low priority comes after normal priority is not among the
properties: `pop_func` tests it in the step that takes the closure.

`SpawnQueue` has the lengths of the two queues (`high`, `low`), the bytes in the
pipe, and where the main thread is in its loop (`main`). Closures of one priority
run in order, so a length says which closure is next. A thread that queues is
between `queue_func` and its write for a while (`signalling`), at most one for each
priority because `schedule_runnable` holds the lock of the priority throughout;
closures queued with `spawn_local` wakers take the same way. `pop_func` is one
step, since the guard of the first lock lives until the end of the `if let ... else`
chain in this edition of Rust; `has_any_queued` is two (`CheckHigh`, `CheckLow`).
`edge` models what `mio` registers: an edge-triggered readiness, reported once for
each write and only with something to read (external, `Reported`). `platform`
selects the loop: X11 handles events, runs the queue and starts over
while it is not empty; Wayland goes on through `poll` with a timeout of zero.

`SpawnQueueEvent` is the Windows side of the same file. `callers` is the stack of
`run()` calls that the window procedure makes while a window is sized.

Not modelled: `SimpleExecutor` (one unbounded channel), the run loop source of
macOS, `ScopedExecutor`, and `Promise`/`Future`.

### ThreadTask

`spawn_into_new_thread`: the thread (`Send`, `Panic`, `Wake`) and the task
(`TryRecv`, `StoreWaker`) meet at a channel of capacity one and at the waker. Each
lock and channel operation is one action. Several tasks share the main thread, which
finishes one poll before it begins another (`MainIdle`). A task that was dropped may still
receive the result: its end of the channel goes when the main thread comes across it.

### QueuedTasks

The two modules joined. `place` says where the closure of a task is in the queue of normal
priority, `due` and `running` what the main thread has to do with a task at the moment.
Scheduling a task, waking one and dropping one that waits are steps of `SpawnQueue` that put a
closure into the queue, in the thread that does it; `PopFunc` and `Poll` take it out and poll the
task. A task that is woken while it is run is queued again by whoever runs it (`Reschedule`,
external: `async_task`). Other closures come and go as before. What `ThreadTask` assumes, that
a scheduled task is polled, is `ImplementsThreadTask` here.

### TabTree

`tab.tree` is the tree as a function from paths to nodes, a path being a sequence of turns;
a leaf holds a pane, a split its axis and the sizes of its two parts, in columns and rows
(pixels and dpi follow from them). The zipper of `bintree` becomes a path, and going up
and down it prefixes and extensions. `size`, `before` (`size_before_zoom`), `active` and
`zoomed` are the fields of `TabInner`; `pty` is the size each pane was last told. One
action per method, and the two halves of `Domain::split_pane` (`AskSplit`, `FinishSplit`),
between which the command is started and the tab may change. `MovePane` is its other
source, in one step. `adjust_x_size` and `adjust_y_size`, the same but for the axis, are
one operator.

The walks of the code, which recurse over the tree, are recursive functions of a number here,
so that they can be reasoned about: `MinSizes` and `FitAfter` of the depth, `RemoveWalk` of the
panes removed so far, `AdjustSize` of the cells handed out. The last one turns the code
inside out, one cell for the whole tree at a time instead of all cells of a split before those
below it; the comment above `AdjustByCell` says why that comes to the same.

`Sizes` are the sizes of the window, `Requests` the splits; a window or a split that
leaves no room is refused as in the code. Two history variables keep apart what the code
is known to lose track of (section 5), so that everything else can be checked: `hung` is
set when a resize does not come to an end, and `astray` names what no longer fits (`sizes`,
`focus`, `zoom`), until the code puts it right.

### LocalPane

One pane from its start to its end. `child` is the shell, which flushes its input once
(`starting`); `writers` who has the pty open, since another process may keep it after the
child is gone and the child may close it and go on. What is written travels through the
fields of `out`: the pty, the buffer of the reading thread, the socket, the parser's
`actions`, and the screen (`shown`). A piece of output is a text or one of the two marks
of a synchronized update. `reader`, `parser` and `waiter` are the three threads; `pane` the
`LocalPane` with its place in the mux and the closures queued on the main thread, `main`
tells whether that is in the middle of a prune. `override` is the pane's own exit
behaviour while an SSH connection is made; the reader takes its copy when it starts.
`inject` is the task of `inject_text_after_first_output`; a poll that is due, or a time-out
that is over, is an action of its own.

Not in it: sockets that cannot be made, bytes, the buffer size that ends the coalescing of
output (`ParserFlushes` may come at any time instead), tmux control mode, the process list
and the foreground process.

### FrontEnd

`gui` is what the main thread reads and writes in one go: the workspace of each mux
window (`home`), which windows have a pane (`filled`, `dead`), the fields of `GuiFrontEnd`,
what each GUI window shows, and the queue. `spawning` are the `MuxWindowBuilder`s in
flight, each with the switch that waits for it, if any; `building` the tasks of
`reconcile_workspace` that await a GUI window, with what they have left to do. A
notification posts a closure; `RunQueue` runs the first one. Both kinds of windows are
numbered, because the code matches them in their order. A closure that repeats the one
before it in the queue is left out, since running it twice changes nothing.

`Held` is `Activity::count() > 0`. A mux window has at most one pane. `FailBuild` is a
GUI window that cannot be made, `ContextLost` a paint that finds the OpenGL context gone.

### LineCache, RemoteLines

`LineCache` has the operators of `renderable.rs` on a record of lines: an entry is `Line`,
`Fetching`, `LineAndFetching`, `Stale` or nothing, with the instant that tags a fetch, the
version of the text and the sequence number. `RemoteLines` puts it at the end of a
connection. On the server `compute_changes` is five steps, because the parser thread
changes the terminal while it runs: it takes the dimensions and the cursor, then the
sequence number, then the dirty lines, then the lines. `session` is `PerPane`, `job` the
computation, `due` what it is asked for. `wire` holds what is on its way to the client;
`MayTake` says which of it may be taken: deltas in order, answers also before deltas sent
earlier (a delta takes two turns of the main thread), and anything before a message that
waits for its images. `asked` are requests not yet answered. An instant is one of a
few values, `Now` one that tags nothing, so that two fetches never begin at the same one.

`Break` loses the connection with any part of what is on it; `Reconnect` begins a new
session, as `reattach` makes the client do. What follows from title, palette, mouse
mode, the eviction of lines and from lines that leave the scrollback is left out.

### Sidebar

`overrides`, `metadata` and `saved` are `sidebar_overrides`, `workspace_metadata` and
the file. `Entries` is `compute_sidebar_entries`, of the configuration, the
workspaces that have windows and the overrides. Each operation of `Mux` on them is
an action that ends with `Persist` where the code saves. `WindowOpens` and
`WindowsClose` stand for what module `Mux` does to the set of workspaces.
A name is a model value; empty names, which the code filters out, are left out.
Metadata is `none`, `unset` (an entry with no field set, which is not written) or
`set`. Saving always succeeds here: what happens otherwise is the subject of
`SidebarFile`.

The side conditions of the properties are what the code needs for them. An index in
`order` is one on the screen only while `order` has no name that is hidden, gone or there
twice (`MoveGoesUp`): otherwise "Move up" may leave an entry where it is. A rename to a
name in `hidden` hides the entry, and one of an entry of the configuration leaves the
old name listed (`RenameKeepsPlace`). Nothing ever takes a name out of `hidden`, so a
workspace that is created again under such a name is not listed.

### SidebarFile

`acknowledged` has the changes whose save returned Ok; its actions and `FileInit`, `FileNext` are named apart
from those of `Sidebar`, since one module proves theorems about both. Files are nodes that names refer to, because a process that has the temporary
file open goes on writing its node after another process has renamed it.
`fs::write` is two actions, since it truncates before it writes; `rename` and
`remove_file` are atomic, as the file systems make them. `replaces` is FALSE
where `rename` may fail because the target exists. There, a crash between
`remove_file` and the second `rename` leaves no file, and the next start takes that
for an empty state: `SavedStaysSaved` is stated where `rename` replaces. A crash
ends a process, not the machine: what was written stays written, and nothing is
said of a power failure, for which the code has no `fsync`.

`Processes` may have more than one element, as it does when two GUIs or a GUI and the
mux server run. The properties do not hold then: both use one temporary name, and each
saves what it loaded when it started. `file_crash` has one process; with
`Processes <- TwoProcesses` TLC shows how `FileWhole` and `SavedStaysSaved` fail.

## 3. Runs

| Run | Instance | Shows |
|---|---|---|
| `mux_safety` | 2 panes, 2 tabs, 2 windows, 2 workspaces, all operations but `set_window_workspace`, spawns yield, `CloseOnCleanExit` | registries consistent, ids fresh, no prune lost, cached counts right at rest |
| `mux_live` | 2 panes, 2 tabs, 1 window, spawns, splits and closed tabs, fair | dead panes and empty windows go |
| `tabs_last` | 4 tabs, offsets -5..3, option on | index valid, survivor stays active |
| `queue_unix` | X11 and Wayland, pipe of 3 bytes, 2 drained at a time, 4 closures, 1 task, fair | no lost wake-up, all are run, a scheduled task is polled and once, outcomes told apart, the loop comes to rest |
| `queue_windows` | 4 closures, 2 nested runs, fair | no lost wake-up, all are run |
| `thread_woken` | 2 tasks, fair | expects a violation: a task that waits is not told of the result |
| `sidebar_list` | 3 workspaces, lists up to 2, metadata of 1 at a time | nothing twice, moves and renames disturb nothing else, a restart shows what was there |
| `file_crash` | 1 process, 3 changes, rename replaces or may not | whole file or none, saved stays saved |
| `tab_tree` | 3 panes, all alike, windows of 5x5 and 7x3 cells | focus, sizes and places right after any sequence of operations |
| `pane_life` | 7 scenes, all `exit_behavior`s, fair | frames whole, output to the end, exits noticed, the right reason, the command typed safely |
| `gui_reconcile` | 3 mux windows, 2 GUI windows, 2 workspaces, 3 acts of users and panes | at rest windows and workspaces fit; the program ends only when it may |
| `lines` | 2 rows, a screen of 1, 2 sequence numbers, 2 fetches and 2 messages in flight, 1 upset, fair | lines called current are, none waits for nothing, the screen catches up |

All of them pass but `thread_woken`, which shows that `WaitingTaskIsWoken` does not hold (section 5).
`TypeOK` of `Mux` is an invariant of `mux_safety`; that of `WindowTabs`,
`Sidebar`, `TabTree`, `LocalPane`, `FrontEnd` and `RemoteLines` is a conjunct of
`ActiveValid`, `ListedOnce`, `SizesAddUp`, `FramesAreWhole`, `Reconciled` and
`NoOrphanFetch`; the others are proved.

Bounds. Two of each kind are enough for the interactions the operations have: one
tab or window disappears while another operation is about to use it or moves a
pane into the other. Two activities can be held at once, by the builder of a window
and by the GUI's spawn. `MaxPane`, `MaxTab`, `MaxWindow` bound how many ids are
handed out over a whole behaviour; `mux_live` and the runs of `WindowTabs` do not
check deadlock because a system that has used up its ids, closed everything and
drained its queue has nothing left to do. Four tabs let the closed, the active, the
last active and a bystander differ; the offsets reach past both ends and wrap.

The pipe of the queue runs need only be smaller than what may be queued and larger
than what is drained at once, so that writes fail and bytes are left over; the real
sizes (64 KiB and 64 bytes) keep that order. `MaxQueued` bounds the closures queued at
a time, not over a behaviour. Two nested runs let an inner one reset the event of
another inner one. One task meets all that the queue does to a task; two do not fit into a
run beside the queue, and the theorems are about any number. Other closures leave room for the task
(`LeavesRoom`), as the queue of the code, which has no limit, does. In the sidebar runs `MaxLength` bounds the lists that grow; two
names make one repetition, three are needed for a move to have bystanders on both
sides. `MaxMetadata` is one because metadata of different workspaces only meet when a
rename replaces one by the other. In the file
runs each change is made once; three let a process save, crash, load, save again and
lose an early one. A fourth node is one more than two names and an open file can hold.

In `tab_tree` three panes make all shapes of a split within a split, with a pane beside it
to take the focus, and nothing else bounds the behaviours. From one window to the other the columns shrink and the rows grow, or
the other way round. Seven columns or five are two equal
parts and a line; halving a part of three or two leaves parts of one cell, with a
remainder or without, and shrinking from one window to the other takes cells that some of
these do not have. The seven scenes of `pane_life` each bound the pieces of output and
the upsets (resizes, reloads of the configuration, connections, other processes that
take the pty) for one group of questions: a frame
over several reads; a connection that is made or fails while the configuration changes; a
command with output, without, and while connecting. All bounds together make about twenty times
as many states, more than a run can hold, so a case that needs the upsets of two groups is not
reached. In `gui_reconcile` three acts are a switch, a rename and an end in any order; two
GUI windows let one be reused and one closed or made, and the queue takes further acts of users
only while at most one closure waits (what closures post is not bounded). In `lines` one
row is on the screen and one above or below it after a scroll, which is what decides
between fetching and marking stale; one upset is a key, a broken connection or a message
with images; two fetches are enough for one to answer for rows that the other has tagged.

Fairness (`FairSpec`). The main loop runs each closure that is queued: weak fairness
of `RunPrune` and of each `RunRemovePane`. A waiting thread returns from `wait()`
once its child has exited and posts: weak fairness of `WaiterPosts` for exited panes.
A spawn in flight returns. No fairness is assumed of users, of children (they
need not exit) or of readers, since another process may keep a pty open.
In the queue modules the main thread is scheduled (weak fairness of `MainStep`, `MainWork`), a
closure returns, and a thread that holds the lock of a priority gets to its write. On
Windows this includes that the user lets go of the border of a window in the end;
nothing makes a message arrive (`WaitInterrupted`, `PollInterrupted` are unfair). In
`ThreadTask` the thread's last step and a poll that has begun are weakly fair, and a
scheduled task is polled: strong fairness of `TryRecv`, because the main thread may
be busy with another task every now and then; `queue_unix` shows that the queue keeps this. There,
who waits for the lock of `schedule_runnable` gets it in the end: strong fairness of
`SpawnTask` and `WakeTask`, since other threads may take it every now and then. Nothing is
assumed of the function the thread runs.
In `LocalPane` the three threads, the main thread and timers go on (weak fairness of each,
which is what the operating system and the executor give them); nothing is assumed of the
child, of other processes, or of users. In `RemoteLines` a connection comes back (weak
fairness of `Reconnect`: the loop in `Client::new` tries for ever), and pushes, answers,
deliveries and the painting of the screen are strongly fair, since a connection that
breaks disables them every now and then; breaks are bounded by `MaxUpsets`.
`ScreenCatchesUp` needs a pane that is painted: a client that nobody looks at fetches
nothing. `WindowTabs`, `Sidebar`, `SidebarFile`, `TabTree` and `FrontEnd` have no liveness:
the first three do nothing on their own, `TabTree` is sequential, and for `FrontEnd`
`Reconciled` is stated at rest instead, since the search for cycles in a graph of this size
is too slow.

## 4. Proofs

`MuxProofs` proves, for all values of the constants, `TypeOK`, `OneHome`, `FreshIds` and
`NoLostPrune`. The inductive invariant `IInv` is their conjunction: `NoLostPrune` needs
`OneHome` to know that the tabs of a window are the tabs a prune looks at, and `OneHome`
needs `FreshIds` because a new tab must not reuse an id that is still in a window. The
argument is made once per operator, not per action: lemmas say that each method of
`Mux` keeps `OneHomeIn`, and what a prune leaves behind (after
`PruneOutcomes` whatever is still untidy has a removal queued or a waiting thread
whose child has exited). The actions then compose these facts. The assumptions
are those named in `Mux`: the bounds are naturals, there is a workspace, and the
configuration has one of its values.

`TabProofs` proves `ActiveValid` and `SurvivorStaysActive` for any number of tabs, any arguments of
the key assignments and both settings of the option. `ActiveValid` is inductive. Everything rests on one
fact (`Kept`): after a removal the others are there, each once, and the tab that was active is
still active if it is among them. For one removal it follows from `fixup_active_tab_after_removal`; for a prune
from an induction over the turns of its loop. The library's induction theorems cannot be used (they take an
operator as a parameter), but that numbers are well-founded can be stated without one:
`SetInduction` says that a set with 0 and all successors is `Nat`, and `LoopRuns` uses it to show that the
function which the recursion describes exists. Where the active tab itself is closed, nothing is claimed of
which one takes its place but that there is one (section 5).

The second and larger part of `TabProofs` proves `TreeTypeOK` and all four properties of `TabTree`, for
any panes, sizes and splits and trees of any shape. The
inductive invariant is `TreeTypeOK` with `FocusIsShown`; `Shape`, in the former, is what makes a function from
paths a tree. The argument goes from the bottom up:

* Positions. `Before` is a strict order of the leaves (`LeavesOrdered`), so that an index is
  a rank in it, names one pane, and every number below `Count` is that of a pane. This is proved of any
  finite set in one line (`Orders`, `Rank`), without a word about trees.
* Trees. A split in the place of a leaf or of the root, a leaf that is closed up, and nodes that change
  their sizes only (`Alike`) leave a tree with the panes that they should, in the same order but for
  the one that came or went. `Place` and `Lift` say where a position goes when a leaf beside it does.
* Walks. `Iterates` says that a recursion over numbers describes a function; with it come
  `AdjustSteps`, `FitAfterIs` and `RemoveWalkIs`. The last one is about any set of tabs that the removal of a
  leaf does not leave (`Closed`), so that it serves for more than one invariant.
* Indices. A removal shifts the ranks after it by one, which is what `FocusAfter` makes up for
  (`FocusRemoved`); a split to the right of the one that has the focus does not, and the other kind moves the
  focus to a pane that is there all the same, which is all that `FocusIsShown` claims.

`SizesAddUp` is inductive given those two. What the proof needs of each operation, beside the facts above:

* Resizing. A cell that a split gives or takes grows or shrinks exactly the rooms it reaches (`CellRoom`),
  so that the parts fill the room again after each cell (`CellFits`), and after all of them
  (`AdjustSizeFits`); unless the walk reached a split that had no cell to give, which `astray` records.
* Splitting a pane. The two parts and the bar between them make up the leaf that was there
  (`DividedFits`), and no other room changes. Of a split of the whole tab nothing is claimed (section 5).
* Moving a split keeps the sum of its parts; the cascade then fits each node after it to the room
  that it now has (`CascadeFits`) and tells each pane (`CascadeTells`).
* Removing. What stays has no less room than before in either axis (`PlaceRoom`), so fitting it always has
  the space it needs (`ClosedFits`), and one removal after another keeps that up (`RemovalFits`).
* Rotating and swapping exchange panes and leave the splits alone (`SameSplits`), and tell the panes their
  new rooms. Unzooming resizes from `before` to `size`, and `before` is the size that the tree has.

What the theorems say is limited as the properties are: where several panes go in one walk, or panes are
moved under a zoom, the focus is marked as astray, and nothing is claimed of it; nor of the sizes
once they are astray (section 5).

`SpawnQueueProofs` proves, for every capacity of the pipe, drain size and bound on the
queue, and for both loops, `TypeOK`, `NoMissedWakeup`, and that every
step of the queue is a step of `Executor` or a stutter. `NoMissedWakeup` speaks of the
moment when the main thread is in `poll`; the invariant says for each place between
the check of a queue and that moment (`check_low`, `dispatch`) why a closure that
came since will still be noticed: its thread has not written yet, or its byte is in
the pipe and the edge is up. That a write may fail for want of room does no harm
(`FullPipeReported`): each drain leaves room, so a pipe that is full after it was
written since, and poll has not reported that write yet. The assumptions are `PipeAssumption`
and `BoundAssumption`.

`SpawnQueueEventProofs` does the same for Windows, for every depth of nesting. The
strengthening is `FoundEmpty`: from the moment a run has found both queues empty until the
wait is over, whatever is queued has the event set or its thread is still to set it;
nested runs, which reset the event as well, return to a closure or to a message and never
to the wait itself. From it follow `NoMissedWakeup`, and with the types that every step is
one of `Executor` or a stutter.

The second part of `SpawnQueueProofs` is about the tasks of `ThreadTask`: `ThreadTypeOK` and `OutcomeIsTheThreads` hold for any set of them. `SenderGone` says when a
channel has no sender any more: the function panicked, or the result was taken and the
task is ready; the two are never confused.

The last part is about those tasks in that queue, for any number of them. Every step of
`QueuedTasks` is one of `SpawnQueue` and one of `ThreadTask`, or leaves its variables alone
(`TasksRunInQueue`, `TasksAreThreadTasks`), so that what is proved of the two holds of
the whole. `ScheduledIsQueued` says that a scheduled task has one way to be polled. Its
strengthening `QueueInv` adds where a task can be in each of its states (`Whereabouts`): one that
waits has no closure in the queue, so that a wake-up makes one and not two, and one that looks into
its channel is being run. `EntersLast` and `ScheduledKeeps` say it of all that schedule a task at once.

`SidebarProofs` proves all five properties of `Sidebar`, and `TypeOK`, for any workspaces and configuration,
with lists of any length. The inductive invariant is short, `TypeOK` and that the file has what is in
memory (`SavedAll`, which is what a restart needs); the rest are facts about any overrides at all, so no
sequence of renames, moves and reloads can spoil them. They are proved of the operators that the list is
made of, in the order of `compute_sidebar_entries`: what `Only` and `Distinct` keep, how they commute with
each other and with putting sequences one after the other. `MaterializedIs` says that the order
`move_in_order` starts from displays as what is on the screen, hidden and repeated names
in it or not; `ShiftedIs` that it takes out the first occurrence of a name and puts it in one other place, so
that nothing else moves (`MoveKeepsOthers`). `MoveGoesUp` computes the result for an order without
such names. `RenameKeepsPlace` pushes the rename through both operators (`RenamedOnly`,
`RenamedDistinct`): it may, because the new name is one that nothing knew. `Only` and `Distinct` are recursive
functions over positions; `SeqInduction` says that a set of sequences that has the empty one and
with each sequence those that are longer by a name is all of them, and takes the place of the library's induction theorem.

Its last part proves `FileWhole` and `SavedStaysSaved` of `SidebarFile`, for any set of changes, under the
assumption `Alone` that there is one process (section 2 says what two do). `TmpInv` says what
is under way with the temporary file at each step of `atomic_write`, in particular that it
is never the node of the file; `MemoryInv` that a running process knows of what was saved,
without which the next save would lose it.

`LocalPaneProofs` proves, for output of any length, any number of upsets and every use of
`exit_behavior`: `TypeOK`, `ClosedForAReason`, `CommandSurvives`, `FramesAreWhole`, and
`AllShownInOrder`. The invariant `LifeInv` carries the reason for a removal back to
where it arose: `LeavingNoted` says that a pane that is dead, gone, or has a removal queued was
closed by a user or has one of the reasons of `ReasonToClose`; `ReaderNoted` says so of
the reading thread, which goes by the behavior it took with it when it started; `ExitNoted` that the
configuration is one of those the pane has seen, and that a child that exited has let go of the pty. On it rest two
others, one per question. `FrameInv`: where an update begins on the screen another mark follows, or it is
the last thing shown and the parser holds output back, and what waits to be sent has no mark
in it. `InOrder`: the fields of `out`, put one
after the other, are what was written, up to the banner of a held pane. `AllShownInOrder` is the
safety half of `LastWordsShown`: once the parser is done, all of it is on the screen.

`FrontEndProofs` proves `Reconciled`, `ActiveIsOccupied` and `QuitSparesSwitch`, for any number
of windows and workspaces, with any number of notifications waiting. At rest these are
simple statements; the invariant says what makes up for each of them before. `Sound`: a
GUI window shows what the front end thinks, or the last `show` in the queue for it will make it
so (`WillShow`); one that is open and not known is closing. `Heeded`: the known windows are
`Tidy`, or a reconciliation is queued, or a switch is still to come which will queue one;
`Awaited`: the flag `switching_workspaces`, under which notifications are dropped, is up only while
such a switch is to come. `Sparing`, for `QuitSparesSwitch`: where a closure that may end the program
is queued, no switch holds an `Activity` before it, and no live window is of a switch's making;
this is where it matters that the `Activity` is taken at the key press. Matching in the
order of the numbers rests on lemmas about `Rank` and `Ascending`.

`RemoteLinesProofs` proves `TypeOK`, `NoOrphanFetch` and `LineIsCurrent`, for any number of rows,
fetches, messages in flight, sequence numbers and broken connections. The parts of its
invariant:

* `ScreenFits`, `Known`: neither the client nor anything on its way to it speaks of a row
  below what was on the screen when the server last looked (`Reach`). So the server knows all the rows
  that it is asked for, and its answer leaves none out.
* `NoOrphans`: a row tagged with a fetch is among the rows of a request or an answer with
  that tag. It is `NoOrphanFetch` by tags, which is what an answer compares.
* `SeqnoTold`: the sequence number that the session notes was one of the terminal, and while
  a push is computed both the old one and the new one are known.
* `Replaced`, unless a delta was overtaken: a line that the client calls current, one that an
  answer will make current, one that a failed fetch will give back, and one that a
  delta brings, is the terminal's or will still be replaced: by the push being computed, by one
  that is due because the session lags behind, or by a delta further back on the wire. It is an
  invariant only with the last three kinds of lines in it.

Hypotheses. The theorems assume the named assumptions of their modules, and those about `SidebarFile`
and `RemoteLines` and one about `Mux` need one more, each the setting of the run that checks the same property. `Alone`, for
`SidebarFile`. `"set_window_workspace" \notin Ops`, for `OccupancyExact` of `Mux`: that operation
moves a window without recounting, and a count is then wrong until the next one. With it absent,
counts can be wrong only while an empty tab is left in a window (`Cached`), which
`NoLostPrune` excludes at rest. `~LocalEcho`, for `RemoteLines`: a prediction turns a stale or
fetched line into one that is called current, and both properties fail (section 5).

The proofs of refinement are about initial states and steps; that `ImplementsExecutor` and
`ImplementsThreadTask` also hold of the fairness of `Executor` and `ThreadTask` is model-checked.

Only model-checked is what needs fairness: all liveness, which is beyond the prover.
Every invariant, every action property, and the safety half of each refinement is proved.

## 5. Disagreements and known limits

Found while modelling, by the first shape of a property that then had to be stated with
a side condition, or by reading. `thread_woken` shows one of them by a behaviour; no other run
demands what the code does not do.

* *Mux.* A pane is left in no window when its window is closed while its spawn awaits
  (`mux/src/domain.rs:69`); `spawn_pane` registers a pane before `split_and_insert` finds
  that it does not fit (`domain.rs:661`); `split_pane` takes a pane that is moved out of its
  tab before it knows that it fits elsewhere (`domain.rs:118`).
* *Windows.* With `switch_to_last_active_tab_when_closing_tab` the index of the last active tab is read
  before the removal that shifts it (`mux/src/window.rs:175`); without the option the tab to
  the right is activated, where the documentation says left.
* *Executor.* `poll` looks into the channel and stores its waker afterwards (`promise/src/spawn.rs:100`
  and 103). A thread that sends its result in between finds no waker (line 86) and ends, and the task
  waits for ever, with the result in its channel. The comment at lines 81-84 says that who
  polled before has left a waker; `thread_woken` has the behaviour. Looking into the channel
  once more after storing the waker would do. Who awaits a thread that panics after the task
  was polled is never told either: nothing wakes it (line 78). `SimpleExecutor` sends both priorities to one
  channel.
* *Front end.* `spawned_mux_window` outlives the GUI window it was noted for
  (`wezterm-gui/src/frontend.rs:412-423`), so the task may skip a mux window that nobody shows;
  `docs/recipes/workspaces.md:12` says that switching shows the windows of the workspace. A
  context that is lost leaves a mux window without a GUI window in the same way. A plain
  `SpawnWindow` takes its `Activity` only when its task is first polled, and may race the
  decision to quit, which is why `QuitSparesSwitch` speaks of `SwitchToWorkspace`. Any task
  that makes windows ends a pending switch, also one begun later. `SwitchWorkspaceRelative`
  divides by the number of workspaces, which is zero when the last window is gone.
* *Remote lines.* A predicted key turns a stale line into one that is called current
  (`renderable.rs:233`); with `LocalEcho <- TRUE` TLC shows how `NoOrphanFetch` fails, and text
  predicted wrongly may stay. A delta that waits for images is overtaken by the next one, and
  then brings older lines over newer ones: `overtaken` keeps those behaviours apart.
  `make_all_stale` replaces the cache by one without a limit (`renderable.rs:426`).
* *Tab tree.* `adjust_x_size` does not end when a part must shrink that holds two panes of one
  cell each (`mux/src/tab.rs:387`; `hung`). A split of the whole tab leaves `self.size` at the size
  of the old part (`tab.rs:2010`). Removing the zoomed pane after the window was resized, or
  removing or rotating others while zoomed, leaves sizes that do not fit; activating index 0
  while zoomed makes the zoomed pane another than the active one. `remove_pane_if` steps over
  the leaf that takes the place of a removed one, so that of two dead siblings one stays
  until the next prune, and counts wrongly after it. A split to the left of the active pane,
  when another pane is split, moves the focus by one. Moving a split can leave a part with no
  cell, and below three cells the subtraction wraps. A part that is to shrink may hold a split of the other axis that
  cannot give a cell: it keeps what it has, and the parts no longer add up (`tab.rs:352`; it takes four panes,
  and TLC's simulation of the model found it when the sizes were not yet marked as astray there). In Lua, `tab:rotate_clockwise()` rotates
  counter-clockwise (`lua-api-crates/mux/src/tab.rs:120`).
* *Local pane.* Any change of the terminal counts as the first output of the shell: a
  resize, the banner, or the message of an exit may have the command typed before the
  shell has flushed its input (`command_injection.rs:36`; `past.disturbed`). A prompt that is there before
  the task's first poll is taken for none, and the command is never typed. A pane that is held
  after its child's exit is not dead, so the command is written although nobody reads it. With
  `exit_behavior = "Close"` the end of the output removes a pane whose child only closed
  its terminal and goes on.
* *Sidebar.* See section 2: names that repeat in `order`, and names that never leave `hidden`.

## 6. Not modelled, and what comes next

Terminal emulation, escape sequences, fonts, rendering, the window systems, ptys,
configuration and Lua, and the generated tables of characters make up more than nine tenths of
the source. They interpret or convert data in sequence, or call libraries; what can
go wrong in them is in values that a model checker would have to enumerate, and tests of
single inputs reach it better. They are listed in `PROJECT.json` with their reasons.

Parts that keep shared state and are left for later, in this order:

1. `Rpc` and `Reconnect`: the client's table of outstanding requests, serials, a
   connection that breaks, and the mapping of remote to local ids after `resync`.
2. `Promise` and `Future` beside `ThreadTask`, and what becomes of a promise that is dropped:
   `BrokenPromise` is an error that a client expects and that nothing returns
   (`promise/src/lib.rs:11`, `wezterm-client/src/pane/renderable.rs:816`).
3. In `TabTree`, recency and activation by direction, and `sync_with_pane_tree`, which a client's
   mirror of a remote tab rests on.
4. `Leases`, `LfuCache`, `RateLimit`, `RangeSets`: small libraries, the last one as pure
   operators against a reference definition.
5. macOS' run loop source as a third implementation of `Executor`; `ScopedExecutor`; the
   defaults of workspaces; tmux control mode.
