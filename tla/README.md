# TLA+ models of the SOC dashboard and its kernel

This directory holds the specifications of `silvercore-kernel` (a header-only C
UI kernel) and of the programs and bindings built on it. Paths below are
relative to `src/silvercore-kernel/`; the program's own README is `src/README.md`.

    tlasany M.tla                        parse a module
    tlc -workers 2 -config X.cfg M.tla   model-check it
    tlapm MProofs.tla                    check its proofs

## The system

### The dashboard program (`apps/soc_dashboard/`)

Two threads share one global `Dashboard` (render.h:29).

* The **event generator** (`gen_thread_fn`, soc_dashboard.c:203) makes batches of
  84 to 333 log events, posts each to the task queue, raises an alert for one in
  four of the grave ones, posts it too, and marks a random node of the network
  graph and its edges as suspicious. Between batches it sleeps ten slices of
  100 ms, and inside them for as long as it is paused.
* The **main thread** reads a key, lays the windows out again after a resize,
  drains the task queue (the handlers enter events in the log ring and alerts in
  the threat table), draws the network canvas and the panels, and sleeps. `p`
  flips the pause flag, `q` leaves the loop; then the generator is stopped and
  joined and everything is released.

| component | state | operations | shared with |
|---|---|---|---|
| task queue (task_queue.h) | `ring`, `write` (atomic), `read` (plain) | `task_post`, `task_drain`, `task_depth` | both threads |
| threat tracker | `alerts`, `alert_count` | `handle_alert` + `alert_sort`, `render_threats` | main only |
| log ring | `log_ring`, `log_write` | `handle_log`, `render_log` | main only |
| network graph | `nodes[].suspicious`, `edges[].suspicious`, canvas | `net_mark_suspicious`, `net_render_canvas` | both threads, no lock |
| control flags | `gen_running`, `gen_paused`, `quit` | keys, start, stop | both threads, atomic |
| resize | self-pipe, `term_rows/cols`, windows | `handle_sigwinch`, `sigpipe_*`, `layout_windows` | signal handler and main |
| frame statistics | `frame_times`, `frame_idx`, `frame_count` | the frame loop, `compute_p99` | main only |
| command line | `g_cfg` | `parse_args`, `next_pow2` | main only |

### The kernel headers (`include/`) and what is built on them

| component | state | operations |
|---|---|---|
| arena and pool (sc_arena.h) | offsets, temp depth; free list, count | push, pop, reset, temp begin/end; alloc, free |
| task queue of the event loop (sc_runtime.h:226) | linked list from `tail` to `head`, stub node | push by any thread, pop by the loop |
| timers (sc_runtime.h:263, 375) | min-heap by fire time | set, repeat, clear, fire |
| fibers (sc_runtime.h:304) | table of fibers with a state | spawn, yield, exit, run by the tick |
| event loop (sc_runtime.h:408) | the three above, `running` | tick, run, stop, shutdown |
| layout (sc_layout.h) | tree of nodes as index arrays, styles, results | add, the two passes of compute, screen rectangle |
| widgets and scene (sc_widget.h) | widget table, animations, viewport | add, mutate, animate, update, render, dispatch, resize |
| graphics (sc_gfx.h) | resource slots, a batch of vertices, counters | make, destroy, begin, draw, submit |
| stock dashboard (apps/stock_dashboard/) | tickers with a dirty flag, fps window | tick, update, the frame loop |
| Python binding (bindings/python/) | list of widgets, handle of the library | add, mutate, update, resize |
| WASM glue (tools/wasm/silvercore.js) | running flag, frame request, C pointers | init, start, stop, frame |

Any thread may call `sc_task_post`; everything else of the kernel belongs to the
thread that runs the loop. The stock dashboard calls `sc_loop_tick` once a frame
and sets no timers; the SOC dashboard does not use the kernel's loop and has a
queue of its own.

### What is hard

* A single-producer ring whose consumer index is not atomic; a multi-producer
  list where a producer can be stopped between its two steps; an allocator
  without synchronisation under an API called thread-safe.
* Marks written by one thread and drawn by the other without a lock.
* A queue that drops what does not fit, after ids have been given and nodes marked.
* Counters, sizes and indices that wrap; full tables; a batch full within a frame.
* Pausing and quitting at any moment of the generator's nested loops.
* Signals that merge, a pipe that fills up or could not be made.
* Callbacks that call the API: timers set, cleared or re-armed while the heap is
  being fired, widgets added and hidden while an event walks them.
* A frame loop in a browser that is started twice.

## The modules

| module | models | composed in |
|---|---|---|
| `BoundedFifo` | what the dashboard's task queue promises (abstract) | `SocDashboard` |
| `TaskQueue` | task_queue.h, one action per shared access; implements `BoundedFifo` | `MCTaskQueue` |
| `AlertTable` | the threat tracker: operators and operations | `SocDashboard`, `MCPanels` |
| `LogRing` | the log ring: operators and operations | `SocDashboard`, `MCPanels` |
| `SocDashboard` | both threads of the program, over the three above | `MCSocDashboard` |
| `ResizePipe` | signal, pipe and layout of the windows | `MCPanels` |
| `FrameStats`, `Config` | frame times and percentile; command line | `MCPanels` |
| `MpscQueue` | the event loop's task list, one action per atomic access | |
| `TaskPost` | `sc_task_post` over the loop's arena, one action per access | `MCKernel` |
| `EventLoop` | tick, run, stop, shutdown, timers, fibers, callbacks | `MCFrames` |
| `Arena` | the bump allocator | `MCKernel` |
| `SlotStore`, `Pool` | an allocator of slots (abstract), and the slab that implements it | `MCKernel` |
| `Gfx` | graphics context: framebuffer, resource tables, batch, statistics | `MCKernel` |
| `Layout` | the flex engine: links and both passes | `MCKernel`, `StockLayout` |
| `Scene` | widgets, animations, update, render, dispatch | `MCKernel`, `MCFrames` |
| `StockDashboard`, `StockLayout` | the benchmark's frames; its widgets laid out | `MCFrames` |
| `WasmLoop` | start, stop and frame callbacks of silvercore.js | `MCFrames` |
| `PyScene` | the scene of the Python binding | `MCKernel` |
| `TaskQueueProofs`, `SocDashboardProofs`, `AlertTableProofs`, `PanelProofs`, `MpscQueueProofs`, `EventLoopProofs`, `KernelProofs`, `FramesProofs` | theorems | |

`MCPanels`, `MCFrames` and `MCKernel` put several components that share no state
into one instance: a variable (`part`, `unit`) names the one that takes steps and
the rest stay as they begin, so the states of a run are the sum of its parts' and
not their product. The properties of the parts are brought together there, one
name for what a caller relies on (`LayoutIsSound`, `ContextIsSound`, ...), each
with its part's type invariant.

### How the models correspond to the code

* **TaskQueue.** `task_post` is six actions: the full test with its load of `read`
  (refused or admitted), the stores of function and payload, the release store of
  `write`. `task_drain` is five: the acquire load of `write` and its test, the call
  through the slot's pointer, the handler's run on the payload in place, the store
  of `read`. The producer's load of the plain `read` returns any value it has held
  since the producer's previous load (`LoadsOfRead`).
* **AlertTable.** `HandleAlert` is the whole of `handle_alert`: choice of the row,
  overwrite, `flash_frames`, insertion sort (`Sorted`, one `Insert` per row). A full table puts
  out the first of its least severe rows; `KeepsMostSevere` states what is then
  still guaranteed.
* **SocDashboard.** One action per access to shared state. Both loops over the
  graph go one element at a time, because the two threads may be in them together.
  Marks are stored and loaded in program order (x86, plain byte accesses). The canvas
  is its cells, each with a glyph (`canvas`) and `canvas_susp` (`lit`); where nodes lie
  (`NodeCell`) and the middle of two (`Middle`) are parameters, any placement of the graph
  in cells. As in the code an edge is drawn only into a blank cell and a node over
  whatever is there: with the default 100 nodes, nodes 1 and 2 share a cell, so the X of
  node 1 can be hidden while an edge of it stays `*`. The mark is read once for the
  glyph and once more for `canvas_susp`, two actions: a lit cell may show `.` or an
  ordinary node, never the reverse (`CanvasConsistent`).
* **ResizePipe.** `HandleSigwinch` writes at most one byte per delivered signal. The
  `KEY_RESIZE` of soc_dashboard.c:424, which can only lay out once more, is left out.
  Refresh (`endwin`, `refresh`) is where ncurses asks for the size;
  `layout_windows` records it.
* **MpscQueue.** A push is `Swap` and `Link`; between them the list is cut. Pop is
  one action per atomic access at which another thread can come in between, up to
  its own push of the stub. `list`, `order` and `ran` are histories.
* **TaskPost.** The load of the arena's offset, its store, the filling of the task
  and the push are separate. `Serial` says that one thread posts at a time.
* **EventLoop.** The heap is the code's array with its sifts; an id is the table's
  length when a timer is set, and `handle` the id the caller got. Every timer has a
  `key` that the code does not. Callbacks, and the program between ticks, make any
  API calls; `Lead` lets the time given to a tick be ahead of the clock, as the
  tests have it (tests/test_runtime.c:65). With `managed`, `sc_loop_run` drives.
* **Arena.** Offsets are machine integers; `live` is the history of allocations
  that may still be used, `temps` the sections. `SizeIsAligned` assumes that every
  alignment divides the arena's size: the code does not ask for it (see below).
* **Pool.** Links lie in the slots: a write by the holder of a slot may put any
  value there. `SlotStore` is the promise, with the refinement `PoolIsStore`.
* **Gfx.** A handle is an index into its kind's table; sizes are machine integers;
  quads and submitted commands count vertices and calls as the code does.
* **Layout.** Integers in place of floats: a division rounds down, and the instances
  choose lengths for which every one is exact. Lengths of a style are not negative
  (`Style`, `LayoutAssumption`), except the -1 of "undefined". The recursion of both
  passes is a recursive function over node numbers. Crossing the main and the cross
  length at each level is as in the code, so the properties that need it otherwise are
  stated for rows. `GrowthFills` is about shares that are whole: rounded ones leave a
  rest, as floats do.
* **Scene.** A step of the dispatch is one widget; its callback may add, hide or
  animate widgets. Animations are ticked in slot order, then the layout overwrites
  places (`x` stands for x, y, w and h; colours are left out), so only of alpha is the
  animated value left. Widgets are drawn into a bounded batch.
* **StockDashboard.** Moves of prices, dirty flags, the cells, the rate's window
  and the calls of a frame in their order. `StockLayout` adds the nodes of
  `build_scene` to `Layout`.
* **WasmLoop.** The browser runs all callbacks that were requested before a frame,
  with one time; the page calls `start` and `stop` between any two.
* **FrameStats**, **Config**, **PyScene** follow their functions line by line.

## The runs

| run | instance | what it shows |
|---|---|---|
| `task_queue` | 4 slots, 11 posts | no slot is shared, tasks run once, in order and whole, depth is exact, `IInv`, the refinement `FifoSpec`; `EveryTaskRuns` |
| `soc_panels` | see Panels.cfg | `AlertTable`, `LogRing`, `FrameStats`, `Config`, `ResizePipe` |
| `soc_safety` | 2 events, 2 outstanding tasks, 3 nodes and 3 edges in 3 cells | alerts accounted for, shown after their event, marks consistent, pause and quit |
| `soc_liveness` | 2 events, 1 outstanding task | `QuitEnds`, `TasksRunOrQuit` |
| `mpsc` | 3 threads, 2 tasks each | order, shape of the list, quiet pops, `EveryTaskRuns` |
| `event_loop` | 4 timers of which 1 is cleared, a task, two fibers, times 0 to 2, ticks up to one unit ahead | the heap, no timer lost, order of firing, each fiber run once by the tick that finds it |
| `frame_loops` | timers, fibers, browser, benchmark, animations | what holds of each frame, where animations end, and that the loops go on and end |
| `kernel` | see Kernel.cfg | arena, posts, pool, graphics, layout, scene, Python scene |
| `loop_handles`, `loop_cleared`, `task_post_race`, `stock_header` | | expected to fail: see the disagreements |

**Bounds, and why they are enough.** The ring of `task_queue` wraps and is full and
empty at every index. In `soc_panels` six alerts meet a table of three rows in every
order of two severities; the log ring wraps, and so does its counter; eight frames
go through a ring of three; 2^32 is 128, so that numbers on either side of the wrap
of `next_pow2` are given; a pipe of three bytes is full and is drained in two reads. In
`soc_safety` two events make up to four posts, so they reach a refused log post and
a refused alert post; the second alert finds the table full; two nodes may be marked
while the main thread draws; two nodes share a cell of its canvas, the middles of two
edges share another, and one edge lies under a node; a pause or a quit may come at any moment. In `mpsc` six
tasks let the stub leave and re-enter the list several times with pushes in either
gap of the comparison with `head`. In `event_loop` four timers make a heap of three
levels, callbacks set and clear in the middle of the firing, and a fiber is spawned
between ticks, by a timer or by another fiber, before or after its turn in the table. In
`frame_loops` tasks post, set and spawn; the browser's loop is started up to
three times, so that several chains of callbacks coexist and some are stopped; two
animations drive one widget, of any two of six tweens, five of alpha and one of a
place, in either order. In `kernel` the arena's sums wrap at 16 with an arena of 8; the posts use up the arena;
framebuffer sizes lie on both sides of the wrap at 64; tables and batches become
full; trees have every shape of four nodes.

**Fairness, and why the code justifies it.**

* `task_queue`: the consumer's actions, as the frame loop drains in every frame;
  nothing of the producer.
* `soc_liveness`: each thread as a whole, as the operating system schedules both; not
  of keys, nor of the alert's chance.
* `soc_panels`: delivery of a pending signal, and the main loop.
* `mpsc`: the loop, which ticks again and again (sc_runtime.h:452), and `Link`: a
  thread inside `_sc_mpsc_push` comes out of it. Nothing makes a thread post.
* `frame_loops`: the driver ticks and its callbacks return; the clock advances; the
  benchmark's loop goes on; a scene is updated in each frame; the browser makes
  frames. Nothing makes the program call the API.

## Disagreements with the documents

Four are runs that are expected to fail:

* `loop_handles` (`HandleNamesTimer`, sc_runtime.h:387): `_sc_timer_add` returns
  `t->id` after the sift, through a pointer to the last slot, which may by then hold
  another timer; and ids come back once a timer has been removed. The comment at
  sc_runtime.h:398 has ids name timers.
* `loop_cleared` (`DueTimersFire`, sc_runtime.h:416): a cleared timer at the top of the
  heap ends the firing loop in every tick; docs/WIKI.md:600 says that due timers fire.
  `TimersKept` states what is still guaranteed.
* `task_post_race` (`NoSharedTask`, sc_runtime.h:365): two threads that post at once get
  the same task; sc_runtime.h:173 and docs/WIKI.md:571 say thread-safe. With one poster
  at a time `PostsAreRun` holds.
* `stock_header` (`LabelsInHeader`, stock_dashboard.c:186): free space is given twice in
  a space-between row with a growing child, so the labels lie right of the window.

The others were met while modelling; the models have the code's behaviour.

| where | the code | the document |
|---|---|---|
| sc_runtime.h:420 | after the callback `top` is slot 0: if a timer that sorts earlier was set, that one is removed or re-armed, and the one-shot fires again | docs/WIKI.md:592 "One-shot after 500 ms" |
| sc_runtime.h:347 | `sc_fiber_yield` returns into the fiber, which runs to its end | sc_runtime.h:170 "suspend current fiber" |
| sc_arena.h:76 | `size - aligned` can wrap if the alignment does not divide the size | sc_arena.h:76 "overflow-safe OOB check" |
| sc_arena.h:73 | the offset is aligned, not the address | sc_arena.h:70 "returns aligned pointer" |
| sc_gfx.h:318 | generations are counted and never compared | sc_gfx.h:51 "generation-validated" |
| sc_layout.h:336, 341 | children get width and height where they read main and cross | sc_layout.h:354 |
| sc_layout.h:334, 339 | results are absolute: a child's place begins with its parent's | sc_layout.h:93 "relative to parent content area", docs/WIKI.md:371 |
| sc_layout.h:272 | growth ignores margins | docs/WIKI.md:331 "margin (all 4 sides)" |
| sc_layout.h:202, stock_dashboard.c:213 | the header is measured along its row, so the grid begins at y = 392 | stock_dashboard.c:10 "Header bar (56 px)" |
| stock_dashboard.c:231 | `cx` and `cy` are not used and nothing wraps: one row of cells | stock_dashboard.c:13 "32 cols x 32 rows" |
| stock_dashboard.c:311 | the layout is computed in every frame | stock_dashboard.c:21 "computed once" |
| sc_widget.h:391 | animated places are overwritten by the layout's | sc_widget.h:20 "are animatable" |
| sc_widget.h:345 | slots of ended animations are not used again | sc_widget.h:100 "-1 = free slot" |
| silvercore.py:330, 402 | `self._ptr` is never set | silvercore.py:318 "backed by the native SCScene" |
| soc_dashboard.c:271 | of fewer than 300 frames the figure is a lower rank, or an unwritten zero (:266) | soc_dashboard.c:257 "p99" |
| soc_dashboard.c:296 | without the pipe no resize is noticed | soc_dashboard.c:296 "flag path works" |
| render.c:457 | the fill figure is the masked write counter and drops to 0 when the ring is full | src/README.md:100, fill percentage |
| soc_dashboard.c:349 | `next_pow2` above 2^31 is 0 | types.h:46 "power of 2" |
| soc_dashboard.c:353 | `threat_max` is read nowhere | soc_dashboard.c:12 "Max tracked alerts" |
| soc_dashboard.c:349 | `log_ring_size` is read nowhere but in its own bound | soc_dashboard.c:11 "Log ring capacity" |

## What is proved

Each theorem holds for every value of the constants that its module's assumptions
allow; runs check the same formulas on the small instances.

* **`TaskQueueProofs`**, for every ring of at least two slots and any number of posts.
  `Invariance`: `Spec => []IInv`. `RunsInOrderExactlyOnce` is not inductive: `IInv`
  adds where the pending tasks lie (`SlotsHoldPending`), how far each thread has got
  with its slot (`ProducerHalfWay`, `ConsumerHalfWay`), and what the stale full test
  rests on (`ProducerKeepsOneSlotFree`: the distance from the producer's view of
  `read` to `write` is the outstanding tasks plus the completed ones it has not
  noticed). `SlotNeverShared`, `RunsInOrder`, `DepthCorrect` follow; `RefinesFifo`
  shows the bounded FIFO, by counting tasks where the ring compares indices.
* **`SocDashboardProofs`**, for every graph with an edge, any batches, severities, number
  of events, capacity of the queue and size of the panels (`DashboardAssumption`,
  `PanelAssumption`). `AlertsAccountedFor`, `LogsComeFirst`, `MarksAreShown`,
  `PauseStops`, the action property `FinalAfterJoin`, and `TableIsRight`: what the
  threat table promises also holds when its alerts come over the queue from the other
  thread. None of them is inductive. `IInv` has nine parts. `MarksInv` says which edges
  of the node being marked are still to come; `CanvasInv`, for any
  placement in cells, why each lit cell is lit (`NodeLit`, `EdgeLit`): by the last node
  drawn there, or by the first edge in a cell without nodes, of which a suspicious node
  is drawn X, is hidden by a later one, or is still to be drawn (this is where the order
  "mark nodes first, draw nodes last" is used). `FilledInv`: the cells of the edges gone
  through are not blank, so the edge that is drawn is the first in its cell. `QueueInv` and `IdsInv`: the
  tasks run are a prefix of those accepted, whose ids rise, and accepted and dropped
  ids are all ids but the one being posted. `LogsInv`: a log task is posted or dropped
  before its alert, already in the queue. `PauseInv`: at a second batch the generator
  has not looked at `gen_paused` since the key. `PanelInv` brings in `AlertTable`'s.
* **`AlertTableProofs`** holds the lemmas about the threat table. `SortIsStable`: the
  insertion sort returns a stable sort of a sequence of any length. `Sorted` is defined
  by recursion, so `RecursionHolds` first shows that a function satisfies its equation,
  by induction over sets of numbers (`Induction`, from the well-foundedness of `<`).
  `AlertKeepsTable` and `RenderKeepsTable`: `TableInv` is kept by the two operations, if
  the ids of alerts rise (`IdsRise`). `KeepsMostSevere` counts: the sort changes no
  number of rows at least as severe as s, and overwriting a least severe row lowers one
  only if all rows were that severe.
* **`PanelProofs`** draws the conclusion for the panels of `MCPanels`: `PanelRows`,
  `PanelKeepsMostSevere`, `PanelIsSorted`, `PanelFlashes`. For any pipe, reads and
  sizes of the terminal, given a pipe, `LayoutAlwaysFollows`; its invariant adds
  `NewsOnItsWay`: the news of the latest resize is a pending signal, a byte in the
  pipe, or in the loop between its drain and its layout.
  `LogAlwaysShowsNewest` needs that the counter's range is a multiple of the ring's size
  (`LogAssumption`; both are powers of two): then going back from the counter's slot
  gives the same place before and after either wraps (`SamePlace`), and no two of a
  ring's worth of events share one (`OtherPlace`). `FiguresAreRight` holds for sessions
  that a u32 counts, `MaxFrames <= IndexWord`: 300 does not divide 2^32, so a wrap of
  `frame_idx` would leave old times in the ring. The percentile is taken of a copy that
  `qsort` orders, modelled as a choice of an order of the places; `PlacesInOrder` shows
  that there is one, and `P99Right` counts the newest times above the chosen one by
  mapping them to the places behind its rank. `SettingsAlwaysHold` has as invariant that
  each setting is that of the last option already passed: the number that is skipped
  with its option is no option itself.
* **`MpscQueueProofs`**, for any threads and tasks. `ListIsWhole`, `RunsInOrder`, and the
  action property `QuietPopSucceeds`. The invariant adds that no node is in the list
  twice, that the node a push has swapped out of `head` is still in the list with the
  pushed one after it (`PushesFollow`), what each place of pop knows about the stub
  (`PopKnows`), that the list is the rest of the order (`ListIsRest`), and the shape of
  the list during a pop that no push overlaps (`QuietPop`).
* **`EventLoopProofs`**, for any clock, delays and numbers of calls. The sifts loop over
  the heap, which `Sifted` writes as a recursive function; `TurnsHold` shows that it
  exists. Between its turns a heap may be wrong at one place: less than its parent
  (`OrderedAbove`) or more than a child (`OrderedBelow`), and the place's parent is no
  more than its children. `UpTurn` and `DownTurn` show that one turn moves that place up
  or down, `SiftsUp` and `SiftsDown` that it comes to rest: the heap is ordered and holds
  the same timers. `TimerAdded`, `TopRearmed` and `TopRemoved` are what the three callers
  rely on. `HeapInvariance` needs nothing else, and gives `FiresByTime` (with
  `TopIsLeast`) and `FibersRun`. `TimersAreKept` needs more: the tick removes or re-arms
  whatever is at the top when the callback returns, so nothing may pass the fired timer
  meanwhile (`FiredIsTop`). A timer set by a callback is due no earlier than the clock
  plus its delay; the fired one was due at the tick's `now`. So the theorem assumes
  `DelaysCoverLead`: no delay is shorter than the lead of `now` over the clock.
  `sc_loop_run` reads the clock for each tick and has no lead. An embedding program that
  ticks with a time in the future, as `test_runtime.c:65` does, must keep to it, as the
  run does (`Lead = 1`, `Delays = {1, 2}`): with `Delays = {0}` TLC finds a callback's new timer removed unfired and the
  fired one left in the heap.
* **`KernelProofs`**, about the parts in the composition of `MCKernel`: each theorem is of
  `KernelSpec`, for every value of its part's constants (`KernelAssumption`).
  * Arena, from `SizeIsAligned`. `AllocationsStayIntact`: allocations in use lie in the
    arena and apart, below each offset it can go back to. `FitsInArena` is the
    arithmetic: an aligned offset that passes the first test has not wrapped and,
    as the size is a multiple, is not beyond the end, so the second test does not wrap
    either. The invariant adds `PopKeepsOlder` (everything but the last allocation lies
    below `prev_off`, which is why a second pop takes nothing more) and `SavedInArena`.
  * Posts. `PostedTasksAreRun` and, under the same condition that one thread posts at
    a time, `PostedTasksApart`. `OnePosts` is the missing part: whoever is inside
    `sc_task_post` works on the place after the last accepted task, and the offset
    counts that place as soon as it is stored. The run `task_post_race` shows both
    promises to depend on the condition.
  * Pool. `PoolImplementsStore`, a refinement: a step of the slab is a step of
    `SlotStore` or leaves it alone. The invariant is that the list is whole
    (`PoolIsWhole`) and that no slot is held twice. `CountFollows`: the code decides by
    the list whether the pool is exhausted, the promise by the count.
  * Graphics. `ContextStaysSound`. `SlotsNamed` adds that a slot is taken exactly when one
    resource in use names it; `BytesOfFrame` that the product of `sc_gfx_init` does not
    wrap once its two tests have passed.
  * Python scene. `PythonStaysSound`. `LinkedOnce` adds that the children of a widget are
    those that name it, each once. The cursor of `_layout` is a recursive function;
    `PartialSums` shows that it exists and `CursorSums` that it is the sum of the
    heights of the roots before.
  * Scene. `SceneIsWalkedInOrder`, an action property. The invariant adds that widgets called
    lie before the next one (`CalledBehind`) and that nothing places a widget while an
    event is in dispatch (`NewcomersUnset`): only an update does. For a frame,
    `QuadsInOrder` shows that the quads climb through the visible widgets (`Climbs`, kept
    by each concatenation), and `Beginning` that what the batch takes of them has the
    first.
  * Layout. `LayoutStaysSound`, for any number of nodes. That the links are a tree holds
    for any styles without negative lengths. The geometry has conditions, stated with each
    part in `Layout`: every node but the root is a row, and the children's measured sizes
    fit. Then siblings without margins that keep what pass 1 measured lie one after the
    other under any justification; they lie in their parent's content only if it
    justifies to its start or none of them grows (the run `stock_header` is a row where
    one grows under space-between, and the labels leave it); and the last of growing
    children ends where the content does only if all grow by whole shares from no length
    of their own, from the start. The invariant
    (`LayoutInv`) is local: a parent names its first child, a child the next one of the
    same parent, counts match (`FlexLinks`); and while a layout is up to date, the
    rectangle of a node is what its parent's gives it (`FlexPlaced`). That the walk along
    the links ends and meets every child once follows, since links only lead to later
    nodes (`ChainsEnd`, `ChainVisits`); `LastChildIsLast` is why `sc_layout_add_node`
    appends where it does. The recursions of both passes have solutions (`SizesMeasured`,
    `PlacesExist`), since a parent comes before its children. For the geometry, the fold
    `Total` is a sum in whatever order it takes its elements (`TotalIs`), shares rounded
    down add up to no more than there is (`SumOfShares`), and gaps and the first offset
    take no more than the free space (`GapStart`); so cursors climb by what was placed
    (`SiblingsApart`), and the last of them reaches at most the content's end
    (`ChildrenFit`), or just it (`SpaceIsFilled`).
* **`FramesProofs`**, about the loops in the composition of `MCFrames`.
  * Browser, for any number of starts. `FramesStaySound`. The invariant adds `Owed`:
    callbacks to come plus late ticks are at most the starts of a running loop, and one
    if it runs.
  * Benchmark, for any tickers and frames. `FramesShowPrices`. `CellsCurrent`: a ticker
    that is not dirty is shown as it is, and none is dirty between the writing of the
    cells and the next tick. `TimeCounted`: the window's time lies between its frames'
    shortest and longest (`FiniteMax`: there is a longest).
  * Animations, for any number of widgets and animations, any tweens and lengths of a frame
    (`SceneAssumption`). `AnimationsEndRight`, of an invariant and an action property
    together. `AnimInv` keeps an active animation within its duration; so one that an
    update ends is past it, and there each easing is the whole (`ValueAtEnd`). That
    alpha is left with this value, though every earlier slot may have written it in the
    same update, follows from `LastDrives`. One of a place leaves the widget where the
    layout puts it (`Updated`).

Only model-checked: liveness under fairness, which the prover does not reach
(`EveryTaskRuns` of both queues, `LayoutSettles`, `QuitEnds`, `TasksRunOrQuit`,
`LoopsGoOn`). Recursion is written as recursive functions throughout (no `RECURSIVE`
operator), and a proof about one first shows that a function satisfies its equation, by
induction over a set of numbers.

## The plan

Every safety and action property of the passing runs is a theorem; nothing of the plan is
left.

## Not modelled

* Panels, colours, event texts, random numbers: formatting of state that other
  modules own.
* sc_math.h and sc_types.h: floating-point arithmetic without state (the macro
  `SC_ALIGN_UP` is in `Arena`).
* backends/: stubs that return "not supported"; tests/ and the build files.
* Time. Sleeps, frame rates and deadlines are any delay; a drain that never catches
  up with a faster producer is outside.
* Failures of `newwin`, and rectangles of windows.
* Floating point: layouts whose divisions are not exact, and the spring easing.
* The limits of tables that only an assertion guards (512 timers, 256 fibers): programs
  that reach them are outside the contract.
* WASM glue: the canvas, mouse events, and memory. The scene's buffer is 256 KB
  (silvercore.js:116), less than `SCScene` takes; memory beyond a buffer is not in a
  model of the loop.
* Python binding: foreign-function declarations (`LayoutStyle.pack`,
  silvercore.py:166-181, has a format of twelve floats and gives it ten), the wrapper of
  the event loop, drawing.
* Two things the models have and no property praises: a tween of no duration never
  ends, and the explicit main length of a container is ignored by pass 1; the
  properties' conditions name both.

## Seeded faults

A definition named `Mut_...` is the definition after it with a plausible slip;
PROJECT.json names, for every property, one that makes TLC find it violated.
