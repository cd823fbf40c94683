# A TLA+ model of the stateful programs in this repository

The repository is one author's collection: configuration files of a Debian
desktop (`debian_config_files`, with vendored Emacs packages), a git helper
(`tools`), and `perftools`, some 14 000 lines of C that exercise one Linux
interface each. Most are a page long and print what a call returned. A few are
programs in their own right, with asynchronous completions, resources to be
given back when the ninth of ten calls fails, and loops that must end. These
are what this project models:

* `src/perftools/X/drm-howto`: the seven programs on the Linux mode-setting
  interface: five that set a mode and draw, one that animates with legacy page
  flips (`modeset-vsync.c`), one with atomic commits (`modeset-atomic.c`);
* `src/perftools/io/aio/io_queue.c`: a queue of asynchronous I/Os;
* `src/perftools/c/x86_asm/smp/smp-imps.c`: starting the other processors of a
  PC by the Intel multiprocessor specification;
* `src/perftools/modules` and `net/netlink`: five loadable kernel modules.

## Inventory

| Component | State | Operations | What is hard | What makes it correct |
|---|---|---|---|---|
| vsynced animation, `modeset-vsync.c` | `modeset_list`; per device `front_buf`, `pflip_pending`, `cleanup`, two buffers; in the kernel: the buffer shown, the flip queued, the events posted | modeset loop of `main`, `modeset_draw_dev`, `modeset_page_flip_event`, `modeset_draw`, `modeset_cleanup` | vertical blanks complete flips between any two steps; events of all outputs arrive on one descriptor, during the cleanup too; calls fail | no buffer is painted while shown; no flip outlives its device; complete frames, in order; frame after frame; the cleanup ends; CRTCs restored |
| outputs of the legacy programs, same file | the list of devices; per device CRTC, handles, framebuffers, mappings | `modeset_prepare`, `modeset_setup_dev`, `modeset_find_crtc`, `modeset_create_fb`, `modeset_destroy_fb` | four calls per buffer fail independently; connectors compete for CRTCs | no CRTC shared or unusable; no leak; the search gives up only when it must |
| atomic animation, `modeset-atomic.c` | as above, in `output_list` | `modeset_perform_modeset`, `modeset_draw_out`, `modeset_page_flip_event`, `modeset_draw`, `modeset_cleanup` | the modeset itself posts events; events name a CRTC, not a device; commits fail | as above |
| outputs of the atomic program | also the plane, the property blob, the properties of three objects | `modeset_output_create` and what it calls | fourteen steps that can fail, error labels in three functions | also: a plane of its own that works with the CRTC |
| I/O queue, `io_queue.c` | iocbs in flight, completions on the ring, `done` | `io_submit`, `io_getevents`, resubmission | completions in any order and number; results of `io_submit` ignored | no iocb used twice; depth kept; count reached; ends |
| single-buffer and double-buffered programs, `modeset.c`, `modeset13.c`, `modeset13_cairo.c`, `modeset_list_mode.c`, `modeset-double-buffered.c` | the list of devices, saved CRTCs, `front_buf`; in the kernel: routes and framebuffers | `main`, `modeset_prepare` and what it calls, the drawing, `modeset_cleanup` | setting one output takes CRTCs away from others; a NULL result is kept and used at the end; unsigned arithmetic on the height | the display left as found; no leak; the buffer shown is not painted |
| SMP boot, `smp-imps.c` | CPU and APIC maps, the count, the reset vector, the flag in the boot code | `imps_probe`, `imps_force`, the table walk, `add_processor`, `boot_cpu`, `send_ipi` | interrupts lost, processors dead or late; the flag is shared by all attempts | one number per running processor; maps inverse; it ends |
| kernel modules `helloworld.c`, `k_looper.c`, `mydemo.c`, `8139.c`, `main_mod.c` | what the kernel can call, references, what a probe holds | init, exit, open, release, works, probe, remove | files and works in use while a module is unloaded; half-done probes | no freed code runs; everything undone |
| GLib sources, threads, shared memory, sockets | a counter, a segment, a connection | | interleavings | counts, one owner |
| ELF readers, `hexdump.c` | none | decode and print | boundaries | layout |
| single-page demos, X11 demos, Lua, desktop configuration, emacs.d | none worth a model | | | |

The programs do not call each other, but for the netlink client, whose message
is handled in the kernel module. Within a drm-howto program, preparation hands a
list of outputs to the animation: `VsyncPrepare` and `AtomicPrepare` end where
`VsyncFlip` and `AtomicFlip` begin (a list of devices, each with a CRTC of its
own and two cleared buffers). All use the same model of the search for a CRTC,
`CrtcSearch`; the two animations share the kernel's CRTC, `DrmCrtc`, and the
five other programs the kernel's routes, `KmsRoutes`. `PROJECT.json` lists every
component, and every hazard with its line.

## Modules

| Module | Models | Correspondence |
|---|---|---|
| `DrmCrtc` | the kernel's CRTC, external to the repository: what the programs rely on | `scanout`, `flip`, `events`; `SetCrtc`, `PageFlip`, `Vblank` |
| `FrameQueue` | abstract: what a double-buffered output promises to the person watching | per output the frame visible and the frame queued; `Show`, `Queue`, `Latch`, `Hide` |
| `VsyncFlip` | `modeset-vsync.c` from the modeset loop to the end | fields of `struct modeset_dev` have their names; `phase` is the place in `main`; one action per loop step, callback and part of `modeset_cleanup` |
| `CrtcSearch` | `modeset_find_crtc`, a pure operator | used by all programs of drm-howto |
| `VsyncPrepare` | `modeset_prepare` and what it calls, `modeset-vsync.c`, call by call | `step` is the next call; `held` what a device owns |
| `AtomicFlip` | `modeset-atomic.c` from `modeset_perform_modeset` to the end | as `VsyncFlip` |
| `AtomicPrepare` | `modeset_open` and `modeset_prepare` of `modeset-atomic.c` and what they call, call by call | as `VsyncPrepare`, with `crtc_index` and `plane`; `buf` is the buffer being made; each error label has a definition of its name (`OutPlane` and so on), and what `modeset_output_destroy` gives back is `Resource`: the property blob, the properties of three objects, and of each buffer the handle, the framebuffer and the mapping |
| `NextColor` | `next_color`, a pure operator | `Smooth` says what it is meant to do |
| `KmsRoutes` | what `drmModeSetCrtc` and `drmModeRmFB` do to all connectors and CRTCs, external | `route`, by connector, and `shows`, by CRTC |
| `Modeset` | `modeset.c`, entirely, and the actions the four variants share | fields of `struct modeset_dev`; `phase` is the place in `main` |
| `Modeset13`, `Modeset13Cairo`, `ModesetListMode`, `ModesetDouble` | the variants: what differs from `Modeset`, and a name per function that is the same text | |
| `LegacyPrograms` | the five programs as alternatives | `program` says which one runs |
| `SmpBoot` | `smp-imps.c` and the processors it starts | globals have their names; `phase` is the place of the bootstrap processor, `cpu` what each other one does |
| `LoadedModule` | what the kernel does for a module: load, references, callbacks, unload; external | `hooks` is what can be called, `calls` what is running |
| `KLooper`, `MyDemo`, `Rtl8139`, `NetlinkModule` | the kernel modules (`KLooper`: `helloworld.c` and `k_looper.c`; `NetlinkModule`: `main_mod.c` and its client `main.c`) | one action per init step, file operation, work, probe step |
| `KernelModules` | the five modules as alternatives | `program` |
| `AioQueue` | `io_queue.c` from the first `io_submit` to the end | each iocb is in the kernel, on the ring, in `events[]`, or lost |
| `MC*` | instances for TLC | constants of the runs |
| `*_proofs` | the theorems about the module so named, and their lemmas | |

### What is abstracted

* **Pixels and colours.** A frame is a number, modulo `FrameMod`; a buffer holds
  a frame or is `Torn` while it is being filled. The two steps `BeginDraw` and
  `FinishDraw` stand for `modeset_draw_dev`, so that a vertical blank can happen
  in the middle of the painting. The programs without page flips are not
  modelled to that detail: drawing there is a round.
* **Lists.** `modeset_list` and `output_list` are sets: their order is that of
  the connectors, which is arbitrary, so loops over them take any order.
  `Modeset` keeps the order, because there the result depends on it: the list is
  filled at its head, and loops go through the connectors downwards.
* **Time.** `expired` becomes true at any moment of `modeset_draw`, after which
  the test of the loop, or the time-out of `select`, ends it. `SelectStop`
  stands for a key press and for `select` failing.
* **Events.** One read takes all events posted so far, and their callbacks run
  one after the other in any order (one buffer of `drmHandleEvent` has room for
  the events of 32 outputs).
* **Freed memory.** A page-flip event with the pointer of a freed device is
  modelled with the outcome that its fields still read as they were; that such an
  event exists is what `NoStaleEvent` excludes.
* **CRTCs and planes** are their indices. `drmModeGetCrtc` is taken to succeed in
  `VsyncFlip`; `Modeset` has the crash that follows if it does not.
* **The card.** `conns` (and `planes`) are chosen in `Init` among all cards of
  the run's size: for each connector the CRTC it is bound to and the CRTCs each
  of its encoders works with. A connector bound to a CRTC has an encoder that
  works with it.
* **libaio.** `io_getevents` returns any non-empty set of completions, and its
  negative error is -1. `Depth` is at most `MAX_DEPTH`.
* **Heights** of modes are in hundreds of lines, and the word that
  `modeset_draw2` subtracts in has 1000 values: what matters is whether the
  subtraction wraps. The mode of index 1 stands for the index `modeset13.c` takes
  from its command line; if the connector has fewer modes, height and success of
  later calls are arbitrary. The width, from which the same margins are
  subtracted (`modeset13.c:695`), is not modelled besides: it wraps in the same
  way and with the same consequence.
* **smp-imps.c.** Delays are counted (`Polls` for the 100 tests of `boot_cpu`);
  addresses and checksums are outcomes; of a table only the processor entries
  are kept. An old processor, out of reset, follows the reset vector; a new one
  waits for a startup interrupt.
* **Kernel modules.** Contents of messages, counters and the arguments of
  `read` and `write` are left out; so `k_looper_write`, which copies a string of
  any length into a buffer of fixed size (`k_looper.c:45`), is taken to return.
  Whether `request_region` grants the I/O ports it is asked for is left open: the
  8139's region 1 is memory, and its address within the I/O-port space only on
  some architectures. `pci_release_regions` gives back memory ("memory"), which
  the driver never took. `setup_pmc_cpu`, which `k_looper.c` calls, is
  declared nowhere in the repository and is taken to return. An `oops` is the
  end of a run.

### Failing calls

`VsyncFlip` takes the set of calls that may fail, at any time, as a constant
`Faults`. `AtomicFlip` has it as a variable, any subset of `Faults` that stays
what it is, so that one run covers every combination and properties can be
conditional on it; likewise `calls_fail` in `VsyncPrepare` and `Modeset`.
`AtomicPrepare` has the constant `CallsFail`; `AioQueue` counts failed calls and
bounds them by `MaxErrors`. In `SmpBoot` any interrupt may be lost and any
processor may never answer; in `KernelModules` any call of init and probe may
fail. A failing call does what the code does then: nothing, a `continue`, a
`goto`, a `break`, a crash.

## Runs

Every cfg has `CHECK_DEADLOCK FALSE`: the programs end (`AioQueue` also waits
for ever once every submission has failed; a kernel module that is unloaded is
not loaded again).

| Run | Instance | Properties | Shows |
|---|---|---|---|
| `VsyncFlipRun` | 2 outputs; `drmModeSetCrtc` and `drmModePageFlip` fail | `TypeOK`, `NoTearing`, `FlipTracked`, `NoStaleEvent`, `ImplementsFrameQueue`, `KeepsDrawing`, `Terminates` | a back buffer is one: neither shown nor about to be; `pflip_pending` is exactly the number of flips in flight; nothing outlives its device; the screen is a frame queue; frames keep coming; when the time is over, the loop and the cleanup end |
| `AtomicFlipRun` | 2 outputs, every set of faults, 19 592 states | `TypeOK`, `FlipTracked`, `ShowsCompleteFrames`, `DestroyedQuiet`, `StopsTearing`, `KeepsDrawing`, `Terminates` | one event in flight per output at most; only complete frames come on the screen; no output destroyed with a flip queued; tearing ends with the first flip; frames keep coming, and the loop and the cleanup end, though every commit failed |
| `AtomicFlipTears` | 2 outputs, no fault | `NoTearing`, violated | see Findings |
| `VsyncPrepareFaults` | all cards with 3 connectors, 2 CRTCs, 1 or 2 encoders each, with and without failing calls; 1.8 million states | `TypeOK`, `CrtcsDistinct`, `CrtcsFit`, `NothingLeaks`, `SearchComplete` | no CRTC shared, none unusable, nothing leaked; a connector is given up only if every CRTC it could use is taken |
| `AtomicPrepareFaults` | 3 connectors, 2 CRTCs, 2 or 3 planes (on one card a primary plane works with both CRTCs); any call fails; 1.2 million states | `TypeOK`, `NothingLeaks`, `FitUnlessBound`, `DistinctUnlessBound` | each of the fourteen steps that can fail leaves nothing behind; planes are right if no connector was bound at the start, and none is shared if also no primary plane works with both CRTCs |
| `AtomicPrepareBound` | 2 connectors, no call fails | `PlanesFit`, violated | see Findings |
| `AioQueueFaults` | depth 3, count 4, up to 3 failed calls; 703 states | `TypeOK`, `OneUse`, `DepthKept`, `CountReached`, `Terminates` | no iocb in use twice; the depth is kept; the count is reached; the program ends |
| `LegacyFaults` | each of the 5 programs, all cards with 2 connectors and 2 CRTCs, with and without failing calls; 662 220 states | `TypeOK`, `NothingLeaks`, `LeavesAsFound`, `BackBufferHidden` | nothing leaked; the display is left as found unless an output took another's CRTC; the buffer shown is not painted, though an exchange failed |
| `LegacyRestore` | the same | `CrtcsRestored`, violated | see Findings |
| `SmpBootLate` | 3 processors, every table of them, 2 polls; 73 766 states | `TypeOK`, `CountsStarts`, `MapsInverse`, `VectorKept`, `Terminates` | numbers stand for running processors; the maps are each other's inverse; the reset vector outlasts the wait; `imps_probe` returns |
| `SmpBootDefault` | the same | `NumCpusStarted`, violated | see Findings |
| `KernelModules` | each of the 5 modules, 2 files or sockets; 1 668 states | `TypeOK`, `CodeResident`, `NothingLeft` | no freed code runs, and nothing can call it, but what the exit function forgets; a failed probe, and a removal, give the device, its registers and its network device back, the exceptions named in `NothingLeft` |

**Bounds.** Outputs interact only through the event descriptor and the loops
over the list, and every property speaks of one output, or of one output while
others go on; two are enough for one to be closed while the other flips.
`FrameMod` 3 (`VsyncFlip`) keeps a frame, its predecessor and its successor
apart; `AtomicFlip` has no property about their order, and 2 is enough for
consecutive frames to differ. Two CRTCs and three connectors make
connectors compete, find their CRTC taken, and be given up; two encoders are
needed for a search that goes on after the first. With depth 3, one
`io_getevents` can return fewer, as many or more completions than are missing
to the count 4, and two rounds are needed. Two connectors and two CRTCs are enough
for one output to take the other's CRTC; two rounds for a failed exchange to be
followed by a painting. Of three processors, one boots, one is late and one is
started while the late one sets its flag; with two polls, an answer may come
before the first, before the last, and too late. Two files make one close while
the other is being opened.

The colours are not part of any run's state: `MCLegacyPrograms` evaluates
`Smooth` for all of a byte and the steps the programs use, and `ColorsAreSmooth`
proves it for all steps.

**Fairness.** `FairSpec` assumes that the program takes a step if it can (it is
single-threaded and nobody stops it) and that a CRTC with a flip queued has its
vertical blank, 60 times a second; for `AioQueue`, that the device completes
every I/O; for `SmpBoot`, only that the bootstrap processor goes on.
Nothing is assumed of the five-second clock: `KeepsDrawing` must hold
because events arrive, not because time is up, and `Terminates` starts when it is.

**Refinement.** `ImplementsFrameQueue` maps what each CRTC scans out, and the
flip it has queued, to the frames they contain. That `FrameQueue` allows only the
successor of the visible frame to be queued, and has no torn frame, is what
double buffering is for.

## Findings

1. `modeset-atomic.c:1018`: the first modeset shows `bufs[1]` but leaves
   `front_buf` 0; the first `modeset_draw_out` paints the buffer on the screen
   (`AtomicFlipTears`). `StopsTearing` shows that it is the first only.
2. `modeset-atomic.c:286`: the early return of `modeset_find_crtc` does not
   save `crtc_index`; the plane is then one of the first CRTC
   (`AtomicPrepareBound`). Every desktop where the connector is already bound
   to a CRTC other than the first is such a case.
3. `modeset.c:567`: `main` saves and sets one CRTC after the other. If setting
   the first output turns the CRTC of the second off, what is saved for the
   second is "off", and the CRTC that was on at the start is left off at the end
   (`LegacyRestore`). `LeavesAsFound` shows that this is the only way, if no call
   fails: it needs an output on a CRTC that another connector was on.
4. `smp-imps.c:455`: a default configuration counts its second processor before
   it is started and again when it has started (`SmpBootDefault`).
   `CountsStarts` shows that the count is right in all other cases.
Not counted as findings, because what follows is undefined or the code says
nothing against it: `modeset-vsync.c:715` frees a device with its flip
outstanding if `drmHandleEvent` fails during the wait (`NoStaleEvent` is proved
under the assumption that it does not); unchecked results crash the program at
`modeset.c:684`, `modeset-atomic.c:394` and `modeset13_cairo.c:733`, and the
kernel module at `main_mod.c:48` and in `mydemo.c`; `k_looper.c:143` leaves its
notifier behind and `mydemo.c:284` everything; an output whose flip was refused
stands still; two outputs may get one primary plane that works with both CRTCs.
The models contain all of these as what they are, and the properties name them
(`WellUsed`, `Forgotten`, `OwnPrimary`) instead of covering them.

One more disagreement has no run of its own, and is an exception that `NothingLeft`
names: `8139.c:158` says "take ownership of region", but `request_region` takes
I/O ports, by the address of a region that line 153 has just found to be memory,
and its result is ignored; `pci_release_regions` (228, and 258 under the comment
"Release region") gives back what the regions are. These ports, if they are
granted, stay reserved after a failed probe and after the module is gone.

## Proofs

TLAPS checks these for every value of the constants.

* **`VsyncFlip_proofs`** (any outputs, `FrameMod`, `Faults`): `TypeCorrect`,
  `NeverTears`, `FlipsTracked`. `NoTearing` is not inductive: it needs to know that
  an output being painted has no flip pending (`PaintingAlone`), that then
  nothing is in flight (`FlipTracked`), and that `front_buf` is what is shown,
  or queued if a flip is (`FrontBufferShown`). The painting may also be the first
  frame of an output not yet drawn (`QuietBeforeFirstDraw`), and a read may
  overwrite `inbox` only when it is empty (`SelectsIdle`). `IInv` is their
  conjunction; `IInvStep` has one step per action. If moreover `"Read"` is not in
  `Faults`: `NoDanglingEvent` from `Owned`, which says that only an allocated
  device has a flip pending; and
  `ImplementsQueue`, `Spec => FrameQueue!Spec`. The refinement needs
  `FramesInOrder`: the front buffer holds a complete frame, the one being
  painted is its successor, a queued one succeeds the one shown. `StepRefines`
  shows each action to be one of `Show`, `Queue`, `Latch`, `Hide`, or to leave
  what is seen unchanged.
* **`AtomicFlip_proofs`** (any outputs, `FrameMod`, `Faults`): `TypeCorrect`,
  `FlipsTracked`, `DestroyedIsQuiet`, `CompleteFramesShown`, `TearingStops`. The
  invariant differs from that of `VsyncFlip` because the modeset itself posts
  events, which `pflip_pending` does not announce: `FlipTracked` allows one on
  the list with `front_buf` 0. That no output ever has two on their way
  (`OneInFlight`) must hold of destroyed outputs too, or their second event would
  not fit in what a read returns. `BeforeModeset` describes the outputs before
  the blocking commit. `FlipFlagged` says that a flip queued, unlike an event of
  the modeset, is always announced, and so waited for (`DestroyedQuiet`).
  `QueuedComplete` is what `ShowsCompleteFrames` needs: a queued buffer is not
  painted until it is shown. The temporal `StopsTearing` becomes an invariant
  and a step: when the first flip has set `front_buf` to 1, what it names is shown
  or queued (`FlipsSetRight`), and every step keeps that so, whatever `front_buf`
  is from then on.
* **`VsyncPrepare_proofs`** (any card): `TypeCorrect`, `CrtcsNeverShared`,
  `CrtcsAlwaysFit`, `NothingEverLeaks`, and `SearchIsComplete`, which says
  something of the executions in which no call fails. The invariant adds what the
  device under construction holds at each step (`HalfMade`) and that its CRTC is
  still free (`CrtcChosen`).
  What the search returns is a lemma about `FindCrtc`.
* **`AtomicPrepare_proofs`** (any card): `TypeCorrect`, `NothingEverLeaks`,
  `CrtcsNeverShared` (which no run checks), `PlanesFitUnlessBound` and
  `PlanesDistinctUnlessBound`, whose property supposes that a primary plane works
  with one CRTC only (`OwnPrimary`). The invariant is that of `VsyncPrepare`:
  `HeldSoFar` lists what the output holds at each call, from the blob over the
  properties of the three objects to the mapping of the second buffer, and each
  error label is shown to give back just that (`GiveUpOk`, `FailFbOk`).
  `CrtcChosen` adds that `crtc_index` names the CRTC found, if no connector was
  bound at the start: the very fact that finding 2 refutes in the other case.
  `PlaneChosen` then says that the planes fit. Two outputs with one plane would
  have one CRTC.
* **`LegacyPrograms_proofs`** (any card, number of rounds and of modes):
  `TypeCorrect`, `NeverLeaks`, `BackBufferStaysHidden`, `DisplayRestored`, for
  all five programs; and `ColorsAreSmooth`, for every colour and every step that
  fits in a byte. `FrontShown` says that a buffer on a screen is the front
  buffer of its device, on its own CRTC; an exchange that fails leaves both alone.
  `LeavesAsFound` needs `Restorable`, for the executions in which no call fails
  and no output takes another's CRTC (hypotheses of `LeavesAsFound` itself):
  an output has the CRTC its connector was on, if it was on any (`BoundKept`);
  each connector is where it was or shows its own buffer on its own CRTC
  (`RoutesKept`), and each CRTC shows what it did or the buffer of such a
  connector (`ShowsKept`), at every point of the modesets and of the cleanup;
  what was saved is what the CRTC showed at first (`SavedFirst`). That nothing is
  taken cannot be dropped: `LegacyRestore` is the counterexample.
* **`KernelModules_proofs`** (any finite number of files): `TypeCorrect`,
  `ReferencesCounted`, `CodeStaysResident`, `NothingIsLeft`. References are
  counted by two sets of files: those not closed, which the kernel counts, and
  those that `k_looper_open` has taken its own reference for (`RefsCounted`, by
  cardinality). A module is unloaded without references, hence without open
  files (`Unused`), and none is opened later. `ProbeHolds` lists what the card's
  driver may hold at each point of the probe, the I/O ports at any time; `NetdevRegistered` says that its
  operations run only for a registered card.
* **`AioQueue_proofs`** (any depth, count and bound): `TypeCorrect`,
  `NeverUsedTwice`, `CountIsReached`, `DepthIsKept`. `CountReached` needs that
  a round starts below the count (`RoundStartsBelow`) and that a round adds at
  most the depth (`RoundSize`, from the cardinality of a subset of an interval).
* **`SmpBoot_proofs`** (any number of processors, tables and polls):
  `TypeCorrect`, `StartsCounted`, `MapsStayInverse`, `VectorIsKept`.
  `CountsStarts` is not inductive: `Counted` adds `Pending`, the processor that has set the flag and is not yet counted.
  `Numbered` says that numbers below `imps_num_cpus` are the ones given,
  `Attempt` what holds during the wait, `Untouched` that a processor whose entry
  has not been read has not moved.

The assumptions are those of the modules (`VsyncAssumption`, `AtomicAssumption`,
`PrepareAssumption`, `AtomicPrepareAssumption`, `ModesetAssumption`,
`AioAssumption`, `SmpAssumption`, `FileAssumption`), which TLC evaluates in the
runs. The three proof modules of the preparations each repeat three small lemmas
about `Min`, because their state modules share names and cannot be extended
together.

Every invariant and every action property of the runs that pass is a theorem.

**Only model-checked:** the liveness properties `KeepsDrawing` and `Terminates`,
which rest on fairness, and that the prover does not handle; and the
counterexamples of the four runs under Findings. **Only proved:** what
`VsyncFlip` does when `drmHandleEvent` fails (`"Read"` in `Faults`), which no run instantiates.

## Not modelled

* Option parsing, opening of devices where its only outcome is the end of the
  program, and text that is printed.
* `8139.c`: the file's text is damaged in five places, `netdev_open`,
  `netdev_stop`, `netdev_start_xmit` and `hardware_start` among them, so that
  what they do to the rings they share with `interrupt_method` cannot be read.
  Loading, probing, removing and unloading are modelled.
* `modules/kprobe/helloworld.c` does not compile.
* Code never reached: `modeset_draw` of `modeset13.c` and `modeset13_cairo.c`,
  and what follows the early returns of `modeset_list_mode.c`.
* Sequential readers and printers (ELF, SCSI logs, X11), vendored code, and
  configuration: `PROJECT.json` has the list and the reasons.

## Plan

Done: all modules above, and a proof module for each component with a run.

Next, in this order:

1. `FrameQueue` for `AtomicFlip`: from the first flip on, what an output shows
   is a frame queue as well; a refinement with the frames before it hidden.
2. `SearchComplete` for `AtomicPrepare` and the legacy programs, as for
   `VsyncPrepare`: that a connector is given up only if it must be.
3. Refinement between the variants and `Modeset`, as far as their texts agree.
4. A model of `source_fd.c` (GLib): lines buffered in the channel are not seen by
   `poll`; of `mutex.c`, `spin.c` and `tid.c`; of two runs of `shm_test.c`.
