# proxtop in TLA+

proxtop shows, in the manner of `top`, the CPU, memory, disk and network use of
the virtual machines of a Proxmox VE or libvirt host. This directory models the
parts of it whose correctness depends on the order of events, checks them with
TLC and proves their central properties with TLAPS. Paths below are relative to
the repository; every definition that models code is listed with its lines in
`PROJECT.json` ("map"), what can go wrong in it under "hazards".

## 1. The system

### Components, their state and operations

| Component | State | Operations | What is hard |
| --- | --- | --- | --- |
| Runner threads (`runners/*.go`) | channel `initialLookupDone` (one slot), `CollectionPaused`, `ForceRefresh`, loop counters, WaitGroup | `InitializeLookup`, `InitializeCollect`, `InitializePrinter` | three goroutines, a channel closed with a token in it, pausing, termination |
| Discovery (`runners/lookup.go`, `connector/`) | `ProxmoxVMStore`, `LibvirtDomains`, the process list | `lookupProxmox`, `lookupLibvirt`, `handleDomain`, `ListVMs` | VMs starting, stopping, restarting in the middle of a lookup; one VM failing |
| Domain cache and series (`models/`) | `Domains` (a map and a mutex), a `Measurable` per domain and for the host | `Store`, `Load`, `Delete`, `Range`, `AddMetricMeasurement`, `DelMetricMeasurement`, getters | iteration under the mutex while the map is updated, two values per metric |
| CPU collector (`collectors/cpucollector`) | the lists of vCPU and other threads of a VM, two series per thread | `Lookup`, `Collect`, `Print` | threads that end, and ids used again, between any two readings; rounds overlap |
| Network and disk collectors (`collectors/netcollector`, `diskcollector`) | a list of interfaces or disks, a series per device, the totals | `Lookup`, `Collect`, `Print` | devices plugged and unplugged; a total that must be the sum of its parts |
| Memory, io, psi and host collectors | series of readings | `Lookup`, `Collect`, `Print` | nearly nothing beyond the order of rounds |
| Print cycle (`runners/printer.go`) | one `Printable` | `Print` | passes over a cache that changes between them |
| Ncurses printer (`printers/ncurses.go`) | view, sort column, overlays and their drawn flags, cursor, hidden fields | `Open`, `handleInput`, `Screen`, `Close` | sequences of keys, stale lists, column filters that must agree |
| Text and json printers | output file or socket | `Open`, `Screen`, `Close` | nearly none |
| QMP client (`connector/proxmox.go`) | two caches with a time limit | `queryQMP`, `getCachedVMStatus`, `Get...Stats` | events between replies, answers from different moments |
| Profiler (`profiler/`, `cmd/proxprofiler`) | a metrics dump | `InitializeProfiler`, `pickup` | a channel nobody makes, a WaitGroup that is started at 1 |
| Start and shutdown (`cmd/proxtop`) | the current connector | `main`, `shutdown` | a signal against the end of `main` |
| Readers of `/proc` and `/sys` (`util/`) | none | parsers | pure input |

### Interactions

`main` chooses a connector, starts the three runners and waits for them. The
lookup thread fills the domain cache, lets all collectors look up (and waits for
them), and sends a token. For each token the collect thread starts one goroutine
per collector and waits for none of them: collectors write measurements into the
domains' `Measurable`s while they hold the mutex of the cache, and into the host's
without it. The printer thread reads the cache once per collector and hands the
merged rows to the printer; the ncurses printer handles one key per call, and
sets the two flags through which it pauses discovery and asks for an extra print.

## 2. Modules

| Module | Models | Kind |
| --- | --- | --- |
| `Rounds` | what lookup and collect promise together | abstract specification |
| `Runners` | the three runner threads and `main` | component; implements `Rounds` |
| `Measurable` | `AddMetricMeasurement` | operators |
| `DomainCache` | the operations of the domain cache, each under the mutex | operators on the variable `domains` |
| `ProxmoxLookup` | `lookupProxmox`, `ListVMs`, collect rounds, and the host | component; uses `DomainCache`, `Measurable` |
| `LibvirtLookup` | `lookupLibvirt`, `handleDomain`, the process search, and the host | component; uses `DomainCache` |
| `CollectRounds` | overlapping rounds of one collector, with the mutex and each reading | component; uses `Measurable` |
| `CpuThreads` | the thread lists and series of one VM | component; uses `Measurable` |
| `Devices` | interfaces of a VM, block devices of the host, and their totals | component; uses `Measurable` |
| `QmpClient` | what a lookup asks of one VM through QMP and `qm status`, and both caches | component |
| `PrintCycle` | `Print` against lookups and collects | component; uses `DomainCache` |
| `NcursesUI` | keys, overlays, columns and what is drawn | component |
| `Profiler` | `proxprofiler`: lookup, collect and profiler thread | component |
| `MC...` | constants and symmetry for TLC; `MCSideBySide` runs `CollectRounds`, `PrintCycle` and `Devices` beside each other | |
| `...Proofs` | | theorems about the module of that name; `PrintingProofs` is about `NcursesUI` and `PrintCycle`, `SeriesProofs` about `CpuThreads` and `Devices` |

How the modules correspond to the code:

* **Runners.** `lpc`, `cpc` and `ppc` are the places where the loops of the three
  threads stand; `n` and `m` are their counters (`n` starts at -1). `tokens` and
  `closed` are the channel. `LookupSkip`/`LookupWake` is the paused iteration with
  `n--` against `n++`. `Screen` is one `Print` as far as the threads are concerned:
  one key, then `CollectionPaused` is set. `looked`, `collected` and `mark` are
  history variables. Time is left out: a sleep ends whenever its thread steps, so
  every timing is covered. `AwaitTimesOut` says whether the printer's wait for a
  first domain may give up, as it does after five seconds.
* **DomainCache, ProxmoxLookup, LibvirtLookup.** A domain is its pid and its series;
  a measurement is represented by the process it was read from, which is all the
  properties need. The host changes between any two steps. On Proxmox the identity
  of a VM depends on whether its configuration can be read (`UuidForms`). On libvirt
  `NamedIn` says which guests' command lines contain a guest's name, which is what
  the substring search sees of names; pids are numbered in the order in which
  `ReadDir` lists them.
* **CollectRounds.** The value of a counter is the number of clock readings so far, so
  a wrong order of measurements is visible. `holder` is the mutex of `Domains`. The
  order of reading, stamping and adding is that of the CPU collector.
* **CpuThreads.** `LookupCores` and `LookupTasks` are the two halves of `cpuLookup`
  (libvirt) and of `cpuLookupProxmox`: the list of vCPUs is replaced first, then the
  task directory is read, and between the two the host changes. `old` is
  `oldThreadIds`. A reading is the number of the thread it is of, so that a rate
  computed from two threads can be told from a rate of one. A lookup and a collect
  hold the mutex of `Domains` throughout.
* **Devices.** `collector` chooses between a VM's interfaces (`domainLookup`,
  `domainCollect`, one step per interface, `sum` is `statsSum`) and the host's block
  devices (`diskHostLookup`, whose two readings of `/proc/diskstats` are two steps).
  Counters are modulo `Word` and so are differences, as in Go's `uint64`. `SumOf` adds up
  by counting pairs, so that sums can be reasoned about without recursion;
  `SumAssumption` (in `MCDevices`) compares it with the usual sum. `of`, `at`,
  `ios`, `calm` and `plain` are history. `Longer` and `Within` say which names are prefixes
  and suffixes of others, which is all the code sees of the relations between devices.
  Those relations are the host's: `Partitions`, whose names are prefixes too, and `Stacked`
  for LVM, multipath, md and loop devices. The kernel counts an I/O on every device it
  passes (`Routes`), on a partition and its disk, on a volume and what is below it. It
  is `Plain` when that is a disk or a partition alone and no other device is named after it.
* **QmpClient.** `pc` is the line of `queryQMP` that waits, `wire` what the socket holds,
  `asked` the `now` that both cached functions take before they ask, and `call` which
  of `GetExtendedMemoryStats`, `GetDiskStats` and `GetPerDiskStats` is asking. A line is
  its kind and the moment at which QEMU wrote it; a counter's value is that moment. QEMU
  answers in order, at any time or never, sends an event whenever the client has
  negotiated, answers `query-balloon` with an error when there is no balloon; the
  connection may break at any time. QEMU and `qm` are external.
* **PrintCycle.** A row is the sequence of the groups of values appended to it.
  `Background` is `CacheStep`, any operation a lookup or collect round makes on the cache;
  that the two discovery modules make no others is a theorem (section 4).
* **NcursesUI.** A call of `Screen` is one step, because the printer thread makes it
  alone. A value is represented by the field it is a value of, so a row is right
  when it equals its header. Columns are chosen by their indices (`Members`, `Pick`).
  `FieldsAssumption` is what the collectors' `Print` functions guarantee of the tables: UUID and
  name are in no group, and `DiskPrintPerDevice` gives the disk fields from the fourth on
  (`collectors/diskcollector/collector.go:87`, `worker.go:329`). `terminal` is what the user sees, which differs from
  the state when an overlay is not drawn again. `ForceRefresh` is left to `Runners`: it
  asks for one more call, and `Screen` may be called at any time here.
* **Profiler.** The three threads of `proxprofiler` with the channel as that program
  leaves it; a profiler of the library is whether a domain has one and whether it ever
  got a rate. Discovery and collection are one step each, being the business of the
  other modules.

Each component has faulty variants of some definitions, marked as such and placed
before the definition they vary. They are the plausible mistakes the properties
catch ("mutants" in `PROJECT.json`) and are used nowhere else.

### How the components are put together

`Runners` decides when rounds happen, and `Rounds` is all the other modules rely on: one
lookup at a time, collect rounds that may overlap each other and the next lookup.
`ProxmoxLookup` and `LibvirtLookup` compose discovery with `DomainCache`, and
`ProxmoxLookup` also with collect rounds through `Measurable`; `PrintCycle` composes the
printer with any mixture of cache operations, and what is proved there holds beside either
discovery module because every step of theirs is such an operation (`OnlyCacheSteps`). `CollectRounds`, `CpuThreads`, `Devices`
and `QmpClient` look into a round of one collector, where the mutex of `Domains` decides
what may interleave: the host, QEMU and other rounds between two passes, but no other
pass over the domains. Their product would add no interleaving that one of them lacks,
because a collector's series are its own.

## 3. Runs

Runs that find no error:

| Run | Question | Bounds |
| --- | --- | --- |
| `runners_keys` | Do the threads implement `Rounds`, losing no round, whatever a user does: pausing, refreshing, quitting, or nothing at all? Is a forced refresh served, and does the program end unless it is left paused? | `Runs = 3`: four rounds, one more than the three that may be under way; all kinds of keys |
| `proxmox_lookup` | Do both caches mirror the listing, without gaps and without losing measurements? Do rates appear for a VM that stays, and is one that left forgotten? | two VMs, two pids (so that a pid is used again by another VM), one unreadable configuration |
| `libvirt_lookup` | Has each cached guest its own handle and its own pid, through errors and restarts during the search, and does one that stays listed stay cached? | two guests, three pids, distinct names; safety is proved for any number |
| `cpu_threads` | Is every series that of a listed thread, does no thread count twice, and do wrong rates pass? | two ids and three threads, so that an id is used again by a thread of another kind while the other id stays; safety is proved for any number |
| `qmp_client` | Is no answer another command's or too old, do counters never fall, and does a lookup end whatever QEMU does? | time limits of 1 (QMP) and 2 (status), deadline after 2, four units of time: every cache expires in mid-lookup and every deadline passes; one unread line beyond which no event comes, so that one can be before each reply; safety is proved without the bounds |
| `side_by_side`, `CollectRounds` | Are the series in order when rounds overlap, and does a reader under the mutex see one round? | two rounds (two may hold readings at once), two domains with two metrics; safety is proved for any number |
| `side_by_side`, `PrintCycle` | Are the rows of VMs that stay complete, whatever the others do? | three VMs, two collectors, so that a row may lack its first, middle or last columns; safety is proved for any number |
| `side_by_side`, `Devices` | Is the total of a VM the sum of its interfaces, and does the host's total count each plain I/O once, whatever other devices there are? | two interfaces, one named like the end of the other; a partitioned disk with a loop device on a file in the partition; `Word = 2`: the smallest modulus, under which every I/O wraps a counter; safety is proved for any devices and any width |
| `ncurses` | Does the terminal show the settings? Does a toggle change what is highlighted? Does each value stand under its header, and is every VM listed? | a VM with two devices and one with none; two network and four disk fields, of which any are hidden, the last network field from the start as `Open` does; a list of two lines, so that it scrolls; sort columns 0 to 3, one past the last of the smallest table; the views all, network, disk and logical volumes and the CPU view at the start, here without fields. Left out: the keys for the interval, units and direction, which the table does not depend on but for a flag, and the other views, which filter alike. Safety is proved for any tables of fields, any VMs with any devices, and any sort bound from 3 on |

Runs that show where the code differs from what its comments or documents say:

| Run | What happens |
| --- | --- |
| `runners_hang` | an overlay opened by the last print pauses discovery for ever, so the program never ends |
| `runners_count` | `--runs=2` makes three collect rounds; `OneTooMany` proves one too many for every number |
| `disks_stacked` | a read on an LVM volume is added to the host's total twice, for the volume and for the disk below it |
| `ncurses_shifted` | hiding a leading network field puts per-interface values under wrong headers |
| `profiler` | `proxprofiler` never makes the channel between lookup and collect: after its first discovery it neither discovers nor collects, and no profile gets a rate |

`side_by_side` is one run of three models that share no state: a behaviour is one of one of
them (`part`), so no interleaving is added or lost. Deadlock is checked in every run. The
models that stop have an explicit last step: `Exited` in `Runners` and `NcursesUI`,
`RoundsOver` in `MCSideBySide` for the bounded rounds of `CollectRounds`.

### What the properties leave out

The models contain the following, and the properties are stated so that they hold with it:

* `--runs=N` makes `N + 1` collect rounds (`Rounds` and `EndsUnlessPaused` allow for it, `runners_count`
  compares it with the documentation; `NothingDropped` says that whatever was discovered
  is collected, and does not count).
* The first print may come before the first collect round; the printer waits for a
  domain, not for a round.
* A VM that restarts between two lookups keeps its series, so that its next rate is
  computed from the counters of two processes (`HistoryKept`, `RatesAppear` count
  measurements and do not say of which process).
* A VM discovered or forgotten during a print gets a row without its first or last
  columns (`RowsFit` and `SteadyRowsAligned` say how far that goes).
* A guest whose name is contained in another's command line may get the other's pid
  (`OwnPid` is about names where that does not happen, the assumption of `OwnProcess`).
* Overlapping rounds can add host measurements in the wrong order
  (`HostOrderedUnlessOverlap` says when they do not).
* A thread that ends between lookup and collect, or whose id is used again between two
  lookups, has a wrong rate for a while (`RatesSettle` says that it passes).
* When QMP fails, disk totals come from `qm status`, of which the parser stops at the first
  line that is not a disk's name: all counters are 0, and the first rate after that wraps
  (`CountersGrow` leaves the fall to 0 out).
* An interface whose name ends another's reads as zeros, since the line of the other matches
  and does not parse; total and part agree about that (`SumOfParts`).
* The host's disk rates count an I/O once only if it is plain (`TotalIsIO`). I/O on an LVM
  volume, a multipath, md or loop device is counted for that device and for those below it
  that are left (`disks_stacked`): on the ordinary host with LVM the host's line shows reads
  and writes twice. I/O on a partitioned disk outside its partitions is not counted, since only
  the partitions are left. And a device whose name begins another's is taken for its whole
  disk although it is not one: with `sdaa` present `sda` is dropped (if it has no partitions, all its
  I/O is), with `dm-10` `dm-1`, with `sda10` `sda1`.
* Loop and ram devices count in the host's total but are not among the devices listed.
* A field selector opened under the help overlay toggles a field of the view it was last
  drawn in (`HighlightToggled` leaves that case out).
* In the disk view a VM with devices may lose its rows to the sort column (`EveryVMListed`
  leaves that view out), and hidden leading fields shift device rows (`ncurses_shifted`).

Read in the code, in parts the models leave out: fields of the host panel are shown although
`Open` hides them; `currentOps`, a gauge, is differenced like a counter
(`diskcollector/host-worker.go:259`); a disk source that is part of another's path is left out of the host's list
(`diskcollector/collector.go:37`); the host's network totals are read for the interfaces of
`LibvirtDomains` and so are 0 on Proxmox; the kernel's `full` pressure lines are compared
with `Full` (`util/proc-pressure.go:23`).

### Fairness

* `Runners` assumes weak fairness of each of the three threads and of `main`: Go runs
  every goroutine that can run, sleeps end, and the user owes nothing (no key has to
  be pressed, but the printer's rounds go on without one).
* `ProxmoxLookup` and `LibvirtLookup` assume it of the lookup thread and, on Proxmox, of
  collect rounds. Nothing is assumed of the host; the properties about VMs that stay or
  leave are conditional on that, and on libvirt on the listing succeeding again and again.
* `CpuThreads` assumes strong fairness of the two steps that take the mutex of `Domains`,
  because each is disabled while the other holds it; Go's mutex hands itself to a goroutine
  that has waited for a millisecond, so none is passed over for ever. Threads of the host
  owe nothing, and `RatesSettle` is conditional on a thread that stays.
* `QmpClient` assumes that the collector's thread goes on when it can, that a dial
  succeeds or fails, that `qm status` ends and that time passes. QEMU owes nothing: a
  reply need never come, and it is the deadline of the connection that ends the wait.
* `Profiler` assumes Go's scheduling of the three goroutines; a VM owes nothing, and the
  property is about one that runs for good.
* `CollectRounds`, `Devices`, `PrintCycle` and `NcursesUI` have safety properties only.

## 4. Theorems

TLAPS checks these for all values of the constants that satisfy the named
assumptions of the modules.

* **`RunnersProofs`.** The inductive invariant is `IInv`. `Conserved` counts where each
  completed discovery round is: collected, held by the collector, in the channel, or
  about to be sent; that a round is never in two of these places is what makes
  `CollectLag` and `NothingDropped` true, and neither is inductive without it.
  `LoopCount` ties `n` to the number of rounds, through the skipped iterations.
  `Closing` says who closes the channel and when the collector ends. `WaitCount` is the
  WaitGroup. `PauseMark` adds to the pause bound that a round under way while paused
  began before the pause. From `IInv` follow `TypeOK`, `CollectLag`,
  `NothingDropped`, `PauseLatency` and `MainWaitsForAll`. `RefinesRounds` shows that
  initial states and steps of `Runners` are those of `Rounds`; its proof uses `IInv` for
  the bound on how far discovery is ahead and for the number of rounds at the end.
  `OneTooMany` is that number: one more than the option says, for every value of it.
* **`MeasurableProofs`.** What `AddMetricMeasurement` makes of a series, cited by the three
  modules below that add to one.
* **`ProxmoxLookupProofs`.** The invariant says what the caches hold at each stage of a
  lookup: during the update the domain cache is the listed VMs already handled
  together with the cached ones not yet deleted, the store is exactly the handled ones.
  `Mirror`, `InPlace` and `TypeCorrect` follow; `History` is an action property proved
  step by step, with the lemma on `AddMeasurement` for the collect step.
* **`LibvirtLookupProofs`.** `Accounted`: what is cached is handled or still to be handled or
  deleted, and never both. `Underway`: the guest being handled is off the list and has not
  been deleted. `Handles` is `HandlesCover`; `StaysCached` follows from the other two.
  `OwnProcess` assumes that no command line contains another guest's name, and strengthens
  the invariant with `Steadfast`: a guest that kept its process is in the list of processes,
  and the search does not pass it over.
* **`CollectRoundsProofs`.** `SeriesOrdered`: the round holding the mutex has a reading
  later than every measurement in the series it has still to add to, and no later
  than the clock. With that strengthening each addition keeps a series ordered.
  `Snapshot`: in the middle of a pass the series fall into those already measured and
  those not (`Unmeasured`); within each part all carry the same rounds, and the first part
  is ahead of the second by exactly the holder's round (`OneAhead`). `HostOrdered`: as long
  as no two rounds were under way at once, the only one that measures the host has read
  and stamped after everything that was added (`Late`).
* **`SeriesProofs`.** *Threads.* While a lookup is under way there are series of threads in
  no list, and each of them is remembered in `old` (`Remembered`); the second list then is
  that of the lookup before (`Covered`), which is why the two may overlap until it is
  replaced (`Disjoint`). From that follow `NothingInherited` and `CountedOnce`.
  *Devices.* The invariant is `DevicesInv`. In the middle of a pass the sum is that of the
  newest readings of the interfaces read so far (`SumInv`); the last total is the sum of one
  measurement of each interface it counted, which is the previous one if that interface has
  been read again since (`LastInv`); and when two totals count the same interfaces, the
  second is the sum of the previous measurements (`BothInv`). `SumOfParts` is then that the
  difference of two sums is the sum of the differences, modulo `Word`
  (`SumOfDifferences`). That lemma is about all finite sets; it is proved from a smallest
  counterexample, by well-foundedness of the strict subset relation, which needs no
  induction theorem with an operator parameter. For the host's disks, the counters that count lack
  a fixed number of all I/Os as long as no disk comes or goes and all I/O is plain
  (`DiskInv`), because plain I/O is on one device that counts and on at most its whole disk,
  which does not (`IOCounted`); so both totals lack the same, and `TotalIsIO` follows,
  whatever partitions and stacked devices there are besides. Interfaces and disks need not be finitely
  many; that those present and listed at any time are is part of `DevicesTypeOK`.
* **`QmpClientProofs`.** `Conversation` (with `Greeting` and `Negotiation`) says where the exchange
  with QEMU stands: no event comes before the reply to `qmp_capabilities`, so that
  this reply is the one line after the greeting and is never still unread when the
  answer to `query-balloon` is awaited. That is why the decoder, which takes any object for
  balloon statistics, gives nobody else's answer (`OwnAnswers`). `Lately` bounds the age of
  every line and cached answer from below by when it was asked for, because the caches are
  stamped with the time before the question; with `Answering` it gives `RecentAnswers`.
  `Counters` says that no counter was read later than any line that is still to be read
  from (`Floor`), and gives `GrowingCounters`.
* **`PrintingProofs`.** *Printing.* Whoever is still in `steady` is cached and has a row
  equal to the fields (`SteadyRows`), because a collector's pass appends to the fields and to
  the rows of all cached domains under one mutex. Any other row is the fields without some
  of them (`IsSubsequence`), which appending preserves (`NoValueTwice`).
  `FieldsMerged` says how far the fields are, and makes them all different.
  *The user interface.* `Inductive` says in which states one call of `Screen` leaves the next
  (`Overlays`): an overlay counts as drawn exactly when it is the top one, and a drawn selector's
  list is that of the view, so that the code may leave out drawing it again; and that the
  terminal is blank or shows what the settings ask for (`Shown`), with discovery paused exactly
  under an overlay and, in a table of VMs, the sort column within its header. None of the properties of
  what is seen is inductive without it: `TerminalCurrent` needs that the flags are right
  when a key leaves them alone, `EveryVMListed` that the table has a value to sort each row by.
  `HighlightToggled` also needs where the list is scrolled to (`HighlightShown`). The
  alignment properties come from what `Place` and `Pick` do to a table and to a row with the
  same indices. Assumed are `FieldsAssumption` and, of the bound `MaxSort`, that it is at
  least the initial sort column.
* **Composition.** `OnlyCacheSteps`, in both `ProxmoxLookupProofs` and `LibvirtLookupProofs`, says
  that whatever a step of discovery or of a collect round does to the cache is a
  `CacheStep`: it stores a VM of the host under a process id that was read (or, on libvirt,
  0 for none), keeping its series, deletes one that is cached, or adds to all series. This is
  all that `PrintCycle` assumes of its surroundings. It rests on the invariants of the two
  modules, since that a deleted VM is cached, and that a pid found by the search is one, is
  not said by the steps.

Every safety invariant and action property that a passing run checks is stated by a
theorem. Only model-checked: liveness (`EveryRoundCollected`, `RefreshServed`,
`EndsUnlessPaused`, `RatesAppear`, `VanishedForgotten`, `LookupEnds`, `RatesSettle` and the
fairness part of `ImplementsRounds`), since tlapm does not reason about fairness and
`ENABLED`; and what the runs that find a violation show, but for `runners_count` (`OneTooMany`). `Profiler` has no theorem.

## 5. Plan

Written, in the order of importance: the runner threads; discovery and the domain cache;
collect rounds; the print cycle; the user interface; the QMP client; the threads of a VM;
devices and totals; the profiler; proofs of the safety of all components but the profiler, and
of what the print cycle assumes of discovery. What would be worth adding, in this order:

1. The libvirt side of the disk and memory collectors, and the host's interfaces, as further
   instances of `Devices`.
2. Column widths and the order of rows as pure algorithms over bounded inputs.
3. `cmd/proxtop`: the choice of the connector and the signal handler against the end of `main`.
4. The safety part of `VanishedForgotten`, for a proof: with a history of which VMs were off when
   the listing began, none of them is cached when it has been applied.

## 6. Not modelled

* Parsing of kernel files, configuration and command-line flags; formatting, colours and
  column widths of the output; the order of rows.
* The text and json printers: one line or object per print, without state but the output.
* The libvirt connector, a wrapper of one connection; libvirt's disk and memory statistics.
* Disk sizes, the number of cores, estimated utilisation: values read once and stored as they are.
* `GetMemoryStats` and `GetVMStatus` of the Proxmox connector, which nothing calls.
* The io, psi and host collectors and the memory of the host: each has the shape that
  `CollectRounds` models, with readings that are stored unchanged.
* Data races as such: a flag or map read without a lock is read at any moment here,
  which covers the outcomes for a flag but not a torn map. Panics inside collectors.
* The signal handler, which ends in `os.Exit` at any moment and closes libraries that are
  outside the models.
* Terminals too small for the layout: `Lines` stands for the height of the selector's box
  less its frame and is taken to be positive; `printDomain` writes all rows without regard to
  the terminal's height, and that those below its last line are not seen is left out.
* The tables of `NcursesUI` assume the complete rows whose limits `PrintCycle` shows.
