# pssc: models, checks and proofs

`pssc` compiles the Portable Test and Stimulus language (PSS) to SystemVerilog,
C, C++ and Python.  Three kinds of its behaviour are hard to test and are
modelled here in TLA+, checked with TLC and partly proved with TLAPS:

* the concurrency of what it ships and emits: channel runtimes that tasks,
  threads and interrupt handlers share, pools that the threads of a generated
  `fork` claim resources from, and a DPI bridge on which C coroutines and
  SystemVerilog threads call each other;
* the state the compiler itself keeps between plugins and between runs: its
  registry of targets, and the build task that reuses the output of an earlier
  run while sources, packages and outputs change around it;
* the rewritings on which the meaning of a generated program rests: masked
  register writes, register reads moved out of expressions, and integer
  arithmetic at widths that the host language does not have.

Paths below are under `src/src/pssc/` unless they start with `src/docs` or
`src/tests`.

## 1. Inventory

| Part | State | Operations | Interacts by | Hard behaviour | What makes it correct |
|---|---|---|---|---|---|
| Channel runtimes: `share/py/pssc_rt_async.py`, `share/c/pssc_chan.h`, `share/cpp/pssc_chan.hpp`, `share/sv/pssc_reg_pkg.sv` | a slot and its flag; two events (Python) | `put get try_put try_get`, polled and yielding `get` (C) | tasks of one scheduler; an interrupt handler | wakeups, stale wakeups, cancellation, an interrupt between two accesses, WFI | a bounded FIFO; no task sleeps on what already holds |
| SystemVerilog scenario runtime: `share/sv/zsp_rt_pkg.sv` | per instance: `lock_held`, `share_count`, a semaphore; a mailbox per stream; `atomic_sem` per component | `lock unlock try_lock try_share unshare claim claim_shared`, `put get` | threads of a fork | a task that is granted a semaphore and sets the flag later; refused claims | exclusive owners; books that balance |
| sv-native activity lowering: `targets/sv/lower_activities.py`, `lower_resources.py` | the emitted statements | `_lower_parallel _lower_atomic _lower_traversal _lower_anon_traversal emit_resource_acquire/release` | emits calls of the runtime | lock order, what becomes a thread of the fork | forks join; claims and atomic blocks exclude |
| sv-pure activity lowering: `targets/sv/lower_pure.py` | the emitted statements, claim variables, channels | `_traversal_stmts _lower_activity` | same | claims that do not wait, streams that do | as above, without waiting |
| DPI bridge: `share/c/zsp_bridge.c`, bridge part of `targets/sw_tgt.py` | pending and active requests, coroutines, the trampoline's counter and event | `post_request next_request complete done run`, `pssc_run_action` | C calls from SV, events, `join_none` threads | completion order, when a forked thread starts, lost events | every request answered once; the action returns |
| Register read-modify-write: `reg_rmw.py` | none (rewrites a body) | `reduce`, `expand_all` | runs at translation; `--reg-rmw=expand` | order and number of bus accesses, masks and fields | one read and one write, of the named bits only |
| Effect sequencing: `targets/effect_seq.py` | the next fresh name | `sequence`, `_Sequencer` | called by `op_model.py`, after the expansion | evaluation order, short circuits, loop conditions | the same accesses and calls in the same order, with the same values |
| Integer semantics of generated code: `targets/int_semantics.py`, `expr_types.py`, integer part of `py/` and `c/lower_progseq.py`, `py/pss_int.py` | none | `_int_val _int_opnd _int_bin _fit convert_to`, select writes | one rule set, a spelling per language | wraps left out where a range allows it, promotion and common types of C | the stored value is the language's |
| Target registry: `targets/__init__.py` | names, aliases, errors, whether it has scanned | `register discover _load_one` | entry points of plugins | failure of the n-th target of a plugin, forced rediscovery, load order | all or none; no silent substitution; a broken plugin breaks no other |
| DV-flow tasks: `dvflow/*.py` | memento, output directory | `run_build` and its child | child processes, the flow manager, the registry | edits and installations during a build, partial failure, deleted and truncated files | what is reused is what a compile would produce |
| Front end and IR: `frontend.py`, `ast2ir.py` | the tree being built | visitor methods | | | a translation; no state to interleave |
| Operation model and backends: `targets/op_model.py`, `*/lower_progseq.py` | the text being emitted | one lowering per statement | emits calls of the runtimes | which channel operation a mode lowers to | not modelled, but for `_chan_call` (channels) and integer expressions |
| Solver targets, command line, diagnostics | options | | external solver | | not modelled |

`PROJECT.json` lists the components with their status, and under `hazards` each
behaviour of the code that a test would hardly reach, at its line.

## 2. Modules

| Module | Models | Uses |
|---|---|---|
| `Channel` | what every channel promises: a FIFO of capacity `Depth` | |
| `AsyncChan` | `Chan1` of the asynchronous Python runtime | instantiates `Channel` |
| `AsyncChan_proofs` | theorems about it | `AsyncChan`, `TLAPS` |
| `IsrChan` | `pssc_chan.h`, the foreground and an interrupt handler, and `--chan-wait` | instantiates `Channel` |
| `IsrChan_proofs` | theorems about it | `IsrChan`, `TLAPS` |
| `Allocator` | what a scenario may expect of its pools: a claim has its instance alone, or shares it with sharers, and gives it back once | |
| `ResourcePool` | `zsp_resource_pool` | |
| `NativeActivity` | `parallel` as sv-native lowers and runs it | extends `ResourcePool`, instantiates `Allocator` (its locks) |
| `NativeActivity_proofs` | theorems about its locks | `NativeActivity`, `TLAPS` |
| `NativeJoin_proofs` | theorems about its shares, atomic blocks, waiting and join | extends `NativeActivity_proofs` |
| `PureActivity` | `parallel` as sv-pure lowers and runs it, with stream channels | extends `ResourcePool`, instantiates `Allocator` (all its claims) |
| `PureActivity_proofs` | theorems about its claims and streams | `PureActivity`, `TLAPS` |
| `Bridge` | mailbox, coroutines and trampoline of the DPI bridge | |
| `Bridge_proofs` | theorems about it | `Bridge`, `TLAPS` |
| `Registry` | the registry of targets in one process | |
| `BuildTask` | `run_build` over several processes, in a changing world | extends `Registry` |
| `BuildTask_proofs` | theorems about both | `BuildTask`, `TLAPS` |
| `ExecBody` | the statements and expressions the register passes see, and what a body does: the reference | |
| `RegRmw` | `reduce` and `expand_all` | extends `ExecBody` |
| `EffectSeq` | the sequencing pass | extends `ExecBody` |
| `BodyPasses` | the passes one after the other, as the driver runs them | extends `RegRmw`, `EffectSeq` |
| `IntRanges` | integer types, conversion, arithmetic, and what is known of a result from the ranges of the operands | |
| `IntRanges_proofs` | theorems about it | `IntRanges`, `TLAPS` |
| `PssTypes` | what an expression means: the reference | extends `IntRanges` |
| `HostInts` | what Python and C compute | extends `PssTypes` |
| `IntSemantics` | how an expression is rendered for Python and for C | extends `HostInts` |
| `MC*` | constants for TLC | one module each |

An operator whose comment starts with "Faulty:" is not part of a specification:
it is a plausible wrong version of the definition below it, kept to show that
the properties tell the two apart.

### AsyncChan

`value`, `full`, `arrived`, `drained` are the attributes of `Chan1` (the latter
two are the events' flags).  The scheduler is cooperative, so what runs between
two `await`s is one step: `PutLoop` and `GetLoop` are the loops of `put()` and
`get()`, entered by the call (`Put`, `Get`) and again at each resumption
(`Resume`).  `Post` and `Take` are the bodies of `try_put` and `try_get`, also
called by the environment (`TryPut`, `TryGet`), since an observer or a scheduler
callback may call them.  `Wake` is `Event.set()`: it resolves all waiters, each
of which resumes later, whatever the flag is by then; asyncio and cocotb both
behave so.  `Cancel` may hit a task before or after it was woken.  `sent` and
`rcvd` record the history.

### IsrChan

The foreground advances one access of the shared object at a time (`Enter`,
`Test`, `Copy`, `Flag`, `Exit`), and the handler's `try_put` runs between any two
of them unless `PSSC_CHAN_ENTER` masks it (`masked`).  What a build chooses is in
the initial state: `wait` for `--chan-wait`, `crit` for the macros, `wfi` for a
`yield_()` that sleeps, `fgPosts` for a model that also posts from the
foreground.  `GetCalls` and `PutCalls` translate `_chan_call`, which picks the
runtime function from `--chan-wait`.  The values are abstracted to tokens, and
the C++ `chan1` has the same two operations.

### ResourcePool, NativeActivity, PureActivity

`ResourcePool` has one operator per method.  Functions of SystemVerilog are
atomic; the task `lock()` is two steps (`LockGet`, `LockMark`), because another
thread may run when the semaphore grants.

`NativeActivity` is the lowering and its execution together.  `Program` is the
lowering: it maps a scenario - a sequence of branches - to the threads of the
fork, with the claims sorted as `emit_resource_acquire` sorts them (`Before`),
the atomic block as `_lower_atomic` emits it, and the branches as
`_lower_parallel` places them, which makes one thread of each statement of a
branch that is not `begin..end`.  The threads then run: `Solve` draws the
instance ids (`randomize()` with the bounds of the generated constraints),
`Lock`/`Mark`/`Share` acquire, `Body` runs, `Release` releases in reverse.
Traversals of handles have no acquire.  `force_lock` is not in the model: it is
emitted only for `is_head` claims, which nothing creates.  Pool and field names
are ranks, since only their order matters.  Trace statements are left out.

`PureActivity` takes the threads' programs directly, as sv-pure emits one
`begin..end` per branch: `Enter`, `Claim`, `Get`, `Body`, `Put`, `Release` are the
parts of `_traversal_stmts`.  A claim that is refused returns -1 and is used
all the same; `unlock(-1)` ends the simulation (`aborted`).

Both promise what `Allocator` says, through a refinement mapping that collects the
claims the threads hold: `Grants` in `PureActivity`, of locks and shares alike;
`LockGrants` in `NativeActivity`, of locks alone, because there `lock()` waits for
lockers and never for sharers, and a refused `try_share()` goes on.  A grant is
named by the thread, the traversal and the claim, so the refinement also says that
the instance that is released is the one that was granted, though the ids live in
variables that the next traversal overwrites.

`Waits` names the statements of a generated thread that can block: `get(1)` of a
semaphore in sv-native, `get` and `put` of a mailbox in sv-pure.  `ForkNeverStuck`
and `StreamedNeverStuck` are the safety part of reaching the join, and so can be
proved: until the join some thread is neither done nor waiting, and at the join
nothing is left behind.

### Bridge

`co`, `root` and `joined` are the coroutines of `_bridge_parallel_c`, `pending`
and `active` the mailbox, and `pc`, `rid`, `kid`, `outstanding` the trampoline
`pssc_run_action`.  `zsp_bridge_run` is the steps `Root`, `Post`, `Return` until
none is possible (`Quiescent`).  `Drain` is one iteration of the inner loop with
its `fork..join_none`.  A simulator may start a forked thread at once or when the
parent blocks, so `start` is part of the initial state; so is `keeps`, whether a
DPI call that returns without assigning an output leaves the variable alone.
SystemVerilog threads run until they block: an import task ends (`End`) only
while the trampoline waits.  `@progress` is the state "wait", and an event that
is triggered in any other state is lost, as in the language.

### Registry, BuildTask

`registry`, `errors` and `discovered` are `_REGISTRY`, `_PLUGIN_ERRORS` and
`_discovered` of one process; `installed` is the Python environment, one of a set
of entry-point lists.  `RegisterFamily` is the loop of an entry point's callable
over `register`, `LoadOne` is `_load_one` with its restore of the registry,
`Scan` the loop of `discover`.  A process starts with the built-ins (`Fresh`) and
may be told to ignore plugins.

`BuildTask` runs one such process after another, each with the version of pssc
that it imported when it started (`imported`) and with one of `Tasks`, a target's
name and options.  `Begin` computes the memento (`Hash`: the sources, the options,
the target's name and its provenance, which for a built-in is the *imported*
version of pssc, and for a plugin the plugin's alone), `Reuse` is the
up-to-date path, `ChildRead`, `ChildWrite` the compile in the child, which scans
and reads for itself, `Finish` and `Fail` the two results.  Between any two of
them the world moves: `Edit`, `Install`, `Delete`, and `Restart`, which kills the
process wherever it is.  The flow manager is external: it persists the memento
that a task returns, and none for a task that failed.  An output is the record
of what it was generated from (`Product`: sources, options, the target that a new
process resolves the name to, and the installed pssc, whose front end, IR and
driver compile for every target), so that "the same output" is an equality.  A
version stands for its code: a checkout that is edited under one version, or two
builds of one version of a plugin, are outside the model.
`tainted` marks an output that its memento does not describe, of the kinds listed
at `FreshReuse`.

### ExecBody, RegRmw, EffectSeq, BodyPasses

A body is a tree with the attributes that the passes look at: the kinds of
expression (read, call, `&&`, `||`, `?:`, the four write spellings, the rest) and
of statement (all but assertions and augmented assignments).  `Exec` runs a body
against an oracle, the answers of the device and of the callees in the order
they are asked, and gives the trace of accesses and calls with their values, and
the values of the variables.  One choice is left open as it is in C: whether the
index of an assignment's target is evaluated before its value, after it or among its
operands (`IndexOrders`).  A rewritten body is right when for every oracle, and
every choice, it does what the body before may do.  That is the contract of both passes, and `ExecBody` knows nothing
of how they work.

`Reduce` is `reduce` with the accesses it reports as errors (`IsRefusedWrite`),
`Expand` is `expand_all`; `SeqExpr`, `SeqStmt` and `Sequence` are the methods of
the sequencing pass, with `bad` for a `Refusal`.  `BodyPasses` applies them in the
driver's order and keeps the body of the stage before, which each property
compares with the body after.

### IntRanges, PssTypes, HostInts, IntSemantics

`IntRanges` has the operators on numbers and ranges, apart from the trees so that
they can be proved about: conversion (`Convert`), the arithmetic of the language
(`Arith`), the range of a result (`ArithRange`), the comparisons that ranges
decide (`Decided`).  A type carries its number of values, `m = 2^w`, beside its
width.  `PssTypes` gives types (`TypeOf`) and meaning (`Meaning`, `Assigned`) after the
repository's own reference, `src/tests/progseq/matrix/ref8_7.py`.  `HostInts`
evaluates rendered code as Python (unbounded) and as C: promotion, the common
type of two operands, conversion.  C's widths are scaled: `int` has `IntW` bits,
`long long` twice as many, and the thresholds 16, 32 and 64 of the source become
`IntW/2`, `IntW` and `2 IntW`.  `IntSemantics` is the rules: `InRange` is
`_int_val`, `Operand` `_int_opnd`, `Raw` `_int_raw`, `Operation` `_int_bin`, `Fit`
`_fit` with the ranges it decides by, `Carrier` `_c_carrier`, and the spelling of
shifts, divisions, comparisons and select writes in each language.  Rendered code
is a term, never text.

What C leaves undefined is given a value: signed overflow wraps, and a negative
left shift does what gcc does; formally, the product of two `uint16_t` in `int`
may overflow, since `_c_carrier` widens only above 16 bits.  `Lowest / -1` is a
wrong value, so a rendering that lets it happen is found.  Divisions by zero and
negative shift amounts have no meaning in the language (`ok`), and nothing is
asked of the code for them.

## 3. Runs

| Run | Shows | Result |
|---|---|---|
| `async_chan` | the channel implements `Channel`; no lost wakeup; what is there is taken | passes |
| `isr_chan` | guarded builds implement `Channel` (accepted posts are taken once and in order), nothing is invented in any build, coalescing loses no notification, a polled `get()` returns | passes |
| `native_activity` | locks implement the allocator, share counts, no fork is stuck and everything is released, atomic blocks in sequences, joins | passes |
| `native_pairs` | every fork joins, also with two locks of one pool | violated |
| `pure_activity` | claims implement the allocator, books exact, feasible claims granted, streamed forks are never stuck and join | passes |
| `bridge` | suspended iff requested, clean exit, each request dispatched once on a simulator that starts threads at once, where the action also returns if no import takes zero time | passes |
| `bridge_lazy` | the action returns on a simulator with late thread start | violated |
| `build_task` | no name is taken silently, families load whole, healthy plugins load, what is reused is what would be compiled, a rebuild has a cause | passes |
| `body_passes` | reduction, expansion and sequencing keep the trace and the values; no read is left in an expression; refusals have a documented cause | passes |
| `select_width` | sequencing keeps the value of `?:` with a narrow register in an arm | violated |
| `int_semantics` | generated Python and C store what the language says | passes |
| `c_casts` | the same with signed casts of unsigned operations | violated |

The violated runs are the `findings` of `PROJECT.json`, each with the sentence of
the repository it disagrees with.

### Disagreements without a run

Met while modelling, and plain from the two places alone:

* the polled `get()` may sleep through a post if `yield_()` is a WFI, which
  `pssc_chan.h:19` and `src/docs/op-model-c-embedded.md:169` suggest; the loop is
  `pssc_chan.h:131-132`.  `PolledGetReturns` is therefore of a `yield_()` that
  returns;
* an atomic block that is itself a branch of `parallel` becomes one thread per
  statement (`lower_activities.py:960-967`; `src/docs/pss_to_sv_user_guide.md:321`).
  `WrappedAtomicSerial` is of the blocks that stand in a sequence;
* the traversal of a handle acquires nothing (`lower_activities.py:410-473`; user
  guide, line 272);
* a plugin that replaces a built-in name is hashed with pssc's version
  (`dvflow/common.py:227`; its docstring, 250-252), so that installing or upgrading it
  does not rebuild.  TLC finds `FreshReuse` violated if the tasks of `MCBuildTask`
  have the target `"sv"` and its assumption `MCIdentifiable` is left out;
* a plugin's target is hashed with the plugin's version and nothing of pssc
  (`dvflow/common.py:230-237`), although the child compiles for it with pssc's own
  front end, IR and driver (`dvflow/compile_child.py:51-58`): after an upgrade of
  pssc the output of the old one is reused, where the docstring says "Used to skip
  recompilation when nothing relevant changed" (247).  `FreshReuse` leaves this
  out as `PsscUpgraded`; without that conjunct TLC finds it violated in the run
  `build_task` (the plugin `acme` under pssc 1, then under pssc 2);
* a built-in is hashed with the version of pssc that the process imported when it
  started (`dvflow/common.py:217,228`), while the child, a new process, runs the one
  that is installed then.  Of an upgrade in between, the memento names the old
  version for an output of the new.  `asof.upToDate` records this, and the two
  properties leave it out;
* the expansion of a masked write is not the native form with a read in its
  value, which then comes after the read of the register, and evaluates a mask
  that is not a literal twice (`reg_rmw.py`, `expand_all`).  `ExpansionMeans` is of
  the other writes;
* `select` with a weight that is not a constant tests the cumulative bounds
  without an `else` (`lower_activities.py:767-774`), so that the last test that
  holds decides: of three branches or more only the last two are ever chosen,
  where the docstring says "weighted random branch selection" (693).  Constant
  weights are a chain and right;
* `replicate` emits one `for` loop inside the fork (`lower_activities.py:848-854`):
  the copies run one after the other, where its docstring says "a fork/join with
  N concurrent body copies" (815);
* a write to the sign bit by a bit select leaves a positive number in a signed
  variable of Python, and of C at widths that are not a C type's
  (`py/lower_progseq.py:621-639`).  `SignBitWritten` leaves these out.

### Bounds, and why they are enough

* `async_chan`: three tasks (so two can wait on one side while one is on the
  other), two tokens (order and duplication show), three puts started.  There is
  one slot: a fourth put meets no state that a third does not.
* `isr_chan`: three posts and three calls, so that a post can precede, split and
  follow a call, and a stale token can meet a later call; two tokens.
* `native_activity`: two pools of two and one instances, every pair from ten
  branches - one lock, two locks in either field order, a share, a share and a
  lock, a pair of locks, a handle, an atomic block bare and in a sequence, with
  and without a neighbour - and one triple of two sharers and a locker.  A cycle
  of waiting needs two threads and two instances.  An action that locks two
  instances of one pool may deadlock, which `ForkNeverStuck` and `OrderedForkJoins`
  exclude and `native_pairs` shows.
* `pure_activity`: the same pools and two mailboxes of one item; pairs of one- and
  two-traversal threads over five claim lists, producers and consumers of two
  items (the second `put()` finds the mailbox full), chains of three threads over
  both channels, two producers of one channel, and two threads that wait for each
  other's item: that fork is stuck, and only `Streamed` excludes it.
* `bridge`: three branches of two calls, every subset of them with a task that
  takes time, both kinds of simulator.  Completions can then overtake each other
  and a coroutine can post again while another thread is still out.

* `build_task`: five environments - none; a plugin; the same plugin beside ones that
  fail to import, speak an old API or take a built-in's alias, under the next
  version of pssc; its next version beside one that needs another pssc and one that
  replaces a built-in; and plugins that have nothing, have no metadata, or take
  each other's names.  Three tasks: a plugin's target with two options, and a
  built-in.  Three processes, two changes of the world, two good sources (symmetric) and a bad
  one.  The third process meets a memento that the second left after the first,
  and the two changes fall before and after its hash.
* `body_passes`: some thirty expressions in each kind of statement, in pairs
  where a statement has two (the index and the value of an assignment among them),
  every `?:` of a narrow register, a wide one and a variable, and twenty masked
  writes alone, in loops and in
  arms.  The oracle answers four questions with any of three values (zero, not
  zero, and one with a low bit), so that each condition goes both ways and values
  that were swapped show; registers have three bits, or one.
* `int_semantics`: `int` has four bits, and types have two to eight, so that each
  is narrower than, as wide as or wider than each C type; variables take the
  extremes of their type and what lies beside the middle.  Expressions have up to
  three operations: a rule looks at an operator, its operands, and what is around
  it.

`CHECK_DEADLOCK FALSE` everywhere: each of these systems ends - at its join, its
return, its last pass or bounded run, or with every task waiting for a post that
the environment need not make.
That nothing stops too early is what the liveness properties, `ForkNeverStuck` and
`StreamedNeverStuck` say.

### Fairness

* `AsyncChan`: weak fairness of each task's resumption.  asyncio and cocotb keep
  a queue of ready tasks and drain it.  Calls, posts and cancellations have none.
* `IsrChan`: weak fairness of the foreground thread.  The device owes nothing.
* `NativeActivity`, `PureActivity`: weak fairness of each thread.  A simulator
  runs each thread that can run, and bodies are assumed to end.  Programs are
  finite, so a thread that waits for a semaphore is in the end the only one that
  asks for it, and strong fairness is not needed.
* `BuildTask`, `BodyPasses`, `IntSemantics`: none; nothing is asked of progress,
  since a flow may be killed and each pass is a single step.
* `Bridge`: weak fairness of the trampoline and of each forked thread; import
  tasks of the testbench are assumed to end.

## 4. Proofs

Each proof module proves theorems of a specification for every value of its
constants, from the named assumptions of the modules it extends and from nothing
else; TLC evaluates those assumptions in the runs.  Each inductive invariant was
first checked by TLC with the constants of the component's run.  The shape is the
same throughout: `Init => IInv`, `IInv /\ [Next]_vars => IInv'` with a lemma per
action or per part of the invariant, and `IInv => Property`.

| Module | Theorems (the property each states) |
|---|---|
| `AsyncChan_proofs` | `TypeCorrect` (`TypeOK`), `NoWakeupIsLost` (`NoLostWakeup`), `TokensConserved`, `Refinement` (`ImplementsChannel`) |
| `IsrChan_proofs` | `TypeCorrect` (`TypeOK`), `PostsAcceptedOnce`, `Refinement` (`ImplementsChannel`), `NotificationsKept` (`CoalescingKeepsToken`), `NothingInvented` (`NeverInvents`) |
| `NativeActivity_proofs` | `LocksAreExclusive`, `LocksRefinement` (`ImplementsAllocator`) |
| `NativeJoin_proofs` | `TypeCorrect` (`TypeOK`), `SharesAreCovered` (`SharesCovered`), `AtomicBlocksAreSerial` (`WrappedAtomicSerial`), `ForksAreNeverStuck` (`ForkNeverStuck`) |
| `PureActivity_proofs` | `TypeCorrect` (`TypeOK`), `PoolIsExact` (`CountsExact`), `ClaimsAreRespected`, `FeasibleForksAreGranted` (`FeasibleGranted`), `PoolsRefinement` (`ImplementsAllocator`), `StreamedForksAreNeverStuck` (`StreamedNeverStuck`) |
| `Bridge_proofs` | `TypeCorrect` (`TypeOK`), `SuspendedMeansRequested` (`BlockedIffRequested`), `ReturnsClean` (`ExitIsClean`), `DispatchedOnce` (`EachDispatchedOnce`) |
| `BuildTask_proofs` | `TypeCorrect` (`TypeOK`), `NoNameIsTaken` (`NoSilentSubstitution`), `FamiliesLoadWhole` (`AllOrNone`), `HealthyPluginsLoad` (`HealthyLoads`), `ReuseIsFresh` (`FreshReuse`), `RebuildsHaveCause` (`RebuildHasCause`); and the lemmas about `Registry` |
| `IntRanges_proofs` | `OperationMeans`, `RangesHold`, `WrapsAreEnough`, `NegationMeans`, `LeafMeans`, `AssignmentMeans`, `CarrierKeepsLowBits`, `FloorIsTruncation`, `DecisionsAreRight` |

### AsyncChan_proofs

For any finite set of tasks, any tokens and any number of puts, from
`NoTokenAssumption`, `TaskAssumption` and `MaxSentAssumption`.

`NoLostWakeup` is not inductive by itself.  When `try_put` fills the slot it
calls `_arrived.set()`, which does nothing if the flag is already up: a task
blocked in `get()` would then stay blocked beside a full slot.  The inductive
invariant `IInv` therefore adds `EventsTrackSlot`: `arrived` is up exactly while
the slot is full, and `drained` is down while it is.  That is what clearing an
event on the opposite transition and before each wait preserves, and it makes
every `set()` that matters find its flag down and wake all waiters.
`TokensPresent` says that a full slot and a suspended `put()` still carry a token,
so that what is posted after a resumption is a token.  `Conservation`, which is
`sent = rcvd \o Held`, gives the refinement: an `Accept` or `Deliver` step of
`Channel` (with `Depth = 1`) for each step that changes `full`, a stutter for the
rest.

### IsrChan_proofs

For any tokens, posts and calls and for every platform, from `NoTokenAssumption`
and `BoundAssumption`.

A handler may post between any two accesses of the foreground, so an invariant
must say what the foreground still knows at each of them.  `Masking` says when a
handler can run at all.  `Tested` is what the test established and a handler cannot
undo: a take has found the slot full, which no handler empties; a post has found
it empty, which only the critical section keeps so.  `Copied` is the same of the
value.  With these, `AcceptedOnce` and `CoalescingKeepsToken` are inductive.

`Refinement` then follows the steps.  The platform and the model do not change, so
a build is guarded (it has the section, or only the handler posts) for good, and
the mapping is empty for the others.  In a guarded build the write of `full` is
the step at which a call of the foreground takes effect: `Copied` and `Tested` say
that it still acts on what it tested, so it is an `Accept` of the value copied or
a `Deliver` of the value held, and every other access is a stutter.

`NeverInvents` holds of platforms without the section too, where a foreground post
and a handler's can both find the slot empty: `Conserved` is the account that
survives the race, per token - what was taken, and what the next take would take,
is at most what was posted and what the pending post will add.

### NativeActivity_proofs, NativeJoin_proofs

For any scenario, threads, pools and capacities.  `ScenarioAssumption` says that
the programs of the scenarios are sequences of operations whose claims are of
declared pools, `ThreadAssumption` that a fork has finitely many threads,
`PoolAssumption` that pools are ranked, `AtomicAssumption` that the lowering emits
as many gets of the semaphore as puts and marks as atomic only traversals, and
`PutsAssumption` that each put is emitted behind its get, in a thread of its own or
in the same thread: what `_lower_atomic` does.  `ClaimsAssumption` says that the
claims of an operation are those `SortedClaims` makes of them, of fields with names
of their own.  All of these follow from the definitions of the lowering, but by
induction over the scenario, which is out of the prover's reach; TLC evaluates
them on the programs of the run.

`LockExclusive` counts a lock from the moment the semaphore grants it, one step
before `lock_held` is set, so the flag cannot carry the argument; the semaphore
does.  The inductive invariant `LockInv` adds `Tokens` - a semaphore holds one token
at most, and none while its instance is locked - without which a second grant or a
second release could not be excluded, and `Position`: a thread inside a traversal
is at one of its claims, with ids that lie in their pools, so that what it
releases is what it acquired.

`JoinInv` extends it for what a fork leaves behind.  `Flags` is the converse of
`Tokens`: a raised flag or an empty semaphore is some thread's lock, so that when no
thread holds one the pool is as it was built.  `Granted` keeps the granted shares
among the claims the thread has passed and not released, and `SharesCovered` is
inductive with it: a refused `try_share()` is still followed by an `unshare()`,
which takes a share of someone else away, so that only the upper bound holds.  That an
instance may then be locked under a sharer whose share was undone is no property's
to catch: it is listed as a hazard.  That
`unshare()` stops at zero is what makes the count zero at the join.  `Gate` is for
the atomic blocks: the semaphore never exceeds one, and a thread between the get
and the put of a block has its token.  It holds only of forks in which each
block is bracketed (`Wrapped`): a bare block that is a branch is split over
threads (see Disagreements).  `Balance` holds of all forks: gets passed and tokens
left are one more than puts passed, which gives `atomicSem = 1` at the join, even
after a split block let the semaphore rise above one.

`LocksRefinement` follows the steps.  Each action's lemma also proves `Ledger`: the
thread that moves keeps the locks it holds, takes one of an instance that nobody
holds, or returns one, and goes on to its next traversal only with none.  These
are a stutter, a `Grant` and a `Return` of the allocator.

`ForksAreNeverStuck` is the argument that lock ordering prevents deadlock, made
precise.  Suppose every thread that is not done waits.

* A thread that waits for a lock waits for an instance whose owner has passed the
  claim (`Flags`).  The owner is inside a traversal, so if it waits then not at a
  `get` but for a claim that stands behind the one it passed in its list
  (`OwnerIsAhead`), and since the lists are sorted and none locks a pool twice, for
  an instance of a *larger pool*.  Of the finitely many threads that wait for
  locks one waits in the largest pool, and its owner cannot be waiting: none waits
  for a lock (`NoneWaitsLock`).
* The others wait for the semaphore of the component, at gets.  Every put still to
  come has a get of its own to come before it in its thread (`PutsBehindGets`), so
  there are at least as many gets as puts left, and `Balance` with
  `AtomicAssumption` contradicts an empty semaphore.

The order of the claims is not assumed to help: `SortedIsSorted` proves that every
finite set of claims with distinct fields has a sorted list, so that the
`CHOOSE` of `SortedClaims` is one - with a set that has no sorted list and is least
(`LeastSubset`), whose last claim (`LastClaim`) can be taken away and put back at
the end.  With `BeforeByField` for `Before`, the run finds the fork stuck.  At
`OneLockPerPool` the theorem is sharp: `native_pairs` shows that forks without it
do get stuck.

### PureActivity_proofs

For any pools, capacities, mailboxes and threads, from `ScenarioAssumption`,
`ThreadAssumption` and `CapAssumption`.

`CountsExact` is what the books should say, but the type invariant - that no
counter goes below zero - already needs it, and its preservation needs `OneOwner`
(an instance has one lock, and no sharer meanwhile, so `unlock()` frees it) and
`Position` (a thread has an id for each claim it has passed, `-1` or one of the
pool's, so that it releases what it claimed).  `FeasibleGranted` is then a counting
argument (`SomeFree`): a thread that claims finds, if the claims of the fork fit the
pool wherever the threads stand, fewer instances in use than there are, because
distinct instances in use have distinct claims.

`PoolsRefinement` is about shares too.  Each action's lemma proves `Books`: what the
moving thread holds is kept, gains one claim that the pool could grant
(`CanLock`, `CanShare`), or loses one, whatever id it was granted under.  That the
pool could grant it means by `CountsExact` and `OneOwner` that no other claim is in
the way, which is the guard of the allocator's `Grant`.

`StreamedForksAreNeverStuck` needs one account: a mailbox holds as many items as
sends on it were passed and receives were not (`Account`), which each `Get` and `Put`
keeps (`AccountStep`: exactly one statement becomes passed, `MovedPasses`).  `Streamed`
gives the rest of the argument.  As many items are sent to a channel as received,
so a thread that waits for an item has a sender that is not done, and one that
waits for room a receiver that is not (`Partner`).  The threads are numbered so that
items go upwards.  Suppose all that are not done wait.  Of those that wait for an
item take the lowest: its sender, below it, cannot wait for room, since the one
channel it sends to is empty, so it waits for an item and is lower still.  Nobody
waits for an item, then.  Of those that wait for room take the highest: its
receiver, above it, can only wait for room, and is higher still
(`AllWaitsAllDone`).  `Streamed` admits pipelines and several producers of a
channel; without it TLC finds the property violated, by the circle of the run.

### Bridge_proofs

For any number of branches and calls and every simulator, from `BranchAssumption`,
`CallsAssumption` and `StartsAssumption`.

The request ids are the positions of `owner`, and `Fifo` says that the mailbox is
first in, first out over them: what is pending is what was posted after what was
taken, and a thread was forked for each request taken.  `Numbered` bounds the
requests: each can be told from the others by its coroutine and a number of calls
that the coroutine has left behind, so that there are at most as many as calls.
`Asking` makes the correspondence of `BlockedIffRequested` one to one.  `Joining` says
what the join block's counter means for the forking coroutine, `Counted` that
`outstanding` is the number of threads alive; together they make the exit test
mean what `ExitIsClean` says.  `Eager` is for simulators that start a thread where it
is forked: the thread of request `c` then reads the number `c` before the loop
overwrites it, whether or not variables are kept.

### BuildTask_proofs

For any built-ins, environments, sources and tasks, and any number of
runs and changes, from `BuiltinsAssumption`, `InstallationsAssumption` and
`BuildAssumption`.  `InstallationsAssumption` says what Python gives: a target is an
object that one entry point made, and a distribution has one version in an
environment; and that pssc advertises no targets of its own
(`pyproject.toml` has no such group).

`RegisterFamily` and `Scan` are loops, written as recursive functions of the
iteration.  That these functions exist (`FamilyHasSteps`, `ScanHasSteps`) and what
they keep is induction on the iteration, which is done with a set: `UpTo` says that
a set of numbers closed under successor has them all.  `AfterTargets` is the
invariant of the loop over a family, `AfterEntryPoints` that of a scan: whatever
resolved still does, what is new comes from the entry points seen, and those that
did not fail resolve.  `AfterFirst` adds what is true of a first scan only: a failed
entry point left nothing, a healthy one did not fail.  In a second, forced scan
each plugin collides with itself, unless it replaces its own names.  `Process` carries the three properties of the
registry over the steps of a process.

`FreshReuse` needs to know what a memento's hash stands for, after any number of
changes since.  `Certified` is that: if nothing relevant was installed between the
start of the process, its scan and the hash, the hash is a function of the world
(`HashIs`), except for a target nobody can name, for which it is of that run alone.
`Task` says that the
memento is certified by an earlier run, and `Stored` that an output which is not
`tainted` is what a compile of the memento's world would produce.  Two equal hashes
then mean one product (`SameHash`), but for the version of pssc under a plugin's
target, which `PsscUpgraded` excludes.  The hypothesis is `Identifiable`, in two
parts: what a name resolves to is not a plugin's target under a built-in's name,
and a distribution has one target of a name for each of its versions.
Without the first part the theorem is false, for the cause given above
(`dvflow/common.py:227`); the second says that a version stands for its code.
TLC evaluates `Identifiable` in the run `build_task`
(`MCIdentifiable`).  `RebuildHasCause` follows from the same invariant without it.

### IntRanges_proofs

TLC evaluates whole expressions at a few small widths.  These theorems are about one
operation at every width: for `Types`, the signed and unsigned types of any even,
positive number of values - which each `Type(w, s)` with `w > 0` is - and for all
ranges, known or not.  Two things make generated code on unbounded integers mean
what the model means, and `int_semantics.py:38` claims that both "are exact".

* An operand of `+ - * <<`, `-` or `~` may be left unwrapped, since the operator
  gives the same low bits.  `RingStep` proves that, with congruence modulo `m`.
* A result is wrapped only if its range may leave the type.  `RangesHold` proves
  that the computed range holds the result whatever the operands in theirs are.
  For products it is `ProductBounds` (a product of numbers between bounds lies
  between products of bounds), for divisions `QuotientHull` and `QuotientFits`:
  the quotient lies in the type unless it is the most negative value divided by
  -1, which is what the condition in `DivRange` excludes before it narrows.
  `WrapsAreEnough` then says that a value left alone is the value the type gives.

`OperationMeans` puts them together: given operands that stand for the language's -
exactly, or in their low bits where the rules let them be so - the fitted result is
the operation carried out at its type.  `NegationMeans` says it of the unary
operators, `LeafMeans` of a variable met at another type and `AssignmentMeans` of
the target, so that each case of an induction on an expression of these operators
is proved.  `FloorIsTruncation` is the second relaxation of the source: on ranges
without negative numbers `//` and `%` are the language's `/` and `%`.
`CarrierKeepsLowBits` is about C: what `_c_carrier` widens to loses no low bit of
`+ - *`, and where the result's range lies inside the C type nothing overflows.
`DecisionsAreRight` is `_cmp_decided`.

The proofs do not use that `m` is a power of two.  A narrower type is one whose `m`
divides the other's (`NoWider`), and a shift takes as a hypothesis that `2^y` is a
positive number: the provers know nothing of powers.  Not covered: `& | ^` and `**`,
whose definitions are recursive or powers of a variable.

### What is not proved

* The liveness properties: fairness and `ENABLED` are beyond the prover.
* `ExecBody`, `RegRmw`, `EffectSeq`, `BodyPasses`, `PssTypes`, `HostInts` and
  `IntSemantics`: functions on trees, written with `RECURSIVE` operators.  What
  their properties say of every tree is an induction on the tree.  For the integer
  rules `IntRanges_proofs` has the steps of it, but neither the induction nor the
  spelling of each operation in C, nor the bitwise operators and powers:
  `PythonMeans` and `CMeans` stay with TLC.
* That a program of `NativeActivity` has the properties its assumptions name, for
  every scenario: induction over the scenario's statements.
* `OrderedForkJoins` and `StreamedForkJoins` from `ForksAreNeverStuck` and
  `StreamedForksAreNeverStuck`: a program is finite and each step of a thread goes
  forward in it, so that a fork which is never stuck ends; but "some thread can
  go on, so some thread will" is `ENABLED` and fairness.

## 5. Not modelled, and why

* The front end, the intermediate representation and the text of the backends:
  sequential, syntax-directed translations.  They are most of the lines of the
  repository (`ast2ir.py` and the four `lower_progseq.py` alone are a third), and
  what there is to say of each method is its own text.  The models cover the
  lines with control, so the covered share of all lines stays small.
* Of the integer rules: the C++ and SystemVerilog spelling, enums, booleans
  beyond comparisons, selects with a computed index, arrays, structs, strings.
* Of the register passes: resolution of the receiver, provenance, packed images,
  reads of struct values (`_fields_too`), assertions, augmented assignments.
* Of the registry: `register` outside an entry point, styles, extensions of the
  legality of calls.
* `zsp_state_pool`: no generator emits its access tasks.
* The head solve of `parallel`: each branch's own `randomize()` draws the ids
  again, so that it does not restrict what `Solve` may choose.
* Concurrent `pssc_run_action` calls on one bridge, several bridges and repeated
  spawns of one action: outside the documented contract (`zsp_bridge.c:25`,
  `sw_tgt.py:490`).
* One handle traversed in two branches of sv-pure, whose claim variable they
  share: listed as a hazard.
* The DV-flow manager itself, which is a package of its own: what it persists is
  taken from how `dvflow/common.py` uses it.
* The solver: ids and values are any that the generated constraints allow.

## 6. Plan

1. Modelled: the channels, the pools with both activity lowerings, the bridge;
   the registry and the build task over it; the register passes and their
   composition; the integer rules with their Python and C spelling.
2. Left, in this order:
   * more activity forms beside `parallel`: `select`, `replicate`, `schedule`;
   * a second trampoline on one bridge, repeated spawns;
   * the identity of handles in sv-pure;
   * the C++ spelling of the integer rules, and selects with a computed index.
3. Proofs: done for the safety properties of all modules that are not functions on
   trees, for the refinements, and for the single operations of the integer rules.
   Left: the parts of the models that item 2 adds.

## 7. Running

    tlc -workers 2 -config MCAsyncChan.cfg MCAsyncChan
    tlapm AsyncChan_proofs.tla
    tlapm NativeActivity_proofs.tla     # and the other *_proofs modules

Each run of `PROJECT.json` names its module and configuration.
