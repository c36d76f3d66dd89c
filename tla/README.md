# A formal model of backtracie

[backtracie](../src/README.adoc) is a native extension for MRI Ruby. It walks
the VM's control frames and makes an array of `Backtracie::Location`, or
fills in C structures (`raw_location`, `minimal_location_t`) for profilers.
This directory holds TLA+ models of it, TLC configurations, and
proofs checked by TLAPS. Paths below are relative to the repository;
`ext/` stands for `ext/backtracie_native_extension/`.

## The system

| component | code | state | operations |
|---|---|---|---|
| collector | `ext/backtracie.c:97-205`, `lib/backtracie.rb` | C locals of the running call: thread, frames left out, frame count, loop index, captured frames, the last Ruby frame seen, the array of locations | `backtrace_locations(thread)`, `caller_locations`, `ensure_object_is_thread`, `Location.new` |
| frame capture | `ext/backtracie_frames.c:205-363, 494-536, 772-796, 910-920` | none of its own; reads a thread's life and control frames | frame count, capture of frame *i*, line number, minimal location |
| names, labels, paths | `ext/backtracie_frames.c:365-492, 538-763, 922-941` | none of its own; reads the class graph | qualified name, label, file name, stand-in for `rb_profile_frames` |
| string builder | `ext/strbuilder.c` | buffer, size, write pointer, counted length, growable or not | init, append a C string / a Ruby string / a format, take the text, free |
| frame wrapper, GC | `ext/backtracie_frames.c:249-271, 865-908`, `ext/backtracie.c:64-95` | array of frames with capacity and length; global references | make, mark, compact, free |
| copies of VM code for older Rubies | `ext/backtracie_frames.c:800-863` | none of its own; reads the environments of a thread's frames | the method entry of a frame, on Ruby < 2.6 |
| extension initialisation | `ext/backtracie.c:64-95` | references to the main object, `FrozenCore`, `Location` | runs once, before all the others |
| rest | debug hash, C test helpers, `extconf.rb` | none | none that the library's promises depend on |

**How they interact.** A Ruby program calls an entry point. The collector asks
frame capture for a count, makes a wrapper, captures frame after frame, then
converts the captured frames from the oldest to the newest; each conversion
asks for a name, labels and paths, every one of which goes through a string
builder. C clients (profilers) call frame capture directly, keep the raw or
minimal location, and ask for names much later. All of it runs in Ruby
threads under the global VM lock (GVL), on data that belongs to the VM and to
other threads.

**What is hard.** The collector reads another thread's stack with a count taken
earlier, and runs Ruby code (`Location#initialize`) in its second loop, where
other threads run and exceptions arrive. Frames are captured newest first and
converted oldest first; some frames belong in no backtrace, and C frames borrow
the place of an older Ruby frame. The string builder truncates or grows and
retries. Names are put together by mutually recursive functions over a class
graph that contains singleton classes, inclusions of modules, refinements and
anonymous classes, some of which get a name while a location is kept. The
garbage collector may move what a kept location refers to. Where the VM
exports no function for it, the method a block belongs to is looked up through
environments that may outlive their methods and whose slots mean different
things. `PROJECT.json` lists
these hazards at their lines with the properties that watch them.

**What makes each part correct.**

- collector: a call gives the backtrace that its subject had at *one* instant
  during the call, or nil for a subject that was dying or dead; it always ends;
  it never calls capture with a bad index; `caller_locations` shows what is
  below its caller, no less and no more;
- capture: what is kept of a frame suffices for its place;
- names: no assertion fails and naming ends, for any class graph; the name is the
  documented one, from both forms of location, except for two kinds of modules
  for which the code is known to deviate from its comments;
- string builder: the semantics of `snprintf`/`strlcat` in a fixed buffer, no
  truncation in a growable one;
- wrapper: only valid entries are marked, all of them are updated;
- a kept location holds on to no more than it must: no receiver that only it would
  lead to, and in its minimal form no code that no class has a method of. (A
  receiver's own singleton class does lead to it, and that is what is kept then.)
- copied VM code: the method found is the one the frame runs, and the walk ends.

## The modules

| module | models |
|---|---|
| `VMStack` | stacks of control frames; the pure functions on one frame (`FrameCount`, `IsValid`, `Capture`, `LineNumber`, `ToLocation`); the *reference* definition of a backtrace, said of the stack alone (`Shown`, `Rank`, `LocationAt`, `IsBacktrace`) |
| `Backtrace` | the abstract specification: `Ask`, `Take`, `End`, with the answer equal to the subject's backtrace at the step `Take` |
| `Collector` | threads under the GVL, the program they run, and each step of the library's calls; refines `Backtrace` and `FrameWrapper` |
| `LegacyCallerLocations` | `caller_locations` as it is on Ruby < 2.5, a slice of what `Collector` returns |
| `StrBuilder` | `strbuilder.c`, one step per pass of a retry loop |
| `FrameInfo` | names, labels, paths of a kept location, one step per call of a naming function |
| `FrameHeap` | the addresses in captured frames under a collector that frees and moves objects: the wrapper, and a raw or minimal location kept by a C client; refines `FrameWrapper` |
| `FrameWrapper` | the abstract specification of a wrapper's use by a call: made empty, filled within its capacity, read, dropped |
| `MainObject` | `FrameHeap` with the global that refers to the main object |
| `MethodEntry` | the environments of methods, bodies and blocks, and `copied_vm_frame_method_entry`, one step per pass of its loop |
| `CollectorProofs`, `BacktraceProofs`, `WrapperProofs`, `CallerLocationsProofs` | theorems about `Collector`; the last one also about `LegacyCallerLocations` |
| `MethodEntryProofs`, `FrameHeapProofs`, `StrBuilderProofs`, `FrameInfoProofs` | theorems about the module each is named for |
| `MCCollector`, `MCDeepStack`, `MCFrameInfo`, `MCFrameHeap`, `MCMainObject` | instances for TLC |

`Collector`, `FrameInfo` and `FrameHeap` extend `VMStack`: the first composes
capture with the threads, the second with the class graph, the third with the
garbage collector. The first and the third see the same calls from two sides,
and `FrameWrapper` is where they meet: `FrameHeap` takes it for granted that
neither a switch nor an exception comes inside the loop that fills a wrapper,
and `Collector`, which has switches and exceptions but no heap, is shown to
implement the same specification. That specification knows who runs (`holder`, the
GVL's holder in `Collector`): only the holder makes, fills and drops a wrapper,
`Yield` hands the role over and is not possible while the holder's loop runs, and
the loop is left by `Stop` alone. So this may be relied on. `FrameInfo`'s
pieces of text are what `StrBuilder`'s clients append (a name: C strings and
Ruby strings; a label or path: one Ruby string), which is why `StrBuilder` has
these two kinds of clients. A third kind uses `strbuilder_appendf`, which
nothing calls today. `MethodEntry` finds what the other modules take as the
field `cme` of a frame.

### State and actions of `Collector`

A stack is a sequence of frames, oldest first, that begins with the VM's dummy
frame; the empty stack is a thread that has not run (`cfp == NULL`). `target`,
`ignored`, `count`, `index`, `frames`, `prev`, `locs` are the locals of
`collect_backtrace_locations` for each thread; `pc` says where a thread is:

| pc | next action | code |
|---|---|---|
| program | `BacktraceLocations`, `CallerLocations`, or a step of the program | `backtracie.c:157`, `lib/backtracie.rb:39` |
| ensure | `EnsureObjectIsThread` | `lib/backtracie.rb:47` |
| wrapper | `PrimitiveCallerLocations` | `backtracie.c:146` |
| alive | `CheckAlive` | `backtracie.c:101-109` |
| count | `CountFrames` | `backtracie.c:111-118` |
| capture | `CaptureFrame` (a pass), `EndCapture` | `backtracie.c:120-133`, `backtracie_frames.c:302-359` |
| convert | `ConvertFrame` (up to `Location.new`), `EndConvert` | `backtracie.c:134-144` |
| initialize | `StoreLocation` | `backtracie.c:138-140` |
| return | `Return` | |
| crash | none: the assertion of `capture_frame` failed | `backtracie_frames.c:315` |

`Safepoints` are the places where the running thread executes Ruby code. Only
there may `Switch` hand the GVL to another thread, and `Interrupt` deliver
`Thread#kill` or `Thread#raise`. This is a property of MRI: C code keeps the GVL
unless it releases it or calls Ruby. `CaptureFrame` is a step of its own all the
same, so that what the loop relies on is visible; the mutant `Safepoints_InLoop`
shows what breaks without it.

### `StrBuilder`

Characters are identified by their place in the text that was asked for, so a
correct buffer holds 1, 2, 3, ..., NUL. `Put` writes a piece; `Settle` is the
common end of `strbuilder_append` and `strbuilder_appendf`. A write that leaves
the buffer takes the process to `overrun`. The size arithmetic of
`strbuilder_append_value` wraps (`SizeModulus`).

### `FrameInfo`

The class graph is given as constants (`Super`, `ClassOf`, `Attached`, ...).
A client captures a frame, keeps its location, and asks. A name is computed by
a stack of pending calls (`todo`) whose expansions are the bodies of `mod_to_s`
and its helpers; `out` collects what they append. `Description` is the
documented name, defined from the class graph by structure, without the order
of the code's tests: `GoesBy` says which class or module a singleton class or an
inclusion is named by, `Root` where that ends, `Depth` how many singleton classes
are passed on the way (`OnTheWay` is the set of all that is), and `FirstNamed` is
the nearest named ancestor, taken from the set `Ancestors` and not by a walk.
Between capture and question the program may assign an anonymous class to a
constant.

The description follows the comments at `backtracie_frames.c:539-552, 572-581`,
where the code does not do so as well. `LosesModule` and `SkipsClass` say of which
classes and modules that is: the singleton class of an instance of a subclass of
`Module` (line 582), and an anonymous module whose class has a name (line 563).
`NameIsDescription` leaves out the locations that are named by one of them
(`KnownToDeviate`), and no others; `NameIsDocumented`, which leaves out nothing,
is violated.

`HierarchyAssumption` states what MRI guarantees of its classes and the naming
functions rely on; `GoesByAssumption` states the equations of the recursive
functions `Root`, `Depth` and `OnTheWay`, which hold because no class goes by itself in the
long run. TLC evaluates both for the class graphs of the runs.

### `FrameHeap`

Objects have addresses (`at`), and a captured frame holds addresses. A
collection (`CollectGarbage`) frees what nothing marks, may move an object that
nothing pins into one of the `Spare` addresses that is free by then (each object is
at its `Home` at first), calls the wrapper's mark,
compact and free functions and lets a client that marked movably compact its
location. It can come at every allocation of a call: while the wrapper is made
(`made`: the array is not there yet) and while locations are made (`read`), but
not in the first loop, which allocates nothing. `WrapperIsHeld` is
`RB_GC_GUARD`; an exception is `EndCall` with nobody holding the wrapper. The
free function leaves the `frame_wrapper_t` itself allocated
(`ext/backtracie_frames.c:901-904`): the model does not count that memory.

`Capacities` are the sizes a wrapper is made for, zero (a stack without frames)
among them. `Forms` are what a C client keeps outside any wrapper: a raw
location, whose VALUEs `backtracie_frame_mark` and its siblings mark and update,
or a minimal one (`MinimalMembers`), whose few VALUEs it must mark itself.

What an object keeps alive is given by `References`, which holds its class in any
case and whatever else the instance says: a singleton class's attached object, the
code of a method entry, superclasses. Besides these a class refers to the method
entries in its method table (`methods`, `Refers`), from which `RemoveMethod` takes
one out. Marking follows all of this to the end (`Reach`, defined by the sets that
are closed under `Refers`). The program lets go of objects (`Drop`), one or, where
they refer to each other, several at once, so that a location may be all that keeps
one alive. `Abandoned` objects of some sort are those that the program dropped and
that no object of another sort leads to.

`NoReceiverIsHeld` and `MinimalHoldsNoCode` say that abandoned receivers, and
abandoned code while only a minimal location is kept, are garbage, wherever a call
is. The header promises more (`public/backtracie.h:59-65`, and 179-184 for code):
a receiver with a singleton class is not abandoned in this sense, because
`rb_class_of` at `backtracie_frames.c:338` gives that class, which leads back to it.
The run's heap has such a receiver, which locations do keep; and it has a method
that is removed from its class or not.

`MainObject` reuses all this with the receiver compared to an address taken at
load time.

### `MethodEntry`

An environment has a slot and an enclosing environment (0 for one that is local
to a method). `CallMethod`, `RunBody`, `CallBlock` push a frame with a new one;
a block may be called after the method it was written in was left, so blocks
are made from any environment there ever was. `UseSvar` puts an svar into the
slot of the method around the running frame, as an assignment to `$~` does. `Look`
starts a lookup, `WalkPass` is a pass of the loop, `WalkEnd` the check after it.
`method` and `home` are history variables: what the VM was asked to run.

## The runs

| run | shows | bounds |
|---|---|---|
| `collector` | types, no crash, captures equal the present stack, refinement of `Backtrace` and of `FrameWrapper`, and that every call ends, with two threads asking about each other and themselves | stacks of 1 and 2 frames over the bottom one, besides the library's Ruby and C frames; one line per method |
| `deep_stack` | the same of one thread, that `caller_locations` is its caller's view, and what the slice for Ruby < 2.5 shows instead | up to 5 frames of 3 kinds over the bottom one, 2 lines per method |
| `strbuilder` | truncation, growth and retry | fixed buffers of 0-5 bytes, growable ones from 1-4; pieces of 0-5, texts up to 8 characters, one NUL among them |
| `frame_info` | names, labels, paths | 29 frames, two of them in no backtrace, over 25 classes and modules, at most one kept location |
| `frame_heap` | frames survive collections and compactions while held, are freed afterwards, hold no abandoned receiver, and minimal ones no abandoned code; refinement of `FrameWrapper` | 7 objects, 8 addresses (2 of them to move to), 4 frames, wrappers for 0 or 2, one kept location and none besides a wrapper; one object moves per collection |
| `method_entry` | the method found is the frame's, and the walk ends | 2 methods, every arrangement of 3 environments |
| `strbuilder_overrun`, `strbuilder_duplicate`, `minimal_filename`, `profile_frame`, `bare_module`, `main_object` | each finds a documented promise broken | as above; `main_object`: 6 objects, 7 addresses |

*Why these bounds are enough.* A call of the collector looks at one subject and
runs in one thread, so two threads show every relation between asker and subject
(itself, running, waiting, not started, being killed, killed) and two calls that
interleave; what kinds of frames there are matters to one stack only, and
`deep_stack` has them. A backtrace is affected by a frame's kind (Ruby, C,
neither), its place, and the nearest older Ruby frame; five levels of three kinds
contain every such pattern, and stacks shorter than what `caller_locations`
drops. Text of eight characters in buffers of at most five is truncated or grown
at every boundary (empty, one short, exact, one over), several times, and after
being full. Three environments are a block in a block in a method or body, the
least in which the walk passes one that is neither first nor last. In
`frame_heap` a wrapper and a location kept by a client do not exist at a time:
they share no memory and are marked independently. What is proved (below) holds
without any bound but the named assumptions on the constants.

*Fairness.* `collector` assumes that the GVL is handed round and that the thread
which has it makes a step (strong fairness of `Switch` and `LibraryStep`: a
thread that waits can lose the GVL between any two of its steps). MRI's timer
thread makes a running thread yield after its time slice and waiting threads
queue. `strbuilder` assumes only that a pass, which is straight-line code, is
executed; `frame_info` the same of a call of a naming function, `method_entry` of a pass of
the walk. `frame_heap` assumes that
calls go on and that a collection comes in the end while nobody holds the
wrapper, as allocation makes it (weak fairness: no loop of a call keeps the
collector out then).

*Deadlock* is checked in the runs of the collector, of `FrameHeap` and of
`MethodEntry`. In
`StrBuilder` and `FrameInfo` the
process may really stop (an overrun, a failed assertion), and the check is off.

### What the violated runs say

1. `strbuilder_duplicate`: when a C string meets the end of a growable buffer,
   `strlcat` has already written what fitted; the retry appends the whole string
   after that part (`strbuilder.c:79-83`). With 256 bytes this takes a long name.
2. `strbuilder_overrun`: `max_writesize - 1` wraps to `SIZE_MAX` once the fixed
   buffer is full (`strbuilder.c:107`).
3. `minimal_filename`: no code assigns `minimal_location_t.filename`, which
   `backtracie_minimal_frame_filename_cstr` reads (`backtracie_frames.c:937`).
4. `profile_frame`: `cme = (rb_callable_method_entry_t *)cme`
   (`backtracie_frames.c:452`) leaves `cme` NULL.
5. `bare_module`: the comment at `backtracie_frames.c:542-552` promises
   `Module$anonymous`; the loop at 562 skips the class it starts from and says
   `Object$anonymous`, unless the module has a singleton class. (The same instance
   as `frame_info`, without the frame in a singleton class that deviates too.)
6. `main_object`: `rb_global_variable` is called for the two other globals
   (`backtracie.c:72, 79`) and not for the one of line 65.
   If the VM marks the main object movable (an assumption about MRI: it marks the
   toplevel self with its other objects, and nothing else pins it), a compaction
   moves it away from the address the library compares with.

The properties of the passing runs are stated so that these do not hide
others: `LabelsAreWhole` and `GrowableEndsWithText` for growable builders,
`FixedHoldsBeginning` up to an overrun, and `NameIsDescription` for locations that
are not named by a module for which the code deviates. Five more deviations
from what a reader may expect have no run of their own, but are named where a
property says what the code does instead or what it leaves out:

- a thread that is marked to be killed runs its ensure clauses, where
  `caller_locations` gives nil (`backtracie.c:107`), while `README.adoc:55`
  speaks of an array: `Backtrace!Take`;
- a NUL in a Ruby name ends the text handed to Ruby (`strbuilder.c:122`):
  `LabelsAreWhole` speaks of the text up to the first NUL;
- the singleton class of an instance of a subclass of `Module` is named by the
  subclass (`backtracie_frames.c:582`), while the comment at 572-577 says that
  one of a module is named by the module: `NameIsDescription` leaves it out
  (`LosesModule`);
- a receiver with a singleton class is held by the locations of its frames
  (`backtracie_frames.c:338`), while `public/backtracie.h:59-65` says that only
  the receiver's class is, so as not to retain it: `NoReceiverIsHeld` leaves it out
  (`Abandoned`);
- the slice on Ruby < 2.5 drops one frame too many where the caller's own frame
  is in no backtrace, and gives nil for an empty answer (`backtracie.rb:36`):
  `LegacySkipsToShownCaller`.

## The proofs

All theorems hold for any values of the constants that satisfy the named
assumptions: any threads, stacks and code, any heap, any sizes and texts, any
hierarchy of classes. Every invariant that a passing run checks is a theorem, and
so are its refinements.

| module | theorems | property |
|---|---|---|
| `CollectorProofs` | `Invariance`, `TypeCorrect`, `Safe`, `Faithful` | `IInv`, `TypeOK`, `NeverCrashes`, `CapturesPresentStack` |
| `BacktraceProofs` | `Refinement` | `ImplementsBacktrace` |
| `WrapperProofs` | `WrapperRefinement` | `ImplementsWrapper` (of `Collector`) |
| `CallerLocationsProofs` | `ViewInvariance`, `CallersView`, `LegacyCallersView` | `VInv`, `CallerLocationsIsCallersView`, `LegacySkipsToShownCaller` |
| `FrameHeapProofs` | `Invariance`, `TypeCorrect`, `HeldFramesAreIntact`, `ArrayOutlivesCall`, `KeptLocationsAreIntact` | `IInv`, `TypeOK`, `WrapperIsIntact`, `NoUseAfterFree`, `KeptIsIntact` |
| | `ReceiversAreFreed`, `MinimalKeepsNoCode`, `WrapperRefinement` | `NoReceiverIsHeld`, `MinimalHoldsNoCode`, `ImplementsWrapper` (of `FrameHeap`) |
| `StrBuilderProofs` | `Invariance`, `TypeCorrect`, `FixedIsSnprintf`, `LabelsComeBackWhole`, `GrowableIsNotCut` | `IInv`, `TypeOK`, `FixedHoldsBeginning`, `LabelsAreWhole`, `GrowableEndsWithText` |
| `FrameInfoProofs` | `Invariance`, `TypeCorrect`, `NamingIsSafe`, `LabelsAndPathsAreThere`, `NamesAreDocumented` | `IInv`, `TypeOK`, `NamingNeverAborts`, `LabelsAndPaths`, `NameIsDescription` |
| `MethodEntryProofs` | `Invariance`, `TypeCorrect`, `FindsTheMethod` | `Inv`, `TypeOK`, `EntryIsMethod` |

**What is assumed.** The assumptions are named where the constants are declared,
and TLC evaluates them in the runs:

- `VMAssumption`, `CollectorAssumption`, `FrameHeapAssumption`,
  `StrBuilderAssumption`, `MethodEntryAssumption`, `FrameInfoAssumption`: types
  of the constants, that NULL is none of the things it stands beside, that the
  library's frames are frames, that a growable builder starts with at least a byte.
- `LegacyAssumption`: `backtrace_locations` is a C function that backtraces show,
  and a Ruby method is called with a next instruction.
- `HierarchyAssumption`: only a root has no superclass, and it has a name; what an
  inclusion stands for is a module; the class of an object is a class, and that of
  a module is no root; a singleton class is above all a `Class` exactly when it
  is that of a class, and a `Module` only when it is that of a module.
- `GoesByAssumption`, as above. These two also state equations of recursive
  functions, which TLAPS could only derive by an induction over data.
- `MinimalLocationAssumption`: NULL is not a minimal location.

No theorem has a hypothesis besides these.

### The collector's invariant

`TypeOK`, `NeverCrashes` and `CapturesPresentStack` are not inductive.
`NeverCrashes` needs that the count is still the number of frames of the
*present* stack of the target (`Capturing`), which needs that the target is a
thread that is still alive (`HasTarget`) and that no other thread can have moved
meanwhile: `Atomic`, a thread that is not at a safepoint holds the GVL. `TypeOK`
needs that the second loop's index and its last Ruby frame are places in the
captured frames (`Converting`), for otherwise a location has no line. The
argument is:

1. `StepIsLocal`, `OtherThreads`: a step of the GVL's holder leaves every other
   thread's call as it was, and these are all at safepoints, so their part of
   the invariant, which says something of shared stacks only off safepoints,
   is kept.
2. `ProgramStepOwn`, `LibraryStepOwn`: the thread's own part, one step per
   action. The pass of the first loop rests on `OneMoreCaptured`: adding index
   *n* to the frames shown makes it the last in rank and changes no other's.
3. `SwitchStep`: the GVL leaves a thread at a safepoint only.

### One answer, of one instant

`Refinement` has two parts. `LocateIsBacktrace` is about a stack and no
behaviour: if captured frames are those shown by a stack, in order
(`IsCapture`), the locations made of them (`Locate`) are its backtrace, although
`IsBacktrace` looks for the nearest Ruby frame in the stack and `Locate` among
the captured ones. It rests on ranks being an order isomorphism between the
frames shown and `1 .. Len(raws)` (`RankIncreases`, `EveryRankIsTaken`).

The second part adds to `IInv` what the second loop keeps (`Answering`): the
Ruby frame seen last is the one that locates the next captured frame, and every
location stored is right. Each step of a thread then does one of four things to
its request (`OwnEffect`): nothing, which is the program running in `Backtrace`,
or `Ask`, `Take`, `End`. `Take` is the end of the first loop or the check that
finds the subject dead; everything after it, however many threads run or die in
between, leaves the answer alone.

### The wrapper, and the caller's view

`WrapperRefinement` follows from `IInv` alone: a thread has captured no more
frames than it has looked at (`ShownFits`), and it has looked at fewer than it
counted. That the GVL stays with a thread between the making of its wrapper and the
end of its first loop is `StepKeepsGvl` for the steps of threads; a switch is a
`Yield` (`HandOverYields`), because `Switch` needs a holder at a safepoint, which
`capture` is not.

`CallersView` needs to know what the library itself has on the stack at each
step of a call (`LibraryTop`): when the first loop ends, two frames on
top of the stack that the call was made from. `Viewing` says that the answer is a
backtrace of that stack and those frames. `BacktraceShifts` says that
leaving out two frames more of a stack that is two frames higher changes nothing.

`LegacyCallersView` starts from the same `Viewing`, for a call of
`backtrace_locations` about its own thread, with one frame of the library on top and
none left out. A slice takes off entries and not frames, so each of the three must
be shown to be one: `BacktraceWithoutFirst` says that without its first entry a
backtrace is the one that leaves out everything up to the first frame shown. The
first entry is the library's frame and the second that of `caller_locations`
itself, which is shown because a Ruby frame that another frame stands on has
started (`Started`, an invariant of its own: a frame is pushed with a next
instruction, and executing moves it on). The third entry is whatever the caller's
stack shows first, and there is none if it shows nothing.

### The copied lookup

`EntryIsMethod` follows from `Environments` (the slot of a local environment
tells the method, through the svar if there is one; a slot that is not local
tells it or nothing, and never holds an svar) and `Walking` (the environment the
loop is at runs the same method as the frame it started from).

### The heap

`WrapperIsIntact` and `KeptIsIntact` compare the addresses in a location with where
the objects are now. They are kept by a collection if the objects survived, which
needs that they were live before (part of both properties) and that the mark functions
find them: `MarkFinds`, a mark takes addresses to objects, rests on `Distinct`, no
two objects share an address. They are kept while nothing is collected because only
a collection changes an address. Capture puts only live objects into a location,
because the program uses them (`UsedIsLive`). `Stages` ties the array to the step of a
call: `NoUseAfterFree` holds because a wrapper that a call holds is not freed.
`NoneDangles` says that what is there refers to nothing that is not, so that marking,
which follows references from live objects, meets live objects only (`MarkedIsThere`).

`Kinds` says what a location may refer to, namely code, method entries, labels,
modules and the two special objects, and that is what the theorems on what locations
hold need: no location refers to an ordinary receiver directly, and no minimal one
to code (`LocatedOnly`). What the program uses, together with all that objects of
other sorts lead to, is a set that is closed under references and has every marked
root in it, so nothing outside of it is marked (`AbandonedAreGarbage`, from
`MarkedIsLeast`). `CollectionsFreeGarbage` adds that a collection frees what is not
marked.
`WrapperRefinement` needs of `IInv` only the types and `Stages`.

### The builder

The invariant has a part for each way a builder is used. `FixedInv` is
`FixedHoldsBeginning` with the write pointer: it is at the end of the text or, once
the text was cut, past the buffer. `LabelInv` says that a growable builder that
takes Ruby strings holds the text and nothing else at every pass, for these are
only copied once they fit. `TextInv` covers C strings: a pass that did not fit has
left *t* characters behind the write pointer, `LeftOver(t)`, and the retry appends
after them. What is invariant in spite of that is that there is no NUL before the
end and that the last character written is the last one asked for, so the string
that is returned is not cut, though it may repeat a part.

### The names

That naming never aborts is an invariant of the pending calls: each has what its
function needs (`CanRun`), above all that a class whose superclasses are searched
has one (`HasSuperclass`). The names that classes have from the start are never
taken away (`NamesStay`), so a root is never searched.

`NameIsDescription` needs to know what a half-written name will be. `Meaning` gives
each pending call the text it contributes to the documented name, which for a
singleton class, say, is the description of what it goes by. The invariant
(`NameInv`) says that what is written is the beginning of the documented name, and
that the pending calls spell the rest, one after the other (`OnTrack`), for a
location that is named by nothing for which the code deviates (`AllAsDocumented`).
This is handed down from call to call (`Faithful`): what is named as documented goes by
something that is, too (`AsDocumentedGoesOn`). No
constant can be assigned meanwhile. Each function
is then shown to be right by itself: what it calls instead renders the same text
(`ModToSRenders`, `SingletonToSRenders`, ...). The walk up from an anonymous
class renders `FirstNamed` because a class and its superclass differ in their ancestors
by itself and by inclusions, which have no names (`FirstNamedAbove`).

### Model-checked only

The liveness properties: `EveryCallEnds`, `EveryAppendEnds`, `EveryNameEnds`,
`EveryWalkEnds`, `FramesAreFreed`. They rest on fairness, which
needs ENABLED, on which TLAPS does no reasoning. The properties of the six violated
runs are false. That the recursive functions of `FrameInfo` (`ClassReal`,
`ClassSuperclass`, `Ancestors`, `Root`, `Depth`, `OnTheWay`) satisfy what is assumed of them is
evaluated by TLC for the class graphs of the runs.

## Not modelled

- `debug_raw_location`, `debug_frame`, `Location#to_s`, `#fancy_to_s`,
  `backtracie_frame_wrapper_memsize`: presentation and statistics.
- `c_test_helpers.c` and `extconf.rb`: tests, and the choice of preprocessor
  definitions. Of the code for older Rubies, the lookup of a method entry and the
  slice of `caller_locations` are modelled; the other differences rename VM
  functions.
- Failures of memory allocation, which among others leak the buffer at
  `backtracie_frames.c:387`.
- On Ruby < 2.5 `caller_locations` in a thread that was killed applies `[3..-1]`
  to nil; `Sliced` leaves that case out, as nothing in the repository speaks of it.
- What `Init_backtracie_native_extension` does besides storing references:
  it defines modules and methods once.
- The memory of `frame_wrapper_t` (above).
- `class` bodies as frames of `Collector`: a frame is what decides its place in
  a backtrace, and `FrameInfo` looks at its name.

## Plan

Done: all components above, their runs, and the theorems about every module but
`MainObject`. What is left to prove, in this order:

1. The safety half of each liveness property, as an action property: a measure that
   every step of a call decreases (the frames left to capture and to convert for
   `EveryCallEnds`; the room that is missing for `EveryAppendEnds`; the environments
   that are left for `EveryWalkEnds`; the height of the pending classes for
   `EveryNameEnds`). Fairness then only has to bring the next step.
2. `MainObject`: that `MainIsRecognised` holds if the object is not moved, so that
   the missing registration is all there is to the finding.
