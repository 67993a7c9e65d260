# A verification project for musl-bsd

musl-bsd gives programs on musl libc what they expect of glibc and the BSDs: the
libraries `libfts`, `libobstack` and `libargp`, the headers `queue.h`, `tree.h` and
`cdefs.h`, and a *compatibility runtime* (`src/compat`) that lets programs linked
against glibc run on musl: a loader, a set of preloaded wrappers, and a bridge for the
parts of pthreads whose data structures differ.

This directory holds TLA+ modules of its parts with state worth checking, TLC
configurations for small instances, and proofs for TLAPS. Modelled are the walk of
`libfts`; the obstacks of `libobstack`; the parser of `libargp`; the lists of `queue.h` and
the trees of `tree.h`; of the compatibility runtime `pthread_once`, the resolver of the
native functions with the wrappers that forward to them, the static mutexes, and the round
trip of a program through the loader, `readlink` and `execve`.

| Module | What it is |
| --- | --- |
| `FtsWalk` | what a walk promises: the abstract specification |
| `Fts` | `src/fts.c`: one stream, its file system and the working directory |
| `MCFts` | trees, options and bounds for TLC |
| `FtsProofs` | a theorem about `Fts`: the working directory |
| `FtsCycleProofs` | three theorems about `Fts`: the table of directories, cycles, the list of `fts_children` |
| `ObjectStack` | what an obstack promises: a stack of objects |
| `Obstack` | `src/obstack.c` and the macros of `obstack.h`: chunks, the growing object, `obstack_free` |
| `MCObstack` | the instance for TLC |
| `ObstackProofs` | four theorems about `Obstack`: the heap, where the objects are, types, and that it implements `ObjectStack` |
| `ArgpOptions` | option tables, `src/argp/argp-parse.c`: groups, words, lookup |
| `ArgpCalls` | what a parser function is promised about the order of its calls |
| `ArgpParse` | `argp_parse`, from the first call of a parser function to the last |
| `MCArgpParse` | parsers and command lines for TLC |
| `ArgpParseProofs` | two theorems about `ArgpParse`: the indices into `argv`, and that it implements `ArgpCalls` |
| `Lists`, `OrderedSet` | what lists and trees promise: sequences and a set |
| `Queue` | the macros of `include/queue.h`, by the pointers they store |
| `QueueProofs` | three theorems about `Queue`: the pointers, loops that remove, and that it implements `Lists` |
| `Tree` | the functions of `include/tree.h`, by the pointers they leave |
| `MCContainers` | the lists and the trees for TLC |
| `Processes` | the processes and threads that `PthreadOnce` and `PthreadBridge` are about |
| `OnceContract` | what `pthread_once` promises to the threads of a program that forks |
| `PthreadOnce` | `pthread_once`, `src/compat/pthread.c` 451-545 |
| `PthreadOnceProofs` | seven theorems about `PthreadOnce` |
| `PthreadBridge` | the resolver, the wrappers and the static mutexes, `src/compat/pthread.c` 74-445 and 547-654, `glibc_pthread_abi.h` |
| `MCPthread` | both halves of `pthread.c` for TLC, with the reduction to the youngest process and fairness |
| `PthreadBridgeProofs` | eight theorems about `PthreadBridge` |
| `Reexec` | the loader, the preload list, `execve` and `readlink` of `/proc/self/exe` |
| `MCReexec` | programs, arguments and environments for TLC |
| `ReexecProofs` | two theorems about `Reexec`: the cached path is true, and a program runs itself again |

`PROJECT.json` lists the runs, the lines each definition stands for, a mutant that breaks
each property, and the hazards of the code with the properties aimed at them.

## Inventory

| Component | State | Operations | What is hard | What makes it correct |
| --- | --- | --- | --- | --- |
| libfts (`fts.c`) | stream: current entry, lists of siblings, a list made by `fts_children`, one path buffer, a table of directories being walked; the working directory of the process; descriptors | `fts_open`, `fts_read`, `fts_set`, `fts_children`, `fts_close` | calls in any order; a system call that fails half way; another process renaming; links that loop | every entry once and in order; access path and working directory agree with the entry; no cycle entered; no freed entry used; the working directory and the descriptors restored |
| obstack | chunks, the growing object | begin, newchunk, free, printf | an object that moves; empty objects; freeing into an earlier chunk | objects keep their bytes through growth; free restores the state of the object's begin; no chunk is lost |
| argp parser | groups, the positions in `argv`, `state.next`, quoted arguments | `argp_parse`: init, options, arguments, end, success/error, fini | order of callbacks over nested parsers; arguments put back; `argv` permuted under way | each word goes to one parser, in the order the flags ask for; the special keys come when promised |
| argp formatted stream | buffer, column, margins | write, update, ensure | short writes; a line longer than the buffer | no byte lost, twice or out of order |
| argp help | none that lives | `--help`, usage | layout | wording only |
| `queue.h`, `tree.h` | the caller's lists and trees | insert, remove, iterate, splay, rebalance | pointers to pointers, removal while iterating, masked links, mirrored cases | as a sequence, as a set; balance |
| `pthread_once` | the caller's control word, `once_pid`, `once_generation` | one call | threads, futex, fork while another thread initialises, cancellation | the initialiser runs alone, once, before anybody returns; nobody sleeps for ever |
| native resolver | `resolver_status`, `resolver_active`, table of pointers | every forwarding wrapper resolves first | threads, fork, re-entry from the dynamic linker | nobody calls through a pointer not resolved; no waiting for oneself |
| static mutexes | the words of a glibc mutex | conversion at first use | two first users | converted once, before any lock |
| loader, preload, exec, readlink | environment, cached paths and pointers | start a program, re-execute it | lazily filled caches shared by threads; failures that leave a cache half filled | the same program is started again with the same preloads |
| dlfcn, fs64, mount, math, time, string, version, glibc, core, facade, error | next to none | one forwarded call each | conversions | - |
| `cdefs.h`, overlay headers, `tools/`, `meson.build` | none | - | - | - |

How they interact: a glibc program is started by the loader, which executes musl's loader
with the wrappers preloaded; each wrapper resolves the native function lazily (the
resolver, or a static pointer) and forwards. `pthread_once` cannot forward, since glibc's
control word means something else to musl: it is implemented in the bridge on raw atomics
and futexes. A program that executes `/proc/self/exe` would run musl's loader; the wrappers
of `readlink` and `execve` lead it back to the program and through the loader again.
`libfts`, `libobstack` and `libargp` are libraries of their own; argp's parser writes its
help through the formatted stream. `libfts` shares with its caller the entries it returns,
the working directory of the process, and the file system with everybody.

## `Fts` and `FtsWalk`

`Fts` describes one stream. `s.frames` is the chain from the root to `fts_cur`, each frame
with the siblings still to come; `s.child` is `fts_child` (`live`; `orphan`: its parent was
freed; `freed`: the pointer dangles); `s.path` the path buffer, which is also the access path
of every entry of a walk without change of directory; `s.cycles` the table of directories;
`s.cwd` the working directory. `lost`, `twice` and `ub` count what the program cannot see:
descriptors lost, descriptors closed twice, use of freed memory. The file system is a function
from directories to names to inodes, and links have a target. `asks` is what this program
wants of its stream: a member of `Walks`, with the file systems, the options, the
instructions and the lists it asks for.

One action is one call. `fts_read` is split by what it finds: `ReadAgain`, `ReadFollow`,
`ReadSkip`, `ReadPushFails`, `ReadBuild` and `ReadListed` (descend, with `fts_build` or with
the list made by `fts_children`), `ReadSibling`, `ReadRoot`, `ReadUp`, `ReadDone`, `ReadEnd`.
`fts_stat` is `Stat` and `EntryFor`, `fts_build` is `Build`, `fts_safe_changedir` is
`ChangeDir`, `fts_load` is `Load`. `Set`, `SetListed` and `SetRoot` are `fts_set` on the current
entry, on an entry of a list, and on a root before the first read; `Children` and `Close` the
other two calls. `Rename` is another process. Every call may be struck by one kind of fault
(`Faults` gives the calls and the kinds).

Abstractions: names are numbers, in the order of the walk; one device; no `FTS_XDEV`,
`FTS_NOSTAT`, `FTS_SEEDOT`, `FTS_WHITEOUT`; path buffers are long enough; levels are far from
`SHRT_MAX`; a fault strikes every system call of its kind in a call; renames happen between
calls; the `fstat` after a `fchdir` in `fts_safe_changedir` succeeds; a failing allocation in
`fts_build` has the effect of a failing `readdir` and is not told apart from it. A failing `fstatat`
of an entry has it too (`ListingFails`): it leaves `errno` set, and the test after the last entry (752)
frees the list and stops the stream. Only the first one counts since all calls fail: a link that leads
nowhere, later in the directory, would clear `errno` (827) and with it the failure of an entry before it.

`FtsWalk` is what a caller may rely on when nobody interferes: entries in the order of their
directories, each once; a directory in preorder, its entries, the directory in postorder; a
directory already being walked is a leaf; a directory is skipped on demand. `Fts` implements
it (`WalkSpec`) under the mapping at its end: a directory returned in preorder counts as
entered although its list is only read by the next call.

Runs (the trees: `/1` is home, `/1/1` and `/1/2` the roots, two entries at most in a
directory, directories c and d anywhere below the first root, the other places empty, a file,
or a link to the first root):

- `fts` (126 000 states): walks that nothing disturbs, from two roots: logical, and physical
  with `FTS_NOCHDIR`, over 810 trees; physical with changes of directory over the 704 of them
  without an empty directory (see below). The caller skips, reads again, lists with and without
  stat. `AccessPathResolves`: the access path of the returned entry, from the working directory,
  leads to the object that was examined. `CycleIsAncestor`: `fts_cycle` is a live entry above
  for the same directory, and the walk is never in a directory twice. `SoundDirectoryRead`: a
  sound directory is read. `CwdKept`: `FTS_NOCHDIR` leaves the working directory alone, and a
  stream that is closed without an error has restored it. `WalkSpec`. `WalkEnds`: steps of
  `fts_read` that return something new do not go on for ever. This needs no fairness: it is
  about a caller that goes on reading.
- `fts_hostile` (145 000 states; one tree, a third name free for renames): one mishap, a fault of
  nearly any kind in any call or a rename, with `FTS_FOLLOW` and `FTS_SKIP` on current and listed
  entries. `CwdFollowsWalk`: the process is in the directory of the returned
  entry, unless that directory could not be entered. `CycleTableLive`: the table names the
  directories being walked. `NoStaleList`: no list is used after it was freed. `CwdKept`. Two
  faults of `fts_children` are left out (`MostFaults`): after a failing change of directory
  `FTS_DONTCHDIR` stays set, which breaks `CwdFollowsWalk` and is the run `fts_dontchdir`; a
  failing `open(".")` leaves a dangling list, which breaks `NoStaleList` and is listed under the
  hazards.
- `fts_dontchdir`, `fts_empty_directory` and `fts_follow` find violations, see "Divergences met".

Four directories below the roots and two names are enough for a sibling before and after a
directory, a directory in a directory, and a loop over one or two levels; two roots for the way
from one to the next, one of them absolute. One mishap at a time, since each failure path is
taken on its own. CHECK_DEADLOCK is off in these runs: after `fts_close` there is nothing left
to do. No fairness is stated for `Fts`.

Proved (`FtsProofs`, for every file system, tree of links, option, root, instruction, list,
fault and rename): `WorkingDirectoryKept`, `Spec => []CwdKept`. The assumption is `Stdin = None`:
descriptor 0 is not open on a directory. It is needed because `fts_children` at a root calls
`fchdir(fts_rfd)` (779) under `FTS_NOCHDIR` too, when `fts_rfd` is 0. `CwdKept` is about the end
of a walk and not inductive: `IndInv` says that under `FTS_NOCHDIR` the process is at home and
there is no descriptor to come back by, that otherwise `fts_rfd` is home all along, and that a
closed stream is at home. The lemmas go along the code, one for each helper: either it leaves
options, `fts_rfd` and the working directory alone (`Stays`), or it leaves the working directory
alone under `FTS_NOCHDIR` (`Keeps`); the steps compose them.

Proved (`FtsCycleProofs`, for every file system however its directories and links lead into
each other, every option, root, fault and rename): `TableLive`, `Spec => []CycleTableLive`;
`CyclesAreAncestors`, `Spec => []CycleIsAncestor`; `NoListStale`, `Spec => []NoStaleList`. Their
hypothesis `NoneAgain` is about the program: it does not give `FTS_AGAIN` to a directory, nor to
an entry of a list, as in the runs. It is needed: `fts_stat` of a directory that is entered in the
table finds the directory itself, and reports a cycle with itself (see "Divergences met").
`NoListStale` also leaves out a failing `open(".")` in `fts_children`, as `fts_hostile` does. The
inductive invariant `WalkInv` is `CycleInv`, of four parts: the frames and the list have the shape
`fts_build` gives them (`Shaped`); what `fts_stat` has said of each entry, the waiting ones
included, is true of the frames below it (`SoundFrames`); an entry of the table is a
directory at its level, by the same inode (`SoundTable`); a live list belongs to a
directory in preorder that is in the table (`SoundChild`). Entries waiting are part of it since they were
examined when their list was read and become current later: the directory they were compared with has to be there
still. That the list is fresh and nothing was used that was freed (`Fresh`) is added to it for the third
theorem. `AccessPathResolves`, `SoundDirectoryRead`, `CwdFollowsWalk` and the refinement are only
model-checked: what a path resolves to is a fold over names, and its value on every path needs
induction; `CwdFollowsWalk` holds of the mishaps the run allows and not of all.

## `Obstack` and `ObjectStack`

`h` is the `struct obstack` with what it points to: the chain of chunks (first to current,
`prev` is the order), `object_base`, `next_free`, `maybe_empty_object`, the heap (chunks
allocated and not freed) and the memory. `given` is what the caller has: addresses and sizes
of the finished objects. One action is one call: `Grow` (all macros that append), `Blank`,
`Shrink` (`obstack_blank_fast` with a negative length), `VPrintf` (room for a NUL too, and a
second pass that may fail after the object has moved), `Finish` (alignment, the limit as the
bound, `maybe_empty_object`), `Free` (the macro for the current chunk, `_obstack_free` for
others), `FreeGrowing`, `FreeAll` (`obstack_free(h, NULL)`, after which the code goes on
working). `NewChunk` is `_obstack_newchunk`: size, `MoveTo` (copy), and `DropOld` when the
object was alone in its chunk (`Alone`).

Addresses are small numbers and a chunk begins wherever the allocator likes among `Starts`:
before or after others, and right at the limit of another. The caller writes another byte at
each place of each object, so that a byte in the wrong place is seen; a byte of freed or unused
memory is `Junk`. Left out: a failure handler that returns (the code goes on to use NULL, and
the interface asks for a handler that does not return); sizes near `SIZE_MAX`; addresses inside
of objects given to `obstack_free`; a chunk size too small for header and alignment
(`ObstackAssumption`; `obstack_begin` does not check it); `obstack_memory_used`; `alloc_failed`,
which nothing in the code sets.

Run `obstack` (three finished objects, sizes up to 2, chunks of 3 to 5 bytes at four places,
490 000 states): `ObjectsPlaced`: what the caller has, empty objects and those at a limit
included, is inside of a chunk of the chain, in order, and aligned if not empty; `ChunksOwned`:
the chain is the heap; `ObjectsKept`: the obstack implements `ObjectStack`, under the mapping
that reads the objects from memory. A chunk of the smallest size holds one object and empty ones
beside it, at its start and at its limit; three objects and one that grows spread over up to
three chunks, also with an empty object before one that has to move, the case
`maybe_empty_object` is for. No fairness: nothing has to happen.

Proved (`ObstackProofs`, for any sizes of chunks, headers, objects and slack, any alignment, any
places and any number of objects, from `ObstackAssumption`): `AllChunksOwned`,
`Spec => []ChunksOwned`, and `AllObjectsPlaced`, `Spec => []ObjectsPlaced`; the second says that
`obstack_free` of an object finds its chunk and never reaches `abort`. `IndInv` is `Good`, of five
parts: chunks of the chain have room for a header, do not overlap and are the heap (`Chain`); the
object that grows is in the last chunk, between its first base and its limit (`Current`);
finished objects are in chunks or null pointers (`Placed`), later ones in later chunks or behind
(`Ordered`); those in the last chunk end before the one that grows, and none is empty unless
`maybe_empty_object` says so (`Behind`). The last part is what the two properties need and do
not say: `_obstack_newchunk` frees the old chunk when the object begins at its first place and the flag is
clear, and that nothing else is in it follows from the flag only. An address is in one chunk
(`TheHolder`) since a chunk's first object is after its header, so that a limit shared with the
next chunk is not in both.

Proved too (under the same assumption): `ObstackTyped`, `Spec => []TypeOK`, and
`StackImplemented`, `Spec => ObjectsKept`: no byte of an object is lost or changed when the object that
grows moves, when its old chunk is freed, and when objects are given back. The invariant is
`MemInv`, `IndInv` with a typed memory (`Stored`) and the bound on sizes (`Sized`). The argument:
no byte of a finished object is where the growing object is or may come to be
(`ObjectSpace`), so that writing does not touch it; `_obstack_newchunk` copies the growing
object to a chunk apart from all others, and frees only a chunk that holds no finished object with bytes
(`AloneThere`, from `Behind`); and each call then is the call of `ObjectStack` of the same name.

## `ArgpParse`, `ArgpOptions` and `ArgpCalls`

`ArgpParse` is one call of `argp_parse`. `words` are the strings of the command line, `flags` the
flags; `parser` is `struct parser` with its state block: the groups, how many arguments each has
processed, `argv` as a permutation of the words, `next`, `quoted`, `args_only`, and getopt's
`first_nonopt`, `last_nonopt` and `nextchar`; `call` is where the functions are, with the group
their loops have reached and the results they pass. `heard` and `history` record what the
parser functions were told and what was delivered.

One action is one call of `parser_parse_next`, or what lies between two calls of parser
functions: `InitGroup` and `Initialised` are `parser_init`; `ShortOption` is a letter of a
cluster (886-943); `OnlyArguments`, `AlmostDone`, `SkipArgument`, `StopAtArgument`,
`ArgumentInOrder`, `Quote`, `LongOption` and `StartShort` the rest of `parser_parse_next`, each
after the indices are put right (`Resync`, with `Exchange` and `SwapSegments`, loop by loop);
`OfferArg`, `OfferArgs` and `NobodyTook` are `parser_parse_arg`; `Finalize`, `NoArgs`, `End`,
`Success`, `Error` and `Finish` are `parser_finalize`. `ArgpOptions` has what tables mean:
`ConvertOptions`, `FindShortOption`, `FindLongOption` with abbreviations and aliases, `Classify`.
A parser function answers as it likes: success, `ARGP_ERR_UNKNOWN`, or an error of its own, and
may set `state->next`; argp's own parser functions (`--help`, `--version` and so on) do what
their code does.

Abstractions: a word is its dashes, its letters and whether a value follows; a handler that fails
leaves `next` alone, and none moves it out of `argv`; `MaxMoves` bounds how often it goes back;
tables are never NULL in an argp with a parser; no inputs, hooks, messages or failing allocation.

`ArgpCalls` is the order of the calls that `argp.h` gives: INIT parents first, NO_ARGS to
those without arguments, END and SUCCESS children first and only without a failure, ERROR
instead, FINI last; an error answer to SUCCESS, after which some parsers hear neither SUCCESS nor
ERROR, is allowed for.

Run `argp` (540 000 states; all lines of up to four words over five for one parser; lines of two
over the fifteen names for a wrapper, a parent, its child and argp's own parsers; each ordering,
`ARGP_LONG_ONLY`, `ARGP_PARSE_ARGV0`; one move): `Indices`: `exchange` stays inside `argv`;
`Delivered`: `argv` stays a permutation, no word is lost or read twice however `next` is moved, and a
program that does not steer is given exactly what the line says, read from left to right
(`Expected`), in the order the flags ask for; `CallsSpec`: `ArgpParse` implements `ArgpCalls`;
`Terminates`. Four words are an option with its argument between two arguments, on either side of
`--`, with two segments to exchange. Fairness: weak on `Next`, for `Terminates` only: the call
runs on one thread, and parser functions return. CHECK_DEADLOCK is off: the call ends. Run
`argp_refused` finds a violation, see below.

Proved (`ArgpParseProofs`, for any option tables, command lines, flags, answers and moves):
`IndicesInOrder`, `Spec => []Indices`, from `CasesAssumption`. `Indices` is about the struct after the indices were put
right; between the calls the parser function may have moved `next` anywhere. `IndInv` therefore
says that the segment of skipped arguments is in order with itself, not with `next`, that it is
empty unless the ordering is to permute and arguments are not all that is left, that no cluster
is being read then (`Sound`), and that a word is there when it is offered (`Offering`).

Proved (`ArgpParseProofs`, for the same, and any tree of argps): `CallsKept`, `Spec => CallsSpec`: the parser
functions hear the special keys in the order `argp.h` promises. The assumptions are
`ArgpsAssumption`, the types of the tables, and `TreeAssumption`: the groups that
`convert_options` makes are a preorder of the tree, in which each argp occurs once. It is an
assumption, which TLC evaluates for the argps of the runs, since `ConvertOptions` is a recursive
function; an argp that two parents share would be called once for each, and `ArgpCalls` could not
tell the two apart. The invariant is `CallInv`: at each place of `argp_parse` (`Phase`), what the
parser functions of the groups behind the loop variable and before it have heard last, who of them
was told that there are no arguments (`ToldNoArgs`), and before FINI the outcome that all of
them have heard, or the error that cut the SUCCESS loop short (`Verdict`). A parser function without a
group, or a group without a parser function, is a stutter of `ArgpCalls`. `Delivered` and
termination are only model-checked: the loops of `exchange` and the reading of a line (`Expected`)
are recursive functions, and what such a function computes needs induction over data.

## `Queue` and `Tree`

`Queue` has the macros of `queue.h` that change a list, of the kinds SLIST, LIST, SIMPLEQ,
XSIMPLEQ, TAILQ and STAILQ, as the stores they make, in their order: memory maps addresses of
fields to elements, null, addresses of fields, or masked links. `XSIMPLEQ` masks with the
cookie of the head. `LoopBegin`, `LoopDrop`, `LoopStep` and `LoopEnd` are the `_SAFE` loops, in
both directions where there are two, which may take out the element at hand. The fields of an
element in no list are `Stale`, whether the macro invalidates them or not.

`Tree` has the functions of `tree.h`: `RbInsert` with `InsertColor`, `RbRemove` with
`RemoveColor` (a node with two children, one, or none), `RbFind`, `RbNFind`, `RbNext`, `RbPrev`,
`RbMinMax`; `Splay` and `SplayMinMax` with the links of `SPLAY_LINKLEFT` and `SPLAY_ASSEMBLE`,
`SplayInsert`, `SplayRemove`, `SplayFound`, `SplayNext`. The mirrored branches of the code are
one definition with the side as a parameter. `RB_AUGMENT` is empty.

`Lists` and `OrderedSet` say what the names promise. Run `containers` (four elements in two
lists of each kind; eight elements in a red-black tree; six, two of them with one key, in a
splay tree): `WellLinked`: back pointers and tail pointers agree with the list, and the links of a
tree with each other; `LoopSeesAll`: a loop that removes under way visits every element once;
`Balanced`: no red node has a red child, and every way down has as many black nodes, so that removal
rebalances; `Lookups`: every search and neighbour of the red-black tree is right; `ListsSpec` and
`SetSpec`: the refinements. Four elements are a neighbour on either side of two that are joined or
exchanged; eight make red-black trees of up to four levels, in which a removal rebalances below
the root and goes on at the parent. `MCContainers` runs one or the other. Elements and heads of lists are alike
(SYMMETRY; no liveness is checked). A removal from an XSIMPLEQ with a cookie is left out
(`RemoveMasked`), see below.

Proved (`QueueProofs`, for all elements and heads, under `QueueAssumption`: the elements are
finitely many, and elements, null, addresses and masked pointers are different things; and for
callers that do not remove from an XSIMPLEQ with a cookie, `~RemoveMasked`): `WellLinkedThm`,
`LoopSeesAllThm`, and the refinement, `ListsSpecThm`. The invariant, `ListsInv`, is that there is a
sequence of elements per head, with no element in two places, that memory represents, and that a
loop that is under way stands at some element of the list it began with and has the others
still before it in the list as it is now. `WellLinked` alone is not inductive: it does not say that a
list ends, or that two do not share an element. The argument is in four parts. (1) Memory that
represents lists still does after an element is put behind a field (`InsertedLinked`), taken away from
behind it (`RemovedLinked`), exchanged (`ReplacedLinked`), and after a list is put behind another
(`JoinedLinked`), whatever the kind: each states what the stores of the macros may change and
what they must not. (2) Each macro of each kind makes one of these changes (`PutSingle` to
`JoinBoth`, `InsertHeadDoes` to `JoinDoes`). (3) The walk of a list, a recursive function, gives the
sequence that memory represents (`WalkIs`, from the existence of the function and by descent on the
elements left), and a tail queue read backwards gives it in reverse (`BackRead`). (4) The loop
(`BeginIs`, `StepIs`, `DropIs`): what it removes is never among what it has yet to pass, since
no element is in a list twice.

Nothing is proved of `Tree`: its definitions on trees are recursive operators, which the provers
cannot look into.

## `PthreadOnce` and `OnceContract`

State: per process the control word, `once_pid` and `once_generation`; per thread a step
`pc` and the locals of the code (`seen`, `generation`, `current`). One action is one atomic
operation or one system call. `FirstLoad` is the lock-free test (515-517); `GenLoad`,
`GenRead`, `GenCas`, `GenAdd`, `GenPublish` are `process_once_generation` (471-498);
`CtlLoad` and `CtlCas` the loop (519-532); `InitReturns`, `PublishDone`, `Wake` the rest of
the winner's way (534-540); `FutexWait` and `Interrupted` the wait (543); `Cancel` and
`CancelWake` the cleanup handler (500-506). `Fork` copies the memory of a process and one
of its threads. Loops that only yield and load again are steps that wait.

Not modelled: more than one control word (they share the generation only); the wrap of the
generation after 2^30 forks; process ids used twice; fork in the middle of `pthread_once`
other than from the initialiser (a signal handler). A process forked from inside the
initialiser is modelled, but the exclusion properties leave it out (`clean`): its
initialiser runs on under the old generation while a second call starts another.

`OnceContract` is what a caller sees: a thread is out of `pthread_once`, in it, in `init()`, served,
or gone; `init()` begins when it has not completed and, in a process that is `clean`, nobody is in it; a
call returns when its own or another `init()` has completed; `fork` copies all that.
`PthreadOnce` implements it (`OnceSpec`): the claim of the word is the beginning of `init()`, the store
of ONCE_DONE its completion, the reset by `once_cancel` its abandoning; whether `init()` has completed is
read off the control word, the stage of a thread off its `pc`. The search for the generation, the waits and the
wake-ups are not seen. The contract has no fairness: that calls end is a property of its own.

Run `pthread`, its half `once` (2 process ids, 2 threads, 17 800 states): the initialiser is never run by two
threads and completes once (`InitOnce`); the contract holds (`OnceSpec`); a sleeper always has somebody who will
change the word and wake it, or is waking it now (`SleeperHasWaker`); no call returns before a
completed initialiser (`ReturnAfterInit`); DONE stays (`DoneIsFinal`); every call ends
(`CallReturnsInYoungest`), unless a fork moves the run on to the child; and
`IndInv`, the invariant of the proofs. The run checks `pthread_once` and the
bridge in one module, `MCPthread`, where a behaviour is one of the one or of the other: they share the
process ids and the threads, but no state; the names that both need have `Bridge` in front of them in
`PthreadBridge`. Two threads are a winner and one that races it, sleeps or comes late; a child is
what a word inherited in progress needs. Larger instances add nothing that the proofs, which
are for all of them, leave open, except for liveness. Only the youngest process runs:
after a fork the processes share nothing, so an older one can do nothing to a younger one,
and each of its own behaviours is seen while it is the youngest.

Fairness (`OnceFairness`): weak, per thread, on the thread's own steps: the scheduler runs every thread that can
run, and `init()` terminates. Nothing is assumed of calls, forks, cancellation or signals.
CHECK_DEADLOCK is off: a process may have lost its threads to cancellation.

Proved (`PthreadOnceProofs`, for all sets of process ids and threads; the one assumption,
`PidsAssumption`, says that process ids are positive and that there is a first process):
`TypeCorrect`, `Invariance`, `AtMostOnce`, `NoForgottenSleeper`, `NoEarlyReturn`, `DoneStays`
and `ContractImplemented`. The properties are not inductive: that two threads cannot both claim the
word depends on both knowing the *final* generation of their process. `IndInv` says, per
process, that `once_pid` names only processes that exist (`PidKnown`: a child does not find
its own number), that one thread at most holds the right to add (`OnePublisher`), that a
thread past the generation holds the process's own (`GenKnown`), that a word inherited in
progress is older (`WordIsOld`), that a word of the current generation has a claimant
(`WordIsClaimed`), and what a thread may expect of the word it read (`CurMatches`,
`SleeperWord`, `CleanClaim`, `CleanCount`, `DoneAfterInit`). The proof uses that a step
touches one process (`ThreadStepIsLocal`, `UntouchedKeeps`), goes through the steps of a
thread (`OwnKeeps`) and looks at the child after a fork (`ChildStarts`). The refinement goes through
the same steps (`ThreadStepMapped`, `ForkMapped`): the one that needs the invariant most is the
compare-and-swap that succeeds, which finds the word a thread has read, neither done nor of the process's
own generation, so that nobody of a clean process is in `init()` (`CurMatches`, `CleanClaim`). Liveness is
only model-checked.

## `PthreadBridge`

Every wrapper of the bridge first calls `resolve_native` (139-250), then, if it is given a
mutex that a glibc program initialised statically, `glibc_prepare_static_mutex`
(`glibc_pthread_abi.h` 103-136), then the native function by its pointer.

State: the words that the threads of a process share: `resolver_status` (a state and a process
id in one word), the table of `pointers`, the words 0 and 4 of one mutex (`type`, `kind`); per
thread the flag `resolver_active` and its calls. A thread is in several calls at once when
`dlsym` calls a wrapper (the dynamic linker locks a mutex) or a signal handler does
(`sem_post`): `calls[t]` is the stack, `depth[t]` its height, and only the innermost call
steps. A call has a step `pc` and the locals of the code that live on: the status it has seen,
how many functions it has looked for, whether it has a mutex, the kind it has read. One action
is one atomic operation or one `dlsym`: the `Load...` actions are the branches of the loop
(149-171), `Takeover` the compare-and-swap on a foreign status (164), `Claim` the one on the
free status (176), `Mark`, `Dlsym`, `Unmark`, `Publish` the resolver's way (183-249);
`LoadType`, `LoadKind`, `CasType`, `ClearKind` the conversion; `Native` the native function.
A yield followed by the same load is no step. `BridgeFork` goes on as the child: one thread, no
calls, the same words, another process id. Only one process is kept, since processes share
nothing: what the parent does later is what it does in a run without that fork.

Not modelled: a fork from inside a call; process ids used twice; signal handlers that take
mutexes (not async-signal-safe); `pthread_mutex_destroy`; several mutexes (they share the
resolver only); what the native functions do. Which functions are absent, and the kind the mutex was
compiled with, are chosen at first and do not change.

Run `pthread`, its half `bridge` (a process and its child, two threads, two functions of which any are absent,
calls nested twice, a mutex of the normal, the recursive and an unsupported kind; 96 000
states): `OneResolver`, `ForwardResolved`, `MutexTyped`, `StatusFinal`, `OutermostSucceeds`,
`CallEnds`, and `BridgeInv`. Two threads are a resolver and one that waits, or a first and a second
user of the mutex; depth two is a resolver and a call from its `dlsym` or from a handler; two
functions make a state in which one is there and one is not. The error-checking kind goes the
recursive kind's way. CHECK_DEADLOCK is off: calls are made or not.

Fairness (`Fairness`): strong, for each thread and each depth of its calls. A call can be
interrupted by handlers again and again, so weak fairness would let a call starve whose
handlers never stop; strong fairness says that signals leave time to the thread, that `dlsym`
and the native functions return, and that the scheduler is fair. `CallEnds` says that every
call ends *unless* a thread is trapped: a handler that interrupts the resolver after its claim
and before its flag, or after the flag is reset and before the result, waits for the thread it
runs on. This is how the code is (the flag and the status are two words); it is listed
under the hazards, and no text of the repository says otherwise.

Proved (`PthreadBridgeProofs`, for any process ids, threads, number of functions, kinds and
depth, from `PidsAssumption`: process ids are positive, and `BridgeAssumption`: kinds are numbers
and 0 is one):
`TypeCorrect`, `Invariance`, `ResolverAlone`, `ResolverThere`, `ForwardSafe`, `MutexSafe`,
`OutcomeFinal`, `OutermostRight`. That one call resolves at a time is inductive only together
with who may hold the status: `BridgeInv` says that the status names a process that exists
(`StatusPidUsed`: a child finds another number than its own), that a call that resolves has
the status running under its own process (`ResolverRuns`) and the converse
(`WaitedForResolves`), that the flag belongs to a call in `dlsym` (`ActiveResolves`), that what
was looked for is there or absent (`SoughtFound`), that the result is right (`ReadyComplete`),
that a call goes on only after it (`BeyondReady`), that a call that is about to take over has
seen a foreign status (`StatusForeign`), that there is nothing above the innermost call
(`NoCallAbove`), and what the words of the mutex tell a call at each step (`MutexWords`,
`MutexCalls`). The proof handles at once the steps that change only the call that takes them
(`LocalStep`, `OwnSteps`, `BeginStep`), then the takeover, the claim, the steps of the
resolver, its result, the conversion, and the fork. `CallEnds` is only model-checked.

## `Reexec`

The loader is the interpreter of a glibc program: the kernel starts it with the program
(`Started`); it checks, puts the list of preloads together and executes musl's linker with
`--preload`, the list, `--argv0`, the name, `--` and the program's path (`Load`, `Linked`,
`NewArgv`). From then on `/proc/self/exe` is the linker. `img` is what the process executes:
its stage, the path it was started by, the program, the true `exe`, the command line, and what the
program sees: its arguments and preloads. `exe_path` is the static buffer of `readlink.c` that
the wrappers keep the answer in, byte by byte; `linker_path` says whether the other static is
set; `call` has a step and the locals of each thread's call.

One action is one access to `exe_path`, or the call of a native function: `Readlink` (the test
of the first byte, 76-79), `Realpath`, `Link` and `EndLink` (the linker's own path is stored),
`Compare`, `FindTarget` (the word after `--` on the command line replaces it), `Fail` (what was
stored is taken back), `Copy`; then `ExecSelf` or `ExecFails` for `execve` of `/proc/self/exe`.
`Exec` starts another program, natively or by the loader. `Setenv` and `Chdir` are the program's.
`raced` records that a thread has stepped while another was filling the buffer.

Abstractions: characters are strings, and paths a few of them; the argument vector is never
empty and its first word not `--`, and neither is the path of the linker or of the core preload
(`DashesAssumption`); the caller's buffer is large enough; native functions are
found; the environment of the new program is the one of the process; which credentials the
loader refuses is left open (`Load` may refuse).

Run `reexec` (two threads, a path of the same length as the linker's and one that begins like
another, three environments, two argument vectors one of which has a `--` itself; 135 000
states): `CacheTrue`: between the calls `exe_path` is empty or the program's path, also after calls that
failed half way; `RunsItself`: `execve("/proc/self/exe")` runs the same program, with the
arguments it gives and the preloads of its environment, any number of times, unless a thread used
the buffer while another was filling it, or the program was started by a relative path and has
changed its directory. `PathMax` is 5, more than any path; `CmdSize` 40 holds the words up to the
program's path. No fairness: nothing has to happen. CHECK_DEADLOCK is off: a process may end.
Run `reexec_threads` drops the first excuse and finds a violation.

Proved (`ReexecProofs`, for any threads, programs, arguments and environments): `CacheIsTrue`,
`Spec => []CacheTrue`, and `SelfRunsItself`, `Spec => RunsItself`. Both have the hypothesis `Fits`:
the linker's path, the list of preloads, `argv[0]`, the program's path and the words between fit
into the bytes of the command line that `readlink.c` reads (8 KiB); the instance of the run
satisfies it, and with `CmdSize` 20, which does not, TLC finds `CacheTrue` violated: the path is
cut. The invariant, `Held`, which TLC has checked on that instance, says of the image (`ImageOk`) that it
is the program itself, or the linker with a command line that the loader or `execve` made for the
program (`CommandLine`); of the array (`ArrayOk`) that a native program only ever has its own path there,
so that it never asks for a target; and, as long as nobody has raced (`SoloOk`), that a thread
that fills the array is alone in it and has written it as far as its step says, and that
otherwise the array holds the program's path, or is empty and nobody is about to copy it. The last
clause is why a failure half way does no harm: `Fail` empties the array, and the threads that
are left begin again. `TargetIs` is the round trip through the linker's words: the first `--` is
the eighth word, and the ninth is the program's path (`LineIs`). Where the words start is a
recursive function on the numbers of the words (`Starts`); that it exists is shown at the least length at which it would not (`CountsExist`, by
well-founded induction on a set of numbers, `LeastIs`).

## Divergences met

Found by a run, each against a line of the repository that `PROJECT.json` quotes, and reproduced
with the compiled code where it could be:

- `fts_dontchdir`: a directory that `fts_children` fails to enter keeps `FTS_DONTCHDIR`; when
  `fts_read` then enters it, the walk does not leave it, and sibling directories after it cannot be
  opened (`fts.c` 646, 389, 488).
- `fts_empty_directory`: in a walk that changes directory, the process stays in an empty
  directory, and sibling directories after it cannot be opened (`fts.c` 764-786).
- `fts_follow`: a link followed with `FTS_FOLLOW` in a physical walk that changes directory cannot
  be opened and loses its descriptor (`fts.c` 343, 585-590).
- `argp_refused`: under `ARGP_IN_ORDER` a short option that its parser refuses, after an argument
  that was accepted, ends in success: the path of short options (`argp-parse.c` 886-943) does not
  say that it was an option.
- `reexec_threads`: a thread that asks for `/proc/self/exe` while another asks for the first time
  is given the linker's path, and executes the linker (`readlink.c` 76-91).

Met while modelling; the runs stay outside of them, by a constant or an abstraction:

- `fts.c`: a `fstatat` that fails for one entry, which was removed or may not be examined, ends
  the whole walk: `errno` is cleared once, before the first `readdir` (664), and the test after the last one (752)
  takes what `fts_stat` (835-838) left there for a failing `readdir`. The list is freed and `fts_read` returns
  NULL, where the caller should get an `FTS_NS` entry. The model does the same (`ListingFails`); it was
  reproduced with the compiled library;
  `fts_children(f, 0)` at a root under `FTS_NOCHDIR` calls `fchdir(0)` (773-779);
  `FTS_AGAIN` on a directory in postorder returns a cycle with itself (335-337, 855-859); a root
  link under `FTS_COMFOLLOW` and `FTS_PHYSICAL` is opened with `O_NOFOLLOW` (585-590).
- `queue.h`: `XSIMPLEQ_REMOVE_HEAD` and `XSIMPLEQ_REMOVE_AFTER` (299-311) store an unmasked link
  where a masked one has to be: with a cookie other than zero the list is broken. `struct __xhead`
  takes the link to be at the start of the element. `CIRCLEQ_*`, which the repository's `README.md` (22, 449)
  names, is not in the header.
- `argp-parse.c`: `state->next` is set to the end even when the parser of `ARGP_KEY_ARGS` has
  moved it (735-739; `argp.h` 169-172); `calc_sizes` (507-512) counts short options up to the first
  option without one, while under `ARGP_LONG_ONLY` more are written; NULL tables are looked
  into (299, 367); an error of INIT returns without ERROR and FINI (613-614); an error answer to
  SUCCESS leaves the parsers after it without either; `ARGP_PARSE_ARGV0` counts without
  `ARGP_NO_ERRS` (616; `argp.h` 337-347); aliases do not inherit their argument (`argp.h` 100-102);
  the version parser exits under `ARGP_NO_ERRS`; an argp with neither options nor parser cuts
  its children off its parent.
- `argp-fmtstream.c`: a short write moves the rest of the buffer and not the marks into it; a
  blank may be looked for at the end of the buffer in a byte that is not part of it; padding goes
  to the stream before the text that is still in the buffer; a long word that ends an unfinished line
  counts as column 0.
- `readlink.c`, `exec.c`, `loader.c`: `argv[0]` or a core preload equal to `--` makes the wrapper find
  the wrong word; an empty argument vector gives the linker no program; the path the program was started
  by is looked up again after `chdir`; the `LD_PRELOAD` of the environment given to `execve` is not
  the one that is used (`exec.c` 66); a command line longer than 8 KiB before the program's
  path cuts the path (`readlink.c` 47).

## Proofs

| Module | Theorems | From |
| --- | --- | --- |
| `PthreadOnceProofs` | `TypeCorrect`, `Invariance`, `AtMostOnce`, `NoForgottenSleeper`, `NoEarlyReturn`, `DoneStays`, `ContractImplemented` | `PidsAssumption` |
| `PthreadBridgeProofs` | `TypeCorrect`, `Invariance`, `ResolverAlone`, `ResolverThere`, `ForwardSafe`, `MutexSafe`, `OutcomeFinal`, `OutermostRight` | `PidsAssumption`, `BridgeAssumption` |
| `FtsProofs` | `WorkingDirectoryKept` | `Stdin = None` |
| `FtsCycleProofs` | `TableLive`, `CyclesAreAncestors`, `NoListStale` | `FtsAssumption`, `NoneAgain`; the third: no failing `open(".")` in `fts_children` |
| `ArgpParseProofs` | `IndicesInOrder`, `CallsKept` | `CasesAssumption`; the second: `ArgpsAssumption`, `TreeAssumption` too |
| `ObstackProofs` | `AllChunksOwned`, `AllObjectsPlaced`, `ObstackTyped`, `StackImplemented` | `ObstackAssumption` |
| `QueueProofs` | `ListsThm`, `WellLinkedThm`, `LoopSeesAllThm`, `ListsSpecThm` | `QueueAssumption`, `~RemoveMasked` |
| `ReexecProofs` | `CacheIsTrue`, `SelfRunsItself` | `ReexecAssumption`, `DashesAssumption`, `Fits` |

Each invariant was first checked by TLC on the instance of its run, save `ListsInv`, which ranges
over all sequences: there TLC checks what follows from it. Liveness, the refinements
`WalkSpec` and `SetSpec`, and whatever needs induction over data (permutations of
`argv`, paths, trees, strings) are only model-checked.

## Not modelled

- `argp-help.c` and `argp-fmtstream.c`: the layout of text; what they are to produce is wording.
- `dlfcn.c`, `fs64.c`, `mount.c`, `math.c`, `time.c`, `string.c`, `version.c`, `facade.c`, `core.c`,
  `glibc.c`: one forwarded call each, with conversions, and no state but pointers found once.
- `error.c`: a counter and formatted output.
- `tools/`, `cdefs.h`, the overlay headers and the build: nothing that runs with a program, or nothing
  with state.
- Of libfts: the options named under the abstractions, the growth of the path buffer, the limits
  of levels and lengths, an empty list of roots, a rename during a call.
- Of argp: inputs and hooks, parser functions that change `argv` or `flags`, messages, `__argp_input`,
  failing allocation.
- Of `tree.h`: `RB_AUGMENT` when a program defines it; the `RBT_` macros, whose functions are not in
  the repository.
- Of the loader: which credentials it refuses, the library path, messages.

## Plan

What is left, in this order:

1. `Fts` with `FTS_NOSTAT`, `FTS_XDEV`, and a path buffer that moves.
2. The formatted stream, with its short writes.
