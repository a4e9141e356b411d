# Verification of the gnu-windows tools

TLA+ models, TLC runs and TLAPS proofs about the programs of this repository,
beside the code they describe. The repository builds a GNU toolchain for
Windows; most of what it builds is third-party source fetched at build time and
not here. What is here, and has logic of its own, is a handful of freestanding
C programs in `.gnu-windows/src`: a complete `pkg-config` (u-config, 2679
lines), `peports`, `vc++filt`, `alias`, and small libraries. The centre of
gravity is `pkg-config.c`: it resolves dependency graphs, expands variables,
selects and orders linker arguments, and does all of it with explicit stacks,
one arena and hand-made data structures, without recursion and without
`malloc`.

Line numbers below are those of `.gnu-windows/src/pkg-config.c` unless another
file is named.

## 1. Inventory

All the programs are single-threaded and run to completion; the concurrency in
this code is that between a program and the operating system (writes and
allocations that fail, input that arrives in pieces) and, in the aliases, that
between a parent, its child and a console that may interrupt both. What is hard
is order: explicit stacks that stand for recursion, state carried from one
token, argument or buffer to the next, limits that are tested before a step,
memory in which two things grow towards each other, and data kept once although
it occurs often.

| Component | State | Operations | What makes it correct |
|---|---|---|---|
| Dependency resolution: `process` 1380-1485, `locate` 552-568, `endprocessor`, `newprocessor` | frame stack of 256, packages in load order, marks DIRECT and PUBLIC, operator and package carried between arguments, options | call per argument, consume a version, an operator or a package; load, revisit, promote; finish | every package once; PUBLIC exactly what is reached by Requires from the command line, whatever branch saw it first; every version constraint checked; depth-first order; stack never overrun; ends on cycles |
| Output lists: `fieldwriter`, `args`, `argpos` 1494-1713 | list of words, one position per word, count of words printed | exclude a system directory, append a word, print | a repeated `-I`/`-L` where it came first, a repeated `-l` where it came last, system directories never, one separator between any two words of both writers |
| Search path and lookup: `search` 827-938, `findpackage` 1016-1044 | linked list with a pointer to its last link | append, prepend by splicing, walk | the list is the documented precedence after any sequence of options; the first place that has the file wins; a read error is not "not found" |
| Variable expansion: `expand` 940-999, `lookup` | stack of 128 strings, output | print text, `$$`, reference | the recursive expansion; only nesting is limited; cycles end |
| `.pc` parser: `parsepackage` 613-717, `stripescapes` | a cursor | line by line | continuation lines, comments and escapes mean one thing for the end of a field |
| Quoting: `dequote` 1121-1193, `pathencode` 284-326 | quote state | a byte at a time | a shell reads the words the field means; paths survive |
| Version comparison: `compareversions` 1197-1238 | none | | a consistent order, on dotted numbers RPM's |
| Driver: `uconfig` 1730-2037, `nextoption`, `u8buf`, `os_write` 2639-2679 | options seen, which buffer is for errors, two buffers, failed handles | take an argument, run a stage, print a byte, flush, leave | exit status 0 means everything asked for has left the program; errors are explained |
| Command line splitting: `cmdline_to_argv8` 2083-2204 | automaton, argument pointers and bytes in one array | a character at a time | CommandLineToArgvW()'s rules; room for the worst case |
| Hash tries 415-452, 552-568, 1559-1576 | nodes at places of two bits of hash each | find, insert, bind | a map, whatever the hashes |
| Arena and memory buffers 122-145, 330-413, 2234-2244, 2560-2607 | one area used from both ends, a copy for each of `--cflags` and `--libs` | allocate, print into a buffer and finalize it, map a file | what is still used keeps its bytes |
| Configuration 2417-2556 | variables, directory of the program | take a text from Windows; choose defaults | a set variable, even an empty one, replaces its default |
| Encodings 2250-2415, 2609-2679 | code point or unit being read, console buffer | decode, encode, write to a console | every character kept; one replacement for each byte or unit that is none |
| `vc++filt.c` | symbol being read, cache, input and output buffers | option, symbol, byte, end of input | the input with exactly its decorated symbols replaced, however it arrives and whatever runs out |
| `peports.c` | section map, tables, `setjmp` escape, output buffer, exit status | option, file, section, export, import, error | addresses mean one place of the file; complete tables are listed exactly; one broken file costs its own message and nothing else |
| `alias.c`, `busybox-alias.c` | path and command line buffers, ctrl-C handler, child | build, shield, start, wait, relay | the child gets the arguments as they were; the alias ends when it does, with its status |
| `libmemory.c`, `libchkstk.S` | none | move, fill, compare, measure; probe the stack | what the C library promises; no page is stepped over |
| `debugbreak.c` | none | open every process and break into it | not modelled (section 7) |
| `build.sh`, `prepare_env.sh`, `cleanup_all.sh` | directories and downloads | steps run in order | not modelled (section 7) |

How the parts of pkg-config interact. `mainCRTStartup` splits the command line
and collects the configuration; `uconfig` reads options (the driver), creates a
processor, and calls `process` for each argument. `process` asks `locate` for a
package, `findpackage` for a file that is not loaded yet (search path, parser),
and `expandmerge` for its fields (expansion). What `process` leaves behind, the
packages in load order with their marks, is read by `uconfig`, which feeds the
fields of the right packages to a `fieldwriter` (dequoting, filters, positions)
and prints. Every part prints through the same two buffers, and every error
ends the program from wherever it is met. The models cut at these calls: each
names the data it receives and enumerates it, and an error of a callee is an
outcome the model may take.

## 2. Modules

| Module | Models | Uses |
|---|---|---|
| `Resolution` | abstract: what dependency resolution promises | |
| `Traverse` | `process` and its drivers, with the inductive invariant | |
| `TraverseRefines` | the refinement mapping to `Resolution` | `Traverse`, `Resolution` |
| `TraverseProofs` | theorems about both | `TraverseRefines`, `Recursion` |
| `MCTraverse` | instances, the depth-first order by recursive operators | `TraverseRefines` |
| `ArgList`, `ArgListProofs`, `MCArgList` | output lists, theorems, instances | `Recursion` |
| `SearchPath`, `SearchPathProofs`, `MCSearchPath` | search list and lookup, theorems, instances | `Recursion` |
| `Expand`, `ExpandProofs`, `MCExpand` | variable expansion, theorems, instances | `Recursion` |
| `Recursion` | lemmas: induction over the numbers, functions defined by recursion on them, flattened sequences, prefixes | |
| `VersionOrder`, `CommandLine`, `Quoting`, `Parser`, `MCText` | algorithms on text as operators, and the state machine that runs them on all small inputs | |
| `Codecs`, `Alias`, `HashTrie`, `Arena`, `Runtime` | the same for encodings, launches, tries, the arena, and what replaces the C library | run by `MCText`; `Alias` uses `CommandLine` |
| `Driver` | `uconfig`'s stages, options, buffers, exit status | |
| `Launch`, `MCDriver` | an alias, the pkg-config it starts and the console of both | `Driver` |
| `DriverProofs` | theorems about both | `Launch` |
| `PeImage`, `Peports` | a PE file and its address space; the program over it | |
| `PeportsListing`, `MCPeports` | what it should print; instances | `Peports` |
| `PeportsProofs` | theorems | `PeportsListing`, `Recursion` |
| `SymbolFilter`, `MCSymbolFilter` | `vc++filt.c` and what it should print; instances | |
| `SymbolFilterProofs` | a theorem | `SymbolFilter`, `Recursion` |

A definition whose comment says "mutant" belongs to no model. It is a slip a
programmer could make in the definition below it (a dropped guard, an
off-by-one, a missing reset, swapped pushes), kept to show that each property
notices at least one: replacing the definition by the mutant makes the property
fail in its own run. `PROJECT.json` lists the pairs, the source lines of every
definition, and the hazards each property is aimed at.

### Traverse

State and code: `stack` is `proc->stack[0..top]`, bottom first, a frame the
five fields of `procstate` with `list` and `pos` for what `s->arg` still holds;
`procLast` and `procOp` are `proc->last` and `proc->op`, through which a
constraint may be spread over three arguments; `order`, `contents` and `flags`
are the list and the members of `pkg`. Actions: `BeginArg` and `EndArg` are a
call of `process` and its return, `EndField` the end of a pushed list,
`CheckVersion`, `TakeOperator`, `Revisit` and `Load` the four things an
iteration does with a token, `Finish` is `endprocessor` with the count of
packages. Guards and order are the code's: a package is looked up and listed
before the stack limit is tested, and flags are or-ed in after the pushes. A
failing step goes straight to its error, because the program ends there and
nothing later reads what the step had changed.

`Resolution` says what this is for, without a stack: a package is loaded when
the user names it or something loaded requires it; it becomes public when named
or required publicly by a public package; and a resolution that the user did
not limit is accepted only if nothing is missing. `Resolves` states that the
walk implements it, under the mapping in `TraverseRefines` (what is known of a
package's requirements is nothing until it is loaded).

What a complete walk is compared with is defined by recursion and without a
stack: `CommandLine` is all the arguments as one list, and `Within[d]` the
packages at most `d` levels below it.

### ArgList

`NewWriter`, `ExcludeArg`, `AppendArg`, `BeginWrite`, `WriteArg` and `EndWrite`
are the steps of `newfieldwriter`, `insertsyspath`, `appendfield` and
`writeargs`. `positions` is the trie `argpos` as a function: 0 for no entry, -1
for a directory that must not be printed. `argcount` survives the writers, the
rest does not. What they should print is said without the table: `Selected` are
the words a filter accepts, `Due` the places among them that count.

### SearchPath

Nodes are numbered as they are allocated, `list.tail` is the node that ends the
list, and the store through `temp.list.tail` in `prependpath` goes to an
explicit error state when it is still null. `Read` has three outcomes per file
as `os_mapfile` has. The two variables of the environment are set or not, and
only one that is not set has a default (`FromEnv`, `FixedPath`).

### Expand

`stack` holds what is still to be printed. A string is a sequence of literal
text, `$$` and references. The limit is tested before the variable is looked
up, as in the code. `Expansion[n]` is what recursion would print of each string
if it were followed `n` references deep, `RefsAt[n]` the variables referred to
at that depth.

### Driver and Launch

`todo` is the rest of the current stage as a list of prints, flushes and the
end of the program; every byte is a step, every flush may fail. `err` is the
local variable of `uconfig` that is redirected after the options, `ProcErr` the
copy `newprocessor` took before them. What resolution and output do inside a
stage is one atom of text or one `fault`, because the other modules say it.

`Launch` extends `Driver` with the program that starts it. `Refuse`, `Shield`,
`StartFails`, `Start` and `Relay` are the steps of `aliasmain` (`run` in
`busybox-alias.c` has the same); `Attach` is Windows connecting the child to
the console, after which `RunChild` lets pkg-config take its steps. `Press`
gives ctrl-C to whoever is attached, and each handles it at a time of its own.

### PeImage and Peports

`PeImage` is a file: cells in place of words, sections, and the map of regions
that `processpe` builds from them, with sums of `Bits` bits that are tested for
overflow where the code does. `Peports` is the program: `phase` follows
`processpe` from section to section, export to export, and import to import;
`Throw` is the `longjmp` from anywhere, `Catch` where it lands in the loop over
the files, and the output buffer is as in the code shared by all of them.

`PeportsListing` says what all this is for, without phases: the lines of an
export table (`ExportListing`), those of an import directory up to its end
(`ImportListing`, `Directories`), the lines of each stream (`OnStream`), and the
operands that could not be read (`Unreadable`). `ExportsExact` and
`ImportsExact` speak of the file at hand only: a file that cannot be read at all
leaves the map of the one before in place, which nothing reads.

### SymbolFilter

`run` of `vc++filt.c` with its scanner, options, cache and both buffers. The
answer of `UnDecorateSymbolName` to a symbol is one atom (external code); every
allocation in the cache may fail; `ReadFile` may return any part of what is
left, or fail, which looks like the end of the input. A symbol whose conversion
fails is the atom `NoText`: its length is 0, while that of any other symbol
counts the null terminator, so the cache never takes one for the other.

What it should print does not mention a scanner: `Decorated` are the stretches
of a text that are decorated symbols, `Filtered` is the text with each of them
replaced where it ends, and `Answers` the lines that answer a command line.

### Text

`VersionOrder`, `CommandLine`, `Quoting`, `Parser`, `Codecs`, `Alias`,
`HashTrie`, `Arena` and `Runtime` are operators, translated from the functions
named at their heads. The loops are folds where they go byte by byte, and
recursive where they do not; what needs recursion is in modules no theorem
uses. `MCText` picks a task, carries it out and compares the result with a
definition that says what it should have been.

`Quoting` follows a directory from the path a package was found at to the flags
it occurs in: `BuildPath`, `DirName`, `Prefix`, encoding, and dequoting. In
`HashTrie` a key is its hash, digit by digit, and an id, so that keys with
equal hashes exist. `Arena` keeps the set of texts still in use beside the
memory (`held`), each a run of one tag, and says that the two agree. `Runtime`
has registers and addresses that wrap around, since `strlen` counts down from
-1 and `memmove` starts a downward copy of nothing below its area.

## 3. Runs

`peports_files` checks for deadlock; in the others the program ends, and its
last state has no successor. Each passing run takes less than two minutes on
two workers.

| Run | Bounds | Why they are enough |
|---|---|---|
| `traverse_graphs` | every graph of 3 packages with up to 2 Requires and 1 Requires.private each, 1 or 2 roots, stack of 8 | cycles, diamonds, self-requirements, a package met privately and then publicly at every distance; 3 packages are the fewest with a promotion that must propagate through a third |
| `traverse_limits` | stack of 5, every depth 1, 2, 3, none, missing packages, a package of two spellings, a chain that fills the stack where a package would be promoted; constraints of up to 3 tokens well formed or not, as one argument or three | the stack limit is met from both pushes, operators are left open at every kind of end |
| `arglist_all` | lists of up to 5 words of 5 kinds; two writers with every filter | a repeated word with another between and around needs 4 |
| `search_all` | up to 2 `--with-path` lists of 2 entries in front of two others, empty entries among them; both variables set, empty or not set; all file systems of 4 places with 3 outcomes | splicing twice and appending after a splice are the cases that differ |
| `search_blank` | as above, lists without a directory among them | finding |
| `expand_all` | 2 variables, all values of up to 2 parts, stack of 3 | self and mutual cycles; with two variables the deepest nesting that is no cycle is just below the limit |
| `text_all` | versions of up to 3 bytes and longer ones by triples; command lines of up to 2 arguments of 3 characters and of one of 5; fields and directories of up to 4 characters of every class; files of one entry in every layout with values of up to 3 bytes, and of two | every state of the automata is entered and left by every class of byte |
| | texts of up to 3 bytes at every boundary of UTF-8, all 4-byte sequences at its edges, cut anywhere, with a console buffer of 3 units; up to 3 units of UTF-16 at its boundaries | a surrogate pair that does not fit, a character cut in each place, overlong and surrogate encodings |
| | command lines of aliases of up to 5 characters with a buffer of 7, paths of up to 5 with a limit of 4 | everything that is cut off in the code is cut off here |
| | up to 4 bindings of 8 keys with 4 hashes of 2 digits | chains past the end of the hash need 4 keys in one another's way |
| | an arena of 12 bytes aligned to 4, with up to 5 uses of each kind | both ends meet in each kind of use |
| | 6 addresses, areas of every length and overlap; pages of 2 bytes and frames of up to 12 | a frame larger than the stack; every overlap |
| `text_argv` | all command lines of fewer than 7 characters, pointers for 4 | finding |
| `driver_commands` | all lines of up to 2 options with and without a package, longer samples; buffers of 3 and 2; every write may fail; started by an alias, ctrl-C once at any moment, in some lines three times | a message longer than a buffer, a failure in the first, a middle and the last write, an interrupt before, in and after each step of parent and child |
| `driver_dashdash` | the command lines about it | finding |
| `peports_files` | words of 6 bits, 2 sections (3 in the table), files of up to 20 cells: all pairs of small sections, wrapping and padded ones; import directories in arbitrary memory of 6 cells and well-formed ones of 2 modules in both formats, with and without the null entry; export tables with every count at and past its limit; up to 3 files, one broken in the middle of a line, on streams that break | sums that wrap, a third section past the limit, lookup tables before and behind each other, an output buffer of 3 that is full in the middle of a line |
| `filter_all` | all inputs of up to 5 bytes over `? @ a blank`, longer samples; symbols of up to 3 bytes; buffers of 2 and 3 | a symbol at, below and past the limit, at the end of the input, and repeated so that the cache answers |

What the passing runs show is stated at each property; the ones that are not
obvious from the code:

- `PublicSound`, `PublicClosed`: the promotion of a package that was loaded
  privately reaches exactly what it should, in every order of arrival.
- `StackWithinNeed`: cycles do not use up the stack, so "exceeded max
  recursion" is only said of package sets that are too large.
- `DirectExact`, `CommandLineChecked`, `ConstraintsChecked`: however a command
  line is cut into arguments, versions are never taken for packages, and each
  constraint is compared with the package before it.
- `LinkOrder`: with only the last position of a library kept, a library still
  comes after everything that uses it.
- `SearchInv`: the tail pointer still ends the list after any number of lists
  were spliced in front. `LookupExact`: the first place that has the package
  decides, and only an absent file is passed over.
- `OutputPreserved`, `LimitExact`: the explicit stack is the recursion, and the
  limit is on nesting alone.
- `StreamsArePrefixes`, `SuccessMeansDone`: the buffers lose nothing and
  reorder nothing, and an error of the very last write is in the exit status.
- `AliasRelays`: whatever the moment of ctrl-C, an alias that has started a
  child ends after it and with its status.
- `VersionsOrdered`: although the comparison switches between bytes and numbers
  in midstring, it never goes in a circle, so that constraints on a package name
  an interval; on dotted numbers without leading zeros it is RPM's.
- `FlagsSurvive`: what is printed is read by a shell as what was meant,
  directories with blanks and `$` in their names included.
- `FileReadsBack`: comments, escaped `#` and continuation lines, with either
  end of line, never leak into a value or cut it.
- `EncodingsExact`: what is no character costs one replacement and nothing
  around it, and a character split by a flush only itself.
- `TrieIsMap`, `ArenaSafe`: the data structures all the other models take for
  functions and values are that.
- `MapSound`, `ExportsExact`, `ImportsExact`: however the headers are made up,
  an address means one place at most and no read leaves the file, while tables
  that are intact are listed to the last entry. `OutputInOrder`: the lines of a
  file that was given up on stand in front of its message.
- `OutputIsFiltered`: what `vc++filt` prints does not depend on how its input
  arrives, nor on the memory of its cache, and success means all of it was
  written.

### Fairness

`Terminates` of `Traverse` and `Expand` assumes `WF_vars(Next)` and nothing
else: a sequential program that has a step to take takes it. No single action
is assumed to be fair, and none needs to be: in every state of these models the
input decides which action is enabled. The other runs check safety only.

## 4. Findings

1. `search_blank` (`Transplants`, line 882). `prependpath` stores through the
   tail pointer of a list it may have appended nothing to: `--with-path=` and
   `--with-path=;` go through a null pointer if the search list is not empty.
2. `text_argv` (`PointersFit`, line 2105). A command line of the maximal
   length made of one-letter arguments has 16384 arguments; with the null
   pointer that is one more than fits before the bytes, and the texts of the
   first arguments are overwritten. The comment at 2089 says the sizes cover the
   worst case.
3. `driver_dashdash` (`NoPackageIsRefused`, line 760). A `--` at the end of the
   command line makes `nextoption` read one element past its array.

Observations without a run, met while modelling.

pkg-config:
- `--exists`, `--silence-errors` and `--errors-to-stdout` redirect the messages
  of `uconfig` and not those of `process`, which keeps the buffer it was given
  before the options were read (1382): a missing package is reported anyway.
- `PKG_CONFIG_SYSTEM_INCLUDE_PATH` and `PKG_CONFIG_SYSTEM_LIBRARY_PATH` are
  documented (37-38, 820-821) and never read.
- Libraries follow the packages in load order, which is depth first with the
  parent in front: if `a` requires `b` and `c`, and `c` requires `b`, `-lb`
  stands before `-lc`. `LinkOrder` is about words repeated in a list.
- Words are deduplicated one by one (1582), so the second `-framework` of
  `-framework A -framework B` is lost.
- `compareversions` does not follow "the RPM version comparison specification"
  (1195-1196) beyond dotted numbers written without leading zeros. It compares
  numbers by their length first (1213), so `1.01` is after `1.1`, which RPM has
  equal, and `1.01` after `1.2`; it compares separators and letters as bytes, so
  `1.0a` is after `1.0.1` and `1-1` before `1.1`, where RPM has a number newer
  than letters and ignores separators. `VersionsOrdered` asks for RPM's order
  where the code has it, and elsewhere only for an order.
- `pathencode` encodes blanks, `$` and parentheses but no quotes (1111), so a
  prefix with a `'` in it yields "unmatched quote". A package found at the
  relative path `lib/pkgconfig/x.pc` gets an empty prefix.
- `parsepackage` drops a backslash at the end of a value that blanks or the end
  of the file follow, since its branch (688) does not move `end`.
- `parseuint` ignores what is no digit; `oom` before the standard handles are
  looked up loses its message; an installation directory with a `;` in its name
  is split in two by the search path.

The others:
- `peports` succeeds although no file could be read (`ok &= 1`, 566), takes `-`
  in front of options for an empty group of options (299), and leaves the
  beginning of a line in front of the message about a file that breaks off
  there.
- An alias takes `"foo"bar` for an `argv[0]` of `"foo"`; one whose own path is
  cut off at `MAX_PATH` looks in the wrong directory.
- `___chkstk_ms` with an empty frame would touch every page down to null, as
  `neg` leaves no carry. Compilers call it for large frames only.

## 5. Proofs

Proved by TLAPS for every set of tokens, words or variables, every file system,
command line, stack size, width of a word and capacity of a buffer, from the
assumptions `TraverseAssumption`, `ArgListAssumption`, `SearchPathAssumption`,
`ExpandAssumption`, `DriverAssumption`, `PeImageAssumption`,
`PeportsAssumption`, `FilterAssumption` and the `JobsAssumption` of `Driver` and
of `Peports` (constants are what their names say, the stack has room for two
frames, error values are no packages, a buffer holds a byte and a symbol two,
`?` and `@` are bytes of identifiers and a line end is not, there is a PE file
for every operand, a stream takes some number of pieces before it breaks; TLC
evaluates all of them in the runs).

`Recursion` is what the others rest on. The library's induction theorems take an
operator as a parameter, which the provers at hand cannot instantiate. Here a
property is the set of numbers that have it, and induction is the least element
of a set (`LeastNat`, `InductionNat`). In the same way a recursion is given by a
function `next`: `RecursionExists` builds its runs from their finite beginnings,
and a recursive function of a module obtains its equations from the run it must be
equal to (`GivenRuns`, `WithinRuns`, `RefsAtStep`, `ExpansionStep`, `WordsRuns`).
Only what is recursive on numbers can be treated like this. `FlattenSeq` of the
community modules is: `FlattenRuns` gives its equations, from which follow that
it is a homomorphism (`FlattenConcat`), grows by a piece at a time
(`FlattenGrows`) and can be cut anywhere (`FlattenSplit`). Nearly all that the
theorems about output say is said with it and with prefixes (`PrefixExtended`,
`PrefixKept`).

`TraverseProofs`:

- `TypeCorrect`: `Spec => []TypeOK`, with the two facts the code relies on
  without a test: the array is never overrun, and `s->last` is a package
  whenever an operator waits for its version.
- `WalkInvariant`: `Spec => []WalkInv`. None of the properties below is
  inductive: that a complete walk has missed nothing is true at the end only. What
  holds throughout is `Covered`: every position in a field of a loaded package
  is done, or is still ahead in some frame with at least the flags it needs; and
  for a PUBLIC package, a position of its Requires is PUBLIC already or ahead in
  a PUBLIC frame. When the stack is empty nothing is ahead. The other conjuncts
  make that inductive: frames read fields of loaded packages (`ReadsField`),
  their operator state agrees with the tokens just consumed (`InStep`), and
  depth grows with the stack, so that an unlimited walk always descends.
  Its parts that mean something to a user are properties of the runs; the whole
  of it is costly to evaluate (it quantifies over frames and sets of names) and
  is left to the proof.
- `PublicIsSound`, `PublicIsClosed`, `LoadedIsClosed`, `ConstraintsAreChecked`
  from `WalkInv`; `NothingIsRevoked`, the action property, from `TypeOK`.
  `LoadedIsClosed` is not among the properties of the runs: `Resolves` and
  `PublicClosed` would notice what it could.
- `StackIsWithinNeed`, for any graph. It is a count, so the invariant is a way to
  count (`Accounted`): every frame above the argument's can be put down to a
  package and one of its two halves, no two frames to the same half. A package
  that is promoted pushes a half again; that the first one is gone by then is the
  rest of the invariant: above a frame that is owed to a private package nothing
  is public, and the frame that promotes is.
- `DirectIsExact` and `CommandLineIsChecked`, from `LineInv`. The arguments are
  separate calls, and an operator may be left open by one and closed by the next;
  but all of them together are read like one list by one frame (`Reader`): the
  frame of the argument where there is one, and what `proc->last` and `proc->op`
  keep of it in between. `LineInv` says that this reader is in step with
  `CommandLine`, that the packages it has passed are the DIRECT ones and that the
  constraints it has passed hold; `InArgs`, that only the bottom frame reads an
  argument and has the mark.
- `DepthIsBounded`, from `LevelInv`: the packages named in the list of a frame
  are in the level below the frame's depth, and no frame is deeper than the
  options allow. It needs that levels grow with the number (`LevelsGrow`) and with
  every package loaded (`LevelsKept`), that is an induction over the level
  inside the induction over the steps.

- `WalkResolves`, `Spec => R!Spec`, the refinement. The walk's initial state maps
  to the abstract one and each action to a step or a stutter, under `WalkInv` and
  `RootInv` (what is named is public, and if anything is loaded something was
  named, which `Accept` needs).

`ArgListProofs`: `TypeCorrect`, `ListInvariant` (`ListInv`: what is left of the
system directories is a suffix of them, and the table holds for each word the
position of the occurrence that counts so far), and from it
`PositionsSelectWords`, `LinkOrderIsKept`, `SearchOrderIsKept`. Only the last
two are what a user sees, and the runs check those. `OutputIsExact`, from
`PrintInv`: while a list is filled it is the accepted part of the words taken up
so far; while it is written, the output is that of the writers before and the due
part of the list up to `position`, because the table selects what is due
(`PositionsAreDue`); and the count of words is the length of what was printed, so
that the separator is left out in front of the first word only.

`SearchPathProofs`: a list is what is met when its links are followed, so the
meaning of a list (`Held`) is a sequence of nodes, its chain: each links to the
next, the last to nothing, and the tail pointer is the last.

- `ListIsInOrder`, that is `SearchInv`, from `ListInv`: between two paths the
  list in use is the chain of the precedence so far; while a path is appended it
  holds part of it; while one is collected to go in front, there are two chains,
  and they end in different nodes. The last is what makes the splice safe: the
  store through the tail of the one does not touch the other.
- `FirstMatchWins`, that is `LookupExact`, from `FindInv`: the places passed over
  while searching are a beginning of the order of places, and none of them had
  the file.

`ExpandProofs`:

- `LimitIsExact`, from `LimitInv`. That the limit is only met by strings nested
  that deep is the easy half: a frame refers only to what is nested as deep as it
  lies (`Nested`). That it is always met by them is not, as the stack is popped
  before the end of a string: of every chain of `Cap` references, each in the
  value of the one before, one is still to be met in some frame at its own place
  in the chain (`ChainAhead`), so that the stack is not empty before the limit is
  reached.
- `OutputIsPreserved`: `OutputPreserved` is inductive on top of `LimitInv`. Texts
  that may be cut short form a monoid (`JoinAssociative`, `JoinEmpty`), joining
  is a homomorphism (`JoinedConcat`), and the text of a string is what stands
  before its first mark, what the mark stands for, and the text of the rest
  (`SplitText`): a step of the loop moves one of the three from what the stack
  stands for to the output. A step into a value is one level of `Expansion` down
  and one frame up, which is why `Remaining` is the same before and after.

`DriverProofs`, about `LaunchSpec`, that is about pkg-config as a process of its
own under an alias and ctrl-C:

- `StreamsHoldLaunched`: `StreamsArePrefixes` is inductive with the types of the
  buffers. A write takes all of a text or fails for good (`WriteOutcome`), so
  what has left a stream and what its buffer holds are together what was
  printed, until the first failure. (`StreamsHold` says it of `Spec`.)
- `AliasAlwaysRelays`, from `RelayInv`: the alias waits only for a child it
  started, starts none before it is shielded, and a child that is not attached
  has done nothing and gets no ctrl-C.
- `SuccessIsDone`, `FailureHasMessage`, `ChecksObeyOptions`, from `OutcomeInv`.
  What they say is true at the end; on the way there the program is either on
  course or failing. On course (`OnCourse`), no message was printed, what was
  printed together with the rest of the text at the head of `todo` is what the
  stages up to now should have printed (`Goal`), and everything that could fail
  in a stage that is past did not (`Settled`); what follows the text can only
  be nothing or the flush and the exit. Failing (`Failing`), `todo` is a message
  to a stream the options allow, its flush, and the failure, or an end of that,
  and what of it was printed is still in the buffer or on the stream.

`PeportsProofs`:

- `MapIsSound`, from `MapInv`. The map of a file grows by a section at a time, and
  a section that `SectionFault` does not refuse keeps it sound (`SectionAdded`):
  it is compared with the last one kept only, which is enough as those before it
  are ascending, and its sums are compared with their operands, so that none of
  them has wrapped. The rest of `MapInv` says that there is a file to speak of:
  what is left of the arguments is what follows the options consumed.
- `OutputKeepsOrder`, that is `OutputInOrder`, from `OutputInv`. The two streams
  share one buffer, so order is a matter of each piece: what has been written and
  what is buffered are, stream by stream, what was printed (`Ordered`), and
  putting a piece into the buffer, flushing it, and a flush that breaks the stream
  keep it so.
- `StatusIsTruthful`, that is `StatusTells`, from `ReportInv` with the two before:
  the messages so far and the files still to come are together all that cannot be
  read (`AllReported`), and the program ends only where nothing is to come.
- `ExportsAreExact`, that is `ExportsExact`, from `ExportInv`: while names are
  printed, the listing so far is that of the first names and all that was read for
  it was in its place (`NamedText`, `NamesRead`); while nameless exports are
  printed, those seen are the ordinals of the names, and the listing is that of
  all names and the first ordinals (`NamelessText`). The table is well formed just
  if the walk gets through, because it tests what it reads and nothing else.
- `ImportsAreExact`, that is `ImportsExact`, from `ImportInv`: for every place the
  directory may end at, the walk has not passed it, and the listing so far is that
  of the modules and imports before. The code knows the end by the earliest lookup
  table among the entries it has read; `EarliestOf` says that this is what `first`
  holds.

`SymbolFilterProofs`: `PrintsFilteredText`, that is `OutputIsFiltered`, from
`FilterInv`. The scanner decides about a byte before it has seen what follows, and
`Decorated` is about the whole text. What bridges this is to quantify over all the
texts that continue what has been read (`Continues`): each byte that is passed on
is copied in every one of them, and a symbol that has ended is decorated in every
one of them or in none. So `FilterInv` says that in each of them what has left,
what is buffered and what is still to be put into the buffer are the rewritten
text up to the symbol being read (`Sends`, `Plain`). `Scans` is what makes that
inductive: the bytes held are the last that were read, all of an identifier, from
its beginning, with an `@` among them just if `sym_at` says so; and where none are
held, the identifier that is going on cannot become a symbol any more, because it
is too long or did not begin with a `?` (`Hopeless`). One lemma for each of the
scanner's cases says what it has decided (`GiveUp`, `EndDecides`, `PassCopies`),
one for each way to put out what (`PutsCopies`, `PutsSymbol`). The cache holds
answers or nothing (`CacheIsRight`), and a failed write only drops what is behind
it, which `Sends` allows for. The quantifier over all continuations is unbounded,
so `FilterInv` as a whole is not for TLC; the property that follows from it is.

Checked by TLC only:

- `Terminates`, as liveness under fairness is out of this prover's reach.
- What is compared with RECURSIVE operators, which no proof can use:
  `LoadOrderIsPreorder` (its recursion is nested, over packages and the tokens of
  a list, and not on a number) and the algorithms of `MCText`.
- What the runs with an expected violation show.

## 6. What is abstracted

Tokens, words, paths and symbols are atoms; `RealName`, `Rank` and `Kind` stand
for what the code computes of them. The hash tries are functions (`TrieIsMap`
says why they may be) and the texts values (`ArenaSafe`). Wording and the layout
of messages are left out. Memory never runs out in pkg-config outside `Arena`
(`oom` ends the program), while it does in the cache of `vc++filt` and in the
table of exports of `peports`. `--msvc-syntax`, which rewrites a word as it is
printed and changes no state, is left out.

The headers of a PE file in front of its section table are the outcome of
reading them; the ports of `peports` to POSIX and to a fuzzer (684-790) and the
test programs in `libmemory.c` (104-179) are other builds of the same code and
left out. The answer of `UnDecorateSymbolName`, the behaviour of the console and
of `GetFullPathNameW` are those of Windows, modelled as far as the code relies
on them or not at all.

## 7. Not modelled, and the plan

Not modelled:
- `debugbreak.c`: one loop over the processes, each of which is opened, asked to
  break and closed. It keeps nothing from one to the next, so there is no state
  to be wrong; the exit status is the last error Windows reports.
- `build.sh`, `prepare_env.sh`, `cleanup_all.sh`: a fixed sequence of commands
  under `set -e`; what they do is done by the programs they run, most of which
  are not in the repository.
- Patches, settings, checksums and documents: no behaviour of this code.
- In the driver, what each report prints (usage text, the list of packages, the
  words of a variable): atoms, as the modules of the parts say what they are.
- In the configuration, `makepath_` and `append2_`, which join a constant to the
  directory of the program: the constant `DefaultPath`.

Done: resolution with its abstract specification, refinement and proofs; the
output lists, the search path, the expansion and the driver, with proofs of all
their safety properties but the load order; text; encodings, tries, the arena;
`vc++filt` and `peports`, with proofs of all their safety properties; the aliases
and the runtime library.

To come: as a proof, the trie refining a map; as a model, `PkgConfig`, the
composition of driver, resolution and output lists in one state machine.
