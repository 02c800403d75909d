# GAA: a TLA+ model of its containers, readers and geometry

GAA is a C++23 library for surveying: containers, text readers (CSV, RINEX
navigation messages), planar geometry, geodesy, GNSS and photogrammetry.  It is
sequential: no threads, no sockets, nothing persisted.  What is hard about it is
not concurrency but *state that several separate calls must keep consistent*:
slots that are erased, collected and handed out again; an index, a name and a
value kept in three places; a type flag next to a type-erased value; readers
that fix widths and types from one line and apply them to the next; calls that
stop half way.  The models follow those parts call by call, the collectors
iteration by iteration and the readers line by line.

All paths below are relative to the repository; `gaa/` stands for
`include/gaa/` or `src/gaa/`.

## 1. Inventory

| Component | State | Operations | What makes it correct |
|---|---|---|---|
| **Pool** `container/pool.hpp` | set of deprecated indices, `m_size` | get, deprecate, clear | never hands out an index in use |
| **Bidirectional map** `container/bidirectional_map.hpp` | two `std::map`s | insert_or_assign, erase, at | the two maps are inverse of each other where they are used |
| **List** `container/list.*` | pool, indices, data, names | insert_or_assign, `operator[]`, at, erase, garbage_collect | insertions and collections overwrite, lose and reorder nothing; every index has value and name; name lookup leads back |
| **Frame** `container/frame.*` | pool, indices, vector of columns, names, row count | new_col, col, erase_col, rename_col, garbage_collect | columns all have the frame's rows; the index, the position and the slot of a column agree; a call that throws half way takes over no column |
| **Point set** `geometry/primitive/point_set.hpp`, property maps `wrap/boost/property_map` | points, removed set, maps with one reindexing function each | push_back, remove, add/erase_property_map, get/put, garbage_collect | points and all maps are renumbered alike |
| **Convex hull** `geometry/convex_hull_2.hpp` | two chains of a monotone scan | - | the hull, for collinear and repeated points too |
| **Table** `container/table.*` | columns as `std::any`, their flags and names, meta data with flags | push_back, push_for_insert, at, row views, meta_* | a flag always tells the type stored; rows below row_size() are readable |
| **CSV tables** `io/csv/table.*` | names, cells per column, flags | read_csv, read_csv_auto, write_csv | the table is the text, row by row; what is written is read back |
| **CSV frames** `io/csv/frame.*`, literals `core/literal.*` | lines, types, frame | read_csv_to_frame (types given or detected), write_csv | the same, and reading ends |
| **RINEX readers** `io/rinex3/nav.*`, `io/rinex2/nav.*` | header stage, meta data, some forty vectors | read_rinex3_nav, read_rinex2_nav, getters | row r is record r in every column; getters ask for what is stored |
| **Any** `wrap/std/any` | value, vtable, info; one registry of vtables | construct, copy, move, is/as, push_back, plugins, invoke | type information agrees with the value; plugins reach every object |
| **Variant** `wrap/std/variant` | value, enumerator; a visitor's functions | construct, copy, as, visit, format | no visit meets a wrong type |
| **Map index** `geodesy/map_index.*` | rows, columns, scale, corners | constructor, parse, format, compare | one index per cell; what is written is read back |
| **Gauss-Krüger projection** `geodesy/project/gauss_kruger.*` and **channels** `core/message.hpp` | projects with a band or a virtual one; projected coordinates with a copy of their project | eval, reval, `operator>>` | a chain of conversions ends at the same place |
| **Cycle slips** `gnss/cycle_slip_edit.cpp` | - | diff_detect | every jump is found, with its place and size |
| **Element-wise expressions** `wrap/std/vectorize` | trees of references | size, eval, `operator[]` | no element is read that is not there |
| **JSON writer** `io/json.*` | - | write of a list | every key in use once, with the value of its entry |
| **Keyword arguments** `core/kw.hpp` | map from tags to values or references | set, get, default | no keyword is given twice; a reference is read while its object lives |
| **Geodesic solvers** `geodesy/solve/*` | - | solve, rsolve | the azimuth at each end, in the right quadrant; the loops end |
| **Plane and ECEF coordinates** `geodesy/coord/*`, ellipsoids | - | conversions, solve, rsolve | directions and longitudes in the right quadrant |
| **Adjustments** `photogrammetry/space_resection.*`, `space_intersection.*` | iterations left, estimate, result | one call each | the report fits the estimate that comes with it |
| **Julian days** `core/etc.*` | - | julia_day | one more every day |
| Orbits `gnss/space/*`, other photogrammetry | - | formulas and fixed-point loops over doubles | convergence and accuracy |
| Other wrappers `wrap/*`, `core/math`, `visualization` | - | thin templates over Boost, Eigen, R, matplot++ | - |

Everything under `3rd/` is third-party code; `dev/` and `test/` are examples and
tests, used to see how the components are called.

**How they interact.**  `List` and `Frame` each own a `Pool` and a bidirectional
map; every insertion asks the pool for a slot, every erasure only marks one, and
`garbage_collect()` renumbers what is left.  The CSV and RINEX readers build a
`Table` or a `Frame`, the writers take one apart; `Row_view` and the getters read
a `Table` by flag.  The point set owns one reindexing callback per property map
and calls all of them when it collects.  A coordinate of any system can be sent through a
chain of channels into another; each link may refuse the ellipsoid or the width of the zones.  A failed `gaa_assert` or `gaa_fail`
(`core/message.hpp`, `core/keywords.hpp`) ends the program; `std::map::at`,
`std::vector::at` throw and the caller may go on.

**Which behaviours are hard.**  No unit test in `test/` touches any of the above
(it has geodesy and photogrammetry only), and the programs in `dev/` call each
operation once or twice in one order.  The hazards are therefore *sequences of
legal calls*: erase, collect, insert, erase again; a call that throws after it
has changed half of the state; header lines repeated or reordered; rows of
different widths; a reader at the end of its stream.  `PROJECT.json` lists each
with its line.

## 2. Modules

| Module | Models | State and actions |
|---|---|---|
| `StdContainers` | `std::map`, `std::set`, the filter view, from how the code calls them | operators; `Filtered` is defined without recursion so that it can be reasoned about |
| `Pool`, `BidirectionalMap` | the two helpers, as records and operators | composed into `List` and `Frame` by EXTENDS |
| `List` | `List` | the four members as variables, `pc`, `alive`, `new_i` for the program counter and locals of `garbage_collect()`; one action per public operation, `GcBegin`, `GcKeep`, `GcMove`, `GcEnd` for the collector |
| `Dictionary`, `ListDictionary` | what the class comment promises, and the calls for which a list keeps it; `SpecByKey`, a program for which it does not; what `write_json` makes of a list (`Json`) | refinement by `dictView` |
| `Frame`, `FrameUse` | `Frame`, exceptions half way included; and programs that use one, with the history variables `careful` and `fitting` | as `List`; `outcome` tells how the last call ended |
| `PointSet` | `Point_set` and its property maps | one action per call; undefined behaviour is the final `status` |
| `Table`, `TableApi` | `Table` as a record of its members and operators on it; programs that fill one | the readers use the operators of `Table` |
| `CsvTable` | `read_csv`, `read_csv_auto`, `write_csv` for tables | one action per line read, column built, line written |
| `CsvFrame` | `read_csv_to_frame`, literals, `write_csv` for frames | the text is a variable, so that it can be said whether reading ends; the text written is read a second time |
| `Rinex` | both navigation readers and their getters | one action per line; `fmt` tells which reader runs |
| `Any`, `Variant` | the two ways of storing a value of any type | one action per operation; `moved` and `came` are history: whether an object was moved from, how a value came there |
| `Values` | a program that uses both; they share no state | composes `Any` and `Variant` |
| `ConvexHull` | `convex_hull_2` on exact integer coordinates | operators; the chains are recursive functions |
| `MapSheet` | `Map_index`, in quarters of an arc second | operators |
| `Projection` | Gauss-Krüger bands, projected coordinates, channels | operators; EXTENDS `MapSheet` for angles |
| `CycleSlip` | `diff_detect` on integers | operators |
| `Vectorize` | sizes and evaluation of expressions, sequences of objects that refer to earlier ones | recursive functions along the sequence |
| `Azimuths` | how the geodesic solvers, plane and ECEF coordinates turn two components into a direction | operators on whole degrees |
| `Calendar` | `julia_day`, in hours, and the civil calendar it is compared with | operators |
| `Kw`, `Adjustment` | keyword arguments; `space_resection` and `space_intersection_ols` | the locals of the two loops as variables; one action per setter, call, iteration, sweep and point |
| `Algorithms` | one call of one of the functions of the modules from `ConvexHull` on | `call`, `answer`, `pc`; a pure function answers in one step, a solver that iterates enters its loop (`Iterates`) and answers when it `Converges`, if it does; an adjustment takes the steps of `Adjustment` |
| `ContainerProofs`; `ListProofs`, `FrameProofs`, `StorageProofs`, `CsvProofs`, `CsvFrameProofs`, `RinexProofs`, `AlgorithmsProofs` | lemmas about filtered sequences and the pool; the theorems of section 4 | - |
| `MCList`, `MCFrame`, `MCPointSet`, `MCValues`, `MCAlgorithms` | symmetry, alternatives and a negative bound for model checking | - |

Operators named as a *wrong variant* of another one are not part of any
specification: each is what a plausible mistake in the code would make of the
definition it stands before, and replacing the definition by it makes a property
fail.  They show that the property depends on the code.

Abstractions.  A column of a frame is an identity and a length; a value of a
list is a model value; a cell of a text is a token for what the regular
expressions and `std::from_chars` tell apart (`12`, `+12`, `1.5`, `true`,
`1.5_lat`, blanks, a word).  The forty fields of a RINEX record are grouped by
line: one column stands for all fields of a line, which are pushed together.
Where the outcome depends on text the tokens do not tell apart (a word that
begins with digits converts, another does not), the model allows both.  The series of the projection are taken as exact
inverses of each other, so that a coordinate is its longitude or the distance
from a central meridian.  `CsvFrame` has one separator, and of the literals strings,
doubles and integers.  A line on the ellipsoid is its forward azimuths at its two
ends, or it leads from a point to itself and has none.  The series, and what the
iterations between the ends come to when they end, are taken for exact; what
is kept is which inverse function the code takes, how signs choose the quadrant,
and where a quotient is zero by zero.  That an iteration ends is not assumed: a solver
may stay in its loop for ever, and must where its iterates are NaN.  What a least-squares solution yields is up
to the data: in `Adjustment` a correction is any size up to a bound, and an
orientation or a point is the sum of the corrections it has received.

## 3. Runs

Bounds are constants of the modules (`MaxSize`, `MaxPoints`, `MaxLines`, ...) and
appear only in guards.

| Run | Module | Question | Bounds, and why they are enough |
|---|---|---|---|
| `MCListApi` | `MCList` | Do insertions and collections ever touch another entry, whatever calls are made in whatever order? | 3 slots, 2 keys: enough for an entry that stays, one that moves and one erased between them, and for indices never handed out |
| `MCListDict` | `MCList` | For which calls is a list a dictionary (refinement), and does the JSON writer print it? | 3 keys, 3 slots |
| `MCListGcNames` | `MCList` | counterexample to the name lookup | 2 keys |
| `MCFrame` | `MCFrame` | The same for frames; and when does a frame stay rectangular and never throw? | 3 columns, 2 names; vectors too short, right and too long, added and assigned, whose lengths tell columns apart |
| `MCPointSet` | `MCPointSet` | Do points and properties stay together? | 3 points, 2 maps |
| `MCTable` | `TableApi` | Do flags match, are rows readable? | 2 columns, 2 cells, equal names allowed |
| `MCCsv` | `CsvTable` | Is the table the text; is what is written read back? | lines of 1-2 cells of 6 kinds, 2 lines after the head: a row narrower and one wider than the first |
| `MCCsvFrame` | `CsvFrame` | Is the frame the text; does reading end; is what is written read back? | all texts of up to 3 lines, empty ones included, of 1-2 cells: a skipped line, a head and a row |
| `MCRinex` | `Rinex` | Is the header kept, do getters find the type they ask for, is row r record r? | 3 header lines of any label, an IONOSPHERIC CORR line naming its own field, a string, an integer or a double of another line, or with a blank at the end of its key; 2 records of 2 lines (7 continuation lines in the code; the loop does the same for each) |
| `MCValues` | `MCValues` | Is what an `Any` or a `Variant` says of its value true? | 2 objects of each kind, 2 types, 1 plugin: a source and a target of every copy and move |
| `MCAlgorithms` | `MCAlgorithms` | Do the functions compute what they are to compute, do the adjustments report what they did, and come to an end? | hulls of all inputs of 3 and 4 points of a 3 x 3 grid: every kind of collinearity, repetition and turn of up to four points; sheets of 4 scales, of both kinds of rounding, over 24 x 24 cells; chains of up to 3 links, longitudes every half degree within 9 degrees of Greenwich, at 115 and at 180; series with up to two jumps of size 1 or 3, degrees 2 and 3; expressions of up to 4 objects, which have up to 3 operators, over 2 containers of up to 2 elements (section 4 for the rest); lines in two directions of every quadrant, one on each side of its bisector, along the four axes, and from a point to itself; every day of ordinary, leap and century years; adjustments of up to 3 images, points and iterations (50 without asking, here 2; and -1), with corrections below, at and above the threshold |
| `MCVariantVisit` | `MCValues` | counterexample to the unreachable default of a visit | as `MCValues` |

Two of them, `MCListGcNames` and `MCVariantVisit`, are expected to find a
counterexample; each is a disagreement between the code and one of its own
comments or messages, and is listed under "findings".

What the passing runs show, in one sentence each:

- **List, any calls.** The slot the pool hands out is never in use
  (`NextIndexFree`), although `m_size` never shrinks and collections renumber the
  entries beneath it; `m_indices` stays strictly increasing with no entry below
  its position (`IndicesOrdered`), hence the collector writes only into slots
  nobody needs any more and keeps name, value and order of every
  entry at every iteration (`GcKeepsEntries`); every visited index has a value
  and a name (`SlotsBacked`).
- **List as a dictionary.** If a key is inserted only while no entry has it,
  nothing is written through an erased key, and no entry moves in a collection,
  the list implements `Dictionary`, and the JSON writer, which goes from an index
  to the name and back to an index, writes every key once with its value
  (`JsonHoldsDictionary`).
- **Frame.** Without any discipline a collection that completes keeps every
  column (and, proved, no column in use is ever taken over).  With the discipline of
  `FrameUse` (only columns in use are assigned, erased or renamed; after a
  collection that removed a column, a new one is added only while an erased slot is
  there to take) no call throws half way (`NeverThrows`), `cols()` counts, and
  index, position and slot of a column agree (`ColumnsNumbered`).  Vectors of any
  length are added, and the frame cuts or fills them; but `col()` gives out
  references (`frame.hpp:55-72`) that take a vector of any length unchecked.
  While every vector assigned that way has the frame's length (`fitting`), all columns
  have its rows (`Rectangular`).
- **Point set.** The unsigned subtraction of `num_points()` never wraps, a
  collection keeps points and properties together, and points that all have a label keep it through any collection.
  (A point that takes the slot of a removed one finds the properties of the old
  point there; nothing in the code says otherwise.)
- **Values.** The vtable and the flags of an `Any` tell the type of its value
  unless it was moved from (`AnyTold`), and a plugin reaches every object of its
  type (`PluginsReach`); the enumerator of a `Variant` is that of its value or
  `Unknown`, and exactly when which (`VariantTold`), so no visit throws
  (`VisitsFit`).
- **Algorithms.** The hull is the convex hull, once around
  (`HullIsConvexHull`); two points have one map index exactly when they lie in
  one cell, and an index is read back from its text (`SheetNamesCell`); a chain of conversions ends where it began or at a link
  that refuses (`ChannelsKeepPosition`), and a chosen band is the nearest and
  stays (`ProjectKeepsBand`); jumps far enough apart are all found, with place and
  size, unless one is in the very first window (`SlipsFound`); an expression over containers that are not empty reads
  nothing beyond their ends (`ExpressionsInBounds`).  `AzimuthsRecovered` says for
  every solver which azimuths come out right and which do not, exactly
  (section 5), and that none comes out as NaN; `DaysCounted` that Julian days count the days of the civil
  calendar, with the one extra day of each century year that is no leap year.
- **Adjustments.** What a call reports fits what it did (`ReportFits`): at most as
  many iterations as allowed, success of the resection exactly when it hands out a
  rotation, which is that of the orientation it returns, and success of the
  intersection whenever a sweep moved no point by the threshold.  And it comes to
  an end, whatever the corrections and the number of iterations asked for
  (`AdjustmentEnds`).
- **Readers and writers.** See `TableHoldsRows`, `FrameHoldsText`,
  `RecordsAligned`, `HeaderKept`: whatever a reader returns is the text it was
  given, cell by cell; a getter finds the type it asks for, but for the two
  coefficients of Rinex 3 and for fields that an IONOSPHERIC CORR line has named since
  (`GettersAccept`); and `WrittenReadsBack`, `BareTextReadsBack` say for which
  tables and frames writing and reading compose.

**Fairness.**  `CsvFrame` assumes weak fairness of its whole next-state relation
and `Algorithms` of `Adjusts`, the steps of an adjustment: that is, the one
thread that runs the call is scheduled while it has a step to take.  There is
no fairness on the solvers: that would say that their loops converge.  The code
takes no locks and waits for nothing, so this is all a scheduler has to grant.
`AdjustmentEnds` is then about the bounds on the iterations and
`ReaderEnds` about the reader alone.  The precondition of `ReaderEnds` is
needed: told to ignore the first line of a text without a non-empty line, the
loop at `io/csv/frame.cpp:114-116` never ends.  All other properties are safety
properties and hold without fairness.

## 4. Theorems

`ListProofs` proves, for any keys, any values and any bound on the slots, all
five properties that `MCListApi` checks, and `GcTargetFree`: the slot the
collector writes to belongs to no entry it has yet to move.  The argument:

- `NextIndexFree` and the others are not inductive.  The invariant is
  `ListInv == Types /\ IndicesOrdered /\ SlotsBacked /\ LoopInv`, where `LoopInv`
  says what `garbage_collect()` knows between two iterations: `alive` is strictly
  increasing, its first `new_i` entries are renumbered and backed, and each of
  the others still has value and name and stands in `m_indices` at or behind its
  position in `alive`.
- `IndicesOrdered` is the heart of it: that no index is below its own position
  makes every move go down, so a target slot is either free or its entry has
  moved already.  It also puts a pool index that was never handed out above all indices.
- The two action properties follow from the invariant: an insertion writes one
  slot, which is not in use; an iteration moves one entry down, with all others
  untouched.

`ContainerProofs` has the lemmas on filtered sequences the argument rests on
(what `Filtered` contains, that it keeps the order, that filtering an increasing
sequence keeps it increasing, and how many of the first n numbers it keeps), and
on what the pool hands out; they use only finite-set and sequence facts
and serve the proofs about all containers.  The only assumption on constants
is `ListAssumption`: `Null` is not a value a program stores, and the bound is a
natural number.

For the calls of `ListDictionary` the same module proves the refinement,
`ListIsDictionary == SpecDict => ImplementsDictionary`, and `JsonIsDictionary`,
which has `NamesResolve` and `JsonHoldsDictionary`, for any keys and values.

- `DictInv` is `ListInv` together with what `ListInv` lacks: every entry in use is
  reached by its name (`Reached`; with free use of `List` it fails, see section 5),
  and a collection finds every entry in its place already, since these callers
  collect only when no entry in use would move.
- Each kind of step is then a step of the dictionary or a stutter, by lemma:
  `StoreSets` and `WriteSets` set one key, `EraseRemoves` removes one, and
  `SameView` covers what a caller does not see, the iterations of a collection among it.
- `AbsentAssumption`, that the mark for "no entry" is not a value stored, is needed
  besides `ListAssumption`.

`FrameProofs` proves the four properties of `MCFrame` and `NextIndexFree`, for any
names, contents and numbers of columns and rows, in two layers.

- `FrameInv` holds whatever a program calls: `m_indices` increases and stays below
  the counter of the pool, and `LoopInv` as for the list.  A collection that
  throws half way leaves `m_indices` renumbered in part, and the order survives
  because every entry only ever moves down.  From it follow `GcKeepsColumns` and
  that a new column takes no index in use.
- `CarefulInv` is what a careful program has besides, the lengths of the columns
  as long as it is `fitting`.  It is stronger than the three properties: that no call throws needs that every column in use has a name
  and that the indices are the positions, and that a reused index is a column
  needs that every erased index is below the number of columns.

`StorageProofs` is about the containers of columns and values, point sets, tables,
`Any` and `Variant`.  The three properties of `MCPointSet` follow from one fact, that
only points that exist are removed (`PointSetInv`): `NumPointsCounts` by counting
a filtered sequence, the two action properties because points and every map are
renumbered with the same sequence.  For the three properties of
`MCTable`, `TableInv` adds to the flags that columns, flags and names are as many
and that a reference is to a column.  For the four properties of `MCValues`, for any
types, alternatives, plugins and number of objects:

- `AnyInv` adds to `AnyTold` and `PluginsReach` that objects are records of the
  types used, and needs that no type is the empty value (`AnyAssumption`): so
  that an object moved from cannot tell a type that is true by accident.
  A registration only ever adds to the registry, hence no object loses its table.
- `VariantInv` adds to `VariantTold` and `VisitsFit` that the history covers the
  objects and that an enumerator is one of a registered type or `Unknown`
  (`VariantAssumption`: `Unknown` is none of them, and the first alternative,
  which a default-constructed object holds, is registered).  That no visit
  throws follows from `VariantTold`: a case is chosen by an enumerator that is
  true, or is the default.

`CsvProofs` proves the two properties of `MCCsv` for texts of any length and width.
`CsvInv` says, of a call that has not failed:

- a column that every row so far reaches has one cell of each row, in order
  (`Collected`).  Of a column that some row does not reach nothing is known, since
  its cells move up: this is why the theorem is about even texts, or about
  `read_csv`, whose rows are all as wide as its flags (`RowsFit`);
- the table has the first of these columns (`Built`), and names and flags are enough
  for all of them when the text is even (`Stages`), so that `zip()` cuts none off;
- a row is written only when every column has it (`Written`).

That a table survives writing and reading then rests on one fact about
texts, `PrintedKeepsType`.  The assumption is `CsvAssumption`, which only bounds
the kinds of cells to those the model knows.

`CsvFrameProofs` proves the two safety properties of `MCCsvFrame`, for texts of any
length and width, under `CsvFrameAssumption`, which bounds the kinds of cells.

- `FrameHoldsText` speaks of a call that has returned.  `CsvFrameInv` follows it there:
  the lines taken are a piece of the text that begins after the skipped line and
  has no empty line in it, and at the end the whole block (`LinesTaken`; that the
  block ends at the *first* empty line is where `Least` comes in); the frame has a
  row per line and a column per literal (`FrameMade`); rows up to `row_it` are
  filled, the others, and the first one after an ignored line, are at their defaults
  (`RowsFilled`).
- For `BareTextReadsBack` it says what a line written so far is made of
  (`RowsWritten`), that the text of the second reading is what was printed
  (`TextPrinted`), and that this reading cannot fail (`Readable`).  The heart of it is
  that whatever is printed for a type converts to that type without a rest, but for
  the words an infinity or a NaN is printed as.

`RinexProofs` proves the three properties of `MCRinex`, for headers of any number of
lines in any order, records of any number of lines and files of any number of records.

- `HeaderKept` and `GettersAccept` speak of calls that return.  `HeaderInv` says the
  same of the lines read so far: every stored field has the value of the last line that
  stores it, every line that was read has its fields stored, and the comments are the
  comment lines in order.  For `GettersAccept` the last line that stored a field tells its type
  (`FieldsFitGetters`): that of the field, or a vector if an IONOSPHERIC CORR line named
  it (`StoresVector`).  The keys such lines name are any that `KeysAssumption` allows: of five
  characters at most, which excludes the longer names of fields.
- `RecordsInv` says of the vectors of the fields that they are `Aligned` while the file
  is read, and of the columns that they are those vectors once they are pushed, each
  at the place of its line.  A record that stops half way pushes to no vector, because a
  line is looked at as a whole before its fields are pushed.

`AlgorithmsProofs` proves the nine safety properties of `MCAlgorithms`.  A call is
answered once, so that the inductive invariant is small: `AlgorithmsInd` says that a
call keeps the arguments it was made with (`Calls`) and, once done, holds what its function makes of them (`Answered`).  The work
is in the lemmas about the functions:

- *Days.* `NextMonth` and `NextYear`: the truncated products go on by one from the last
  day of each month to the next first, but from a 28th of February to the 1st of
  March by two in a century year.  `AlgorithmsAssumption` leaves out the year 0, whose
  January belongs to the year -1, where the formula rounds the other way.
- *Hulls.* `HullIsConvexHull`, for grids of any size and any number of points.
  `ConvexTo` is the loop invariant of a chain: it begins with the first point and ends
  with the point taken last, any three of its vertices turn left, and no point so far
  is right of an edge.  `ConvexGrows` is one iteration: popping stops where the new edge has
  all points on its left (`LeftOfCut`, `LeftOfNewEdge`), and two turns in a row make
  a third (`TurnsGoOn`).  A finished chain is thus a rim of its points (`RimOf`).  The
  rest is what a rim has to do with the reference definition, which speaks of segments and
  triangles only: no two or three other points span a vertex, since seen from it they
  all lie on one side (`RimExtreme`, `NoBalance`); and a point that is a vertex of neither
  rim is under an edge of one and over an edge of the other, so that three of these four
  ends have it in their triangle (`ExtremeOnRim`, `FourAround`).  That every vertex
  comes once and that the turns where the chains meet are left ones too are
  `RimsApart` and `RimsTurn`.
- *Cycle slips.* `SlipsFound`, for series of any length, level or rising by one between
  any number of jumps of any sizes, up or down.  `Rows`: the quotients of
  `arrangement` and `factorial` are Pascal's triangle, the division never leaving a rest.
  `LevelsHave`: in the differences of a series of constant slope, an entry that takes in one jump is that entry of the pattern times the jump,
  and one that takes in none is what the slope leaves.  `PatternFits`: of the windows over a
  jump only the one at its first difference matches within five percent, and for
  second differences the next one too, where the zero behind the jump makes the
  quotient infinite.  So intervals never
  touch (`SlipsJoined`) and come in the order of their jumps (`IntervalsInOrder`).
  `AlgorithmsAssumption` has degrees from 2, as first differences do not level a slope,
  up to 30: from 31 on the products of `arrangement` overflow a `long long`, which
  the model has unbounded.
- *Sheets.* `RowsTell` and `ColumnsTell`: at each scale the pair of major and minor row
  tells the same as the row of cells, and the widths of the printed numbers never make
  the text longer than the parser expects (`TextReadBack`).  Points lie up to 180
  degrees east: beyond, a column has three digits.
- *Channels.* `Reached` says where a chain is after k links: failed at a link that
  refuses, at the geodetic coordinate it began with, or projected from it by the project of
  link k.  `LinkKeeps` is the step.  `NearestBand` is about the rounding of `band_of`.
- *Expressions.* `LengthsAgree`: the size of an object is the length of every container
  below it, if all are positive and no check failed.
- *Directions.* One lemma per quadrant gives angles and signs; `SameAngles` turns
  equality of directions into a short list of differences.  Directions are whole degrees,
  off the axes, and the mean of two of them is whole (`AlgorithmsAssumption`).
  Along the axes and from a point to itself `NoA1OnAxes` shows that Bessel's iterates are
  NaN, and `GaussInPlace` what the Gauss lemma makes of a point and itself.
- *Adjustments.* `ReportFits`, for any limits (below zero too), thresholds, corrections,
  images and points, both of `Adjustment` by itself and among the other calls.
  `Counted` adds that iterations left and begun add up to the limit, and
  `IntersectionReports` that a sweep without a large correction has reported success
  once it is past the first point.

Expressions and chains are evaluated by recursive functions, and the induction theorems
of the library cannot be used here.  In their place stands `LeastIsLeast`: a set of
naturals that is not empty has a least element.  `SizesAre`, `ReadsAre` and
`ChainIs` show with it that the recursive function exists, `LengthsAgree` and
`ChainReaches` that there is no first position at which the claim fails.  For the chains of
a hull, the products and the differences of a series, `RecursionExists` says once for all
that a function defined step by step up to a bound exists, and `UpwardsTo`
that a set with 0 that is closed under the next number holds every number up to it; both are in
`ContainerProofs`.

Every safety property a run checks is thus proved.  Only model-checked are the liveness
properties `ReaderEnds` and `AdjustmentEnds`, as fairness and ENABLED are out of the
prover's reach.

## 5. Where the code and its own words differ

Beside the two counterexamples above, met while modelling and visible in the
actions (no run is spent on them):

- `List::insert_or_assign` (`list.hpp:65`) never looks whether the key is there:
  two entries can have one key.  `list["k"] = v` on an erased key writes into the
  erased slot (`list.cpp:27`), and nothing appears.  A collection leaves data and name
  of an erased entry over which nothing moved (`list.cpp:22`).
- `Frame::col<T>(i)` compares an index with the number of columns in use
  (`frame.hpp:48`): after an earlier column is erased the last ones are out of
  range until the slot is taken again or collected.
- `Frame::new_col` after a collection that removed a column, with nothing erased
  since, throws: the pool counts columns the vector no longer has (`frame.hpp:76-83`).
- `col(i) = vec` and `col<T>(i) = vec` assign through a reference (`frame.hpp:55-72`):
  a vector of another length makes the frame uneven, and `row(i)` reads beyond it.
- `push_for_insert(name)` (`table.hpp:188`) returns the first column of that
  name, which need not be the one just pushed.
- `Row_view::contains` (`table.hpp:319`) is true where `Row_view::at` (line 309)
  aborts, and false where it works.
- `read_csv_auto` accepts rows of different widths: `flag_init` is never set to true
  (`io/csv/table.cpp:179`), so the assertion at lines 188-189 is never reached.
- `read_csv_auto` takes the type of a column from its first row alone, and a later
  `1.5` in an integer column becomes 1; a cell `+12` is detected as an integer and
  then aborts, as `std::from_chars` takes no plus sign.
- With `ignore_first_line(true)`, `read_csv_to_frame` skips a line *and* takes
  the next one for the head, leaving row 0 at its defaults; the
  detecting overload takes the column types from that head, and without
  `ignore_first_line` from the second row (`io/csv/frame.cpp:132`).  A frame
  written with its names can thus not be read back by it.
- `Rinex3_nav::polynomial_coeff_0()` and `_1()` ask for `int` where the reader
  stored `double`, and abort (`rinex3/nav.cpp:109,112`).
- An IONOSPHERIC CORR line stores its vector under whatever its first five characters
  are (`rinex3/nav.cpp:326-336`).  One that names `date`, `T`, `W`, `S`, `a0`, `a1`, `tLS`,
  `tLSF`, `WN` or `DN` replaces that field, and its getter aborts until another line
  stores the field again.  With `trim_string(false)` keys keep their blanks: the vector is
  stored as `BDSA` and a blank, where `bdsa()` does not look.
- The assertion against a third TIME SYSTEM CORR line (`rinex3/nav.cpp:370`) is
  unreachable: the stage goes from 0 to 1 and no further.
- `read_rinex2_nav` aborts on a file without records (`dbl_vec` asserts that it
  has an element), `read_rinex3_nav` returns an empty table.
- A default-constructed `Variant`, and one made from a type that only converts to
  an alternative, has no enumerator and cannot be visited.  `format_to` of an
  empty vector or map, and `write_json` of an empty list, dereference `begin()`.
- `Map_index(lat, lon, scale)` hands longitudes beyond 180 degrees to a validating
  constructor for every point east of Greenwich (`map_index.cpp:150-152`,
  `wrap/boost/units.hpp:166-172`) and aborts unless
  `GAA_UNIT_NEVER_VALIDATE` is defined; the run defines it.  The minor rows of the
  scales A to C are one more than the row counted from the north; `south()`
  lies north of the point; an index that was parsed has corners 0, which
  `operator==` ignores.  West of Greenwich truncation merges the cells on both
  sides of a border.
- `band_of` truncates too: from 3 to 6 degrees west it gives band -1 for zones of
  three degrees, from 12 to 18 for zones of six.  That is the mark of a virtual
  project, so a project taken from such a coordinate chooses a band again,
  whatever the comment at `gauss_kruger.hpp:53-54` says.
- `diff_detect` reads `diff[-1]` when the first window matches
  (`cycle_slip_edit.cpp:50`): undefined for a jump there.  `within_abs_pct` compares absolute values, so that
  the alternation of signs makes no difference; a constant difference that is
  not zero counts as a slip for degree 2, whose pattern is 1, -1; and with a
  zero on one side it compares with an infinite quotient.
- `std::numeric_limits<size_t>::quiet_NaN()` is 0, so an expression takes an empty
  container for a scalar and reads beyond its end; expressions hold
  their operands by reference, temporaries (`dev/wrap/std/vectorize.cpp`)
  included.

- `Bessel_solver::rsolve` finds the azimuth of every line off the axes, but the
  back azimuth only of lines that arrive northwards: `bessel.cpp:301-304` adds 180
  degrees to an `atan` by the quadrant of the *other* azimuth.  On a meridian or
  the equator, and between a point and itself, no case of `_bessel_adjust_A1` applies,
  and its NaN never meets the threshold at line 279-282: the call does not return.
- `Vincenty_solver::rsolve` adds 180 degrees to the azimuth it finds, so that it
  gives the opposite one, and to the back azimuth once more for lines to
  the west (`vincenty.cpp:163-165`).  Along the equator it divides zero by zero
  (line 134), and between a point and itself, at any latitude, as well (line 132);
  then it never returns.
- `Gauss_lemma_solver::rsolve` takes `atan(U / V)` for the acute angle that
  `_gauss_lemma_AmRad` expects (`gauss_lemma.cpp:171`): steep lines to the north-west
  and south-east come out wrong.  The length is the mean of two quotients of which one
  is 0 along an axis, hence half of it, and NaN due north (line 176).  From a point
  to itself the answer is due east and no length, the last case of `_gauss_lemma_AmRad`.
- `xy2da` uses `atan(y / x)` and so cannot tell a direction from its opposite, and
  `da2xy` measures the angle from the other axis (`plane.cpp:9, 15-16`): they invert
  each other only at 45 and at 315 degrees.  The longitude from ECEF coordinates is
  folded by 180 degrees, which puts the western hemisphere on the opposite meridian
  (`ecef.hpp:45-51`).
- `julia_day` cuts minutes and seconds off and counts a 29th of February in every
  century year (`etc.cpp:18-19`).
- `space_intersection_ols` reads `coord.row(i)` and `list[i].coord.row(i)` with the
  number of the *image* (`space_intersection.cpp:65,69`): every point gets the
  correction of the same rows, and with more images than points the index is out
  of range.  Any one point with a small correction sets `info` to success, which
  stays when the iterations run out; otherwise `info` is never initialised.
- A `collinearity_condition_solver` given as a temporary is kept by reference
  (`kw/enums.hpp:4-5`): arguments kept beyond the statement that made
  them refer to an object that is gone.
- `write_json` prints what the name of an entry leads to, not the entry
  (`json.cpp:29-31`): of two entries with one key the later value is printed twice.

## 6. Not modelled

- Floating-point formulas: the series of the geodesic solvers and of the
  projection, orbits, ellipsoids, collinearity, relative and absolute orientation.
  Whether a loop that stops on a threshold only (Kepler's equation, the latitude
  from ECEF coordinates, the solvers) meets it is a question about
  rounding, out of reach of TLC and TLAPS.  No property assumes it: in the
  model a solver may loop for ever on any line, as Vincenty's may between nearly
  antipodal points, and does so where its iterates are NaN.  Lines across the meridian of
  180 degrees, which Vincenty's inverse aborts on (`vincenty.cpp:106`), are left out.
- Linear algebra: whether a normal matrix is singular, and what the corrections are.
  An intersection of no points is left out (`MaxPoints > 0`): it ends in its first
  sweep with `info` uninitialised.
- Formatting (`glimpse`), visualization, the R and Eigen wrappers, units.
- `Required_tags_validator` of the keyword arguments, which the code marks as
  incomplete and uses nowhere.
- Literals of booleans and angles in frames, lifetimes of the operands of an
  expression, the corners of a map index apart from their validation.

## 7. Plan

Written so far, in this order: `StdContainers`, `Pool`, `BidirectionalMap`,
`List` with its proofs, `ListDictionary` with its refinement, `Frame`, `PointSet`,
`ConvexHull`, `Table`, `CsvTable`, `CsvFrame`, `Rinex`, `Any` and `Variant` with their proofs,
`MapSheet`, `Projection`, `CycleSlip`, `Vectorize`, `Azimuths`, `Calendar`, `Kw` and
`Adjustment`, `FrameProofs`, `StorageProofs`, `CsvProofs`, `RinexProofs`,
`CsvFrameProofs` and `AlgorithmsProofs`.  Next: booleans and angles among
the literals, unary functions among the expressions, and the lifetimes of the operands
of an expression, the one hazard of the control flow no property covers.
