# A TLA+ verification of netabase_store

netabase_store keeps typed *models* in embedded key-value stores.  A schema
(models grouped in definitions, definitions in a repository) is compiled by
macros into table layouts and into the code that writes every table an
operation touches.  The tables live in one of four backends behind one
interface.  This project models the parts that keep state, checks them with
TLC on small instances, and proves their invariants and refinements with TLAPS.

## The system

| component | where | state | operations |
|---|---|---|---|
| storage interface | `traits/structural/database` | none | open, read and write transactions, commit, drop; per table: get, get_all, range, insert, remove, remove_value |
| arena backend | `databases/arena` | one byte region: a committed half and a work half, each a sorted slab of records | the whole interface, without a heap |
| memory backend | `databases/memory` | a sorted map from (table name, key) to a list of values | the whole interface |
| redb, fjall backends | `databases/redb`, `databases/fjall` | external databases | the whole interface, plus nested definition transactions (redb) |
| ordered keys | `keys/ordered.rs` | none | encode, decode, with an order law that every backend's ranges rest on |
| generated model tables | `model_generator.rs`, `tables/config.rs` | primary, secondary, relational, subscription, blob and custom tables of one model | orchestrate_insert, orchestrate_delete, orchestrate_get, two reads of blob chunks |
| routing and subscriptions | `definition_generator.rs`, `repository_generator.rs`, `keys/subscription.rs` | own-topic tables of definitions and repositories | the same three operations, routed by variant; registry roots |
| typed arenas | `netabase_arena/src/lib.rs` | slots, scopes carved from a parent, tokens with a generation | alloc, overwrite, reset, scope, drop |
| fixed-capacity values | `netabase_arena/src/fixed` | inline vectors, strings, maps, options | push, insert, remove at a fixed capacity |
| value codec | `tables/codec.rs` | none | canonical bytes through rkyv |
| schema macros | `netabase_macros` visitors, planners, validators | none at run time | compile-time only |

A caller opens a store on a resource, begins a transaction (the borrow checker
allows one writer and no readers beside it), and calls insert, delete or get on
the repository.  The call is routed to a definition, from there to a model,
whose generated code opens one table handle after the other on the same
transaction.  An error is passed up with `?`; the transaction is then dropped,
which discards what it staged.

Nothing runs concurrently inside a store, and no operation waits for another:
every call is synchronous and ends by itself.  What is called, and when, is up to
the caller, whom no rule obliges to make a next call.  There is nothing a
fairness assumption could rest on in this code, so the models state none, and no
liveness property.  The hard behaviours are others:

- one operation writes up to six tables, and any of the writes may fail;
- the same key is deleted and used again, in layouts that keep parts of a model
  in different tables;
- many tables share one slab, whose records move under a binary search;
- iterators are alive while other handles of the transaction write;
- every bound (region, record, key, value) is refused rather than grown;
- a store may be closed, or its process end, between any two calls;
- one list of topics is taken apart level by level, and each level writes its
  rows before it calls the next;
- key encodings are compared as bytes and must keep the order of the keys;
- slots are lent to nested scopes and given back by pointer arithmetic, while
  tokens outlive resets;
- the four backends and the two layouts are meant to be interchangeable.

What makes each component correct: a backend behaves as a set of rows under
atomic transactions (`TableStore`); a model's tables behave as a map of models
and leave nothing of a deleted key behind (`ModelMap`); whatever level a call
enters at, exactly the topics asked for get rows, of the right record
(`TopicBook`); an index of encoded keys scans in the order of the keys
(`SortedKeys`); nested arenas are a stack of lists and a stale token is never
honoured (`ScopeStack`); a fixed-capacity value is the sequence, map, string or
option it stands for, and equal values are equal bytes (`BoundedValue`).

## Modules

Each component has an abstract module, which says what it promises, and a
detailed one, which follows the code and is shown to implement it by a
refinement mapping.

| component | promises | detailed | instances | proofs |
|---|---|---|---|---|
| storage interface | `TableStore` | | | |
| arena backend | `TableStore` | `ArenaStore` | `MCArenaStore` | `ArenaStoreProofs` |
| memory, fjall, redb backends | `TableStore` | `MemoryStore`, `FjallStore`, `RedbStore` over `BackendCalls`, together `Backends` | `MCBackends` | `BackendsProofs` |
| generated model tables | `ModelMap` | `ModelStore` | `MCModelStore` | `ModelStoreProofs` |
| routing, subscriptions | `TopicBook` | `SchemaRouting` | `MCSchemaRouting` | `SchemaRoutingProofs` |
| ordered keys | `SortedKeys` | `EncodedIndex` (an index over any encodings), `OrderedKeys` (the code's), together `KeyIndex`; all over `ByteOrder` | `MCKeyIndex` | `EncodedIndexProofs`, `KeyIndexProofs` |
| typed arenas | `ScopeStack` | `TypedArena` | `MCTypedArena` | `TypedArenaProofs` |
| fixed-capacity values | `BoundedValue` | `FixedValues` | `MCFixedValues` | `FixedValuesProofs` |

An abstract step chooses its arguments by `\E`, so a refinement alone would let
a concrete call do another call's work: an insert that lost its topics would pass
for one that asked for none.  `ArenaStore`, `Backends` and `SchemaRouting`
therefore have `CallsActOnTheirArguments`, which ties each call to the abstract
call with the same arguments, and `EncodedIndex` returns what a call was about in
`ret.on`.  `ScopeStack` and `BoundedValue` choose their arguments by `\E` too and
have no such property: there the properties beside the
refinement limit what a mixed-up argument could do.

### TableStore

Rows `[name, key, val]` with a committed and a staged set.  `durable` says whether
rows survive a closed handle; `Crash` may come at any point.  `CapOf` gives the
room of a region; the other backends have enough of it for every row.

### ArenaStore

`base` and `work` are the two halves' slabs as sequences of records;
`bufLen` is the region's length, so `half` and `capacity_for` are the code's
arithmetic and a slab is full when the code says so.  `cursor` is the live
iterator with its index; `ret` is what the last call returned.  Byte strings are
ranks in byte order: natural numbers.  The actions are the methods of the store,
its transactions and its tables under their own names; the operators under
"The slab" are the functions of `region.rs`.

- Indices start at 1.  `lower_bound`, `lower_bound_full` and `lower_bound_name`
  are given by where they end; `MCArenaStore` runs the first two loops as they
  are written and `SearchesAgree` compares them on every sorted slab of up to
  three records.  `lower_bound_name` has the same loop.
- `put_unique` and `remove_key` remove records one at a time while the record at
  a fixed index matches; `RemoveRun` is what the loop leaves.
- A write that finds the slab borrowed by an iterator panics; unwinding drops
  the transaction (`WriteOp`, second disjunct).
- The bytes past the live count, and the work half between transactions, are
  never read and are left out.  Table names longer than the limit and stored
  bytes that fail to validate are left out; the code calls the first a bug.

### Backends

`BackendCalls` has what the three share: the transaction calls and the state
`base`, `work`, `iter`.  `MemoryStore` keeps a sorted map from (table, key) to a
non-empty ascending list of values, and scans between composed fences.
`FjallStore` keeps a keyspace per table; a multimap entry is the key and the
value in one byte string, and a key's values are found by a prefix seek.
`RedbStore` keeps tables that exist only once written, and flattens a multimap
into rows through an iterator of iterators.  `Backends` chooses one of the three
and maps it to `TableStore`.  The fjall and redb libraries are external: sorted
maps under atomic transactions with snapshots, as the code uses them.

- fjall compares a multimap scan's bounds, which are bare keys, with whole
  entries.  `BoundsMissOnlyTheirKey` states precisely what that does: an
  inclusive upper bound leaves its key's rows out and an exclusive lower bound
  lets its key's rows in.  The refinement covers the other scans; nothing in the
  repository documents these bounds for a multimap, so this is no finding.
- In memory all tables share one map, and a scan without an upper bound ends at
  the table's name with U+10FFFF appended.  The names that lie below that fence
  are those that extend the table's (`Extensions`), and a model's auxiliary tables
  have such names: `Note_Blob` extends `Note`.  `FenceAssumption` asks only that a
  fence lies behind its name.  Scans that may run on into longer names (`RunOn`)
  are steps of `AnyScanSpec`; `Spec`, which the refinement is about, has the
  memory scans that end in their table (`FencedScans`): those with an upper bound,
  and all of a table whose name no other extends.  No caller is kept from the
  others; the scan without bounds in `tests/backend_contract.rs` is of a table
  whose name no other extends.  `FenceLetsInOnlyLongerNames` says exactly what each memory scan finds.
- The memory map panics on a range whose start lies past its end and on one that
  leaves out both of the one key it names; `ScanRangesAssumption` keeps such
  ranges (`Inverted`) out.
- A sorted map's iteration, a prefix seek and a sorted slot are all `InOrder`: the
  elements of a finite set by how many lie before them.

### ModelStore

The model has a key, an indexed field, a list relation, an optional relation, a
blob and subscription topics: one of every generated write.  `layout` is the
schema's (pure or not, whole or field blobs), fixed at the start.  `committed`
and `staged` hold the six tables.  `InsertSteps` and `DeleteSteps` are the
tables after each step of the generated code, in its order; a call either ends
after the last or is `Interrupted` after one of the earlier writes, and then
only `Drop` follows.  A content hash stands for the model it is made from and a
blob is one chunk (values have a fixed width, so their number of chunks never
changes).

`RoundTrip` names what a caller must respect for a get to return what was
inserted; it is a guard only when `CarefulCallers` is true.  The condition is
the weakest found: outside pure layouts, no insert over an old blob with the
blob category off; in pure layouts, relations and blob on, ascending lists, and
no insert over a live key.  The run `PureReinsert` shows what happens without it.

### SchemaRouting

The three generated levels.  The store is one map from `<<scope, topic, key>>`;
a scope is the path of a level.  Each level's insert is the list of writes it
makes: its own topics' rows in declaration order, then those of the level below
for the topics `rekey` leaves it.  A call that fails has made some first part of
its list, and the caller may still commit; `failed` remembers that it did.
Deletes descend by address and key and refuse a mismatch at either level.

`Among` is the code's filter of a list, given by rank: the n-th entry kept is the
one with n - 1 kept before it.  `Written` lets the last write to a cell win.
`CallsActOnTheirArguments` says of an insert that enters at any of the levels
that it is the book's insert at that depth, of that record, that content and
those topics; of a delete, that it empties its own key's cells or refuses its own
address.  `TopicAssumption` says what the generated types guarantee: declared topics come
in lists, and a caller's topic keys name declared topics, each under its scope.

### OrderedKeys, EncodedIndex and KeyIndex

`OrderedKeys` has one operator for each implementation of `OrderedKeyEncoding`:
`unsigned`, `signed`, `char`, `bool`, `byte_array`, `string`, `vec`, `tuple` (`()`
is the one without fields) and the generated `key_enum`.  Each gives a record of
the type's values, their order, the encoding, the decoding and the worst-case
length, over bytes of `Base` values instead of 256; those of generic types take
the records of their parts, as the code's do.  A decoder's loop is a function of
the number of turns, each of which (`next_byte`, `next_item`, `next_field`) fails,
ends, or goes on behind what it has read.

`EncodedIndex` keeps a set of keys as their byte strings, as the backends do, and
goes by byte order alone: an insertion, a removal and a scan seek the place of
the encoding.  The encodings are parameters of it, and `Lawful` is what
`OrderedKeyEncoding` asks of them: a key fits its buffer, comes back from it, and
compares as its bytes do.  It is mapped to `SortedKeys`, which orders the keys
themselves.

`KeyIndex` is the one with the encodings of the other: `Impl` says which
implementation each type has, each configuration gives the parameters of
`EncodedIndex` what follows from it, and `KeyIndexAssumption` says that it did.
Both compare bytes as `ByteOrder` does.  `EncodingsAreLawful` checks the laws for
every type the run tries.  Bytes from elsewhere are decoded too.

### TypedArena

`stack` holds the live arenas: an open scope borrows its parent, so only the top
one is used.  A pointer is a slot index; an arena is its two halves, what it took
from its parent, its brand and its generation.  `resets` is a history variable:
what the generation would be without wrapping.  Serialization may fail and leave
a torn slot.  `CarefulCallers` keeps callers from allocating in an arena they
split, which the run `ArenaSplit` shows to go wrong.

### FixedValues

The inline vector, map, string and option as an array of live and free slots, an
archived copy beside them, and validation of archived bytes on reading back.
`EqualValuesArchiveAlike` is what comparison and hashing byte for byte rest on.

`check_bytes` tests the length, each element, and all of a string.  It does not look
at the default in the free slots of a vector or map, at the payload of an absent
option, nor at the order of a map's keys, and `deserialize` takes all slots as they
are.  So bytes that none of these types wrote can be read back as a value without
the canonical tail that the docs of `NbVec` and `NbOption` promise, and as a map whose keys
do not ascend.  There are therefore two specifications.  In `AnyBytesSpec` any bytes
of an archive's size (`Foreign`) are loaded: the type invariant holds there.  In
`Spec` a vector, map or option loads what such a type wrote, or a length that does not
fit (`Written`); that equal values have equal bytes, and the refinement, are
claims about `Spec` only.  Strings load any bytes in both.

A map is searched by halving, as a recursive function of the two
ends.  `Utf8Assumption` is what the code takes from UTF-8: the bytes of two
characters differ at a byte both have, and there as the characters do.

## Runs

| run | bounds | shows |
|---|---|---|
| `ArenaStore` | a plain table and a multimap, keys and values 1..3 (3 is too large), room for two records, a region too short, four ranges; about 127,000 states | types, order, one record per key in plain tables, capacity, refusals stage nothing, and that every call answers as the abstract store does to its arguments |
| `ModelStore` | two keys, three models (two versions of one key), a full policy and one with three categories off, four layouts; about 130,000 states | no orphans, an exact unique index, and that the tables behave as a map of models |
| `ModelIndex` | two models with one indexed value | fails: the index is a plain table |
| `PureReinsert` | two versions of one model, pure layout | fails: a re-insert merges relations |
| `Backends` | a plain table and a multimap whose name extends the other's, two keys, two values, all ranges that are not inverted, three rows in a write transaction; about 64,500 states | each backend answers as the abstract store does, and has or has not its rows after a restart; what a memory scan finds |
| `BackendsScans` | the same, any scan | fails: an unbounded memory scan yields the rows of tables whose names extend its table's |
| `SchemaRouting` | two definitions, three models, one topic name at all levels, two records and three rows; about 1,800 states | routing of topics, each call against the book's with the same arguments, rows of the right record, misrouted deletes, partial failures committed by the caller |
| `TypedArena` | three slots, three arenas, one reset of each, one token, a generation modulo 4, two interchangeable values; about 427,000 states | exact slot accounting, no shared slot, stale tokens refused, zeroizing, and a stack of lists |
| `ArenaSplit` | the same without careful callers | fails: an allocation after a split is filed in the wrong slot |
| `KeyIndex` | bytes of four values, fourteen key types, two keys, foreign byte strings of up to five; about 17,200 states | the laws of every encoding, an index that scans in key order, buffer sizes, canonical decoding |
| `KeyTuple` | a string followed by an integer | fails: the encoding is not prefix-free |
| `FixedValues` | capacities 3, 2, 3, 1, two elements, three map keys, texts over a NUL and a two-byte character; about 5,200 states | each is the value it stands for, equal values archive alike, for vectors, maps and options that load what these types wrote |

Why the bounds are enough.

- *Arena store.* Two tables, two usable keys and two usable values make every
  relative position of two records occur, with a table before and a table after;
  room for two lets a slab be full with one table, with the other and with both,
  so an upsert on a full slab and a refused insert both happen.  Longer slabs
  are covered by the theorems.
- *Model store.* Two keys show interference in shared tables, and two versions of
  one key differ in every field but the indexed one, so anything a delete leaves behind changes a
  later get.  More keys and models are covered by the theorems.
- *Backends.* Two values of one key beside another key's row are what prefix
  seeks, fences and the flattening iterator can confuse; the names' ranks put the multimap
  between the plain table and its fence, as the generated names do; three rows, counted over
  committed and staged, have that.  `MCFewRows` is a constraint: calls past it
  are checked, but nothing follows them.
- *Routing.* Each level has siblings, and the topic name `all` is declared by
  five scopes, so a row that goes astray lands in a table that exists.
  `MCFewCells` is a constraint in the same way.  Every step is compared with every
  call and all its arguments, which is what keeps the rows few.
- *Typed arena.* Three slots hold an arena with a scope in a scope, each with a
  slot; one reset makes a token stale.  With `U32 = 4` brands and generations do
  not wrap within three arenas and one reset: a wrap, which the code accepts
  after 2^32 of them, is outside the model's claims.
- *Keys.* Four byte values keep apart 00, FF and two in between, which is all the
  escapes, markers and sign bits look at; every kind of type occurs alone and
  inside others.
- *Fixed values.* Capacity three has a front, a middle and an end to insert at
  and remove from, and each kind reaches full and empty.

The runs that fail state what a document says of the code, and each has an
entry under `findings` in `PROJECT.json`.

## Proofs

Every theorem holds for all values of the constants, under the assumptions of
the module it is about, which TLC evaluates on every run.

### ArenaStoreProofs

Assumptions `ArenaAssumption` and `ScanRangesAssumption`: ranks are natural
numbers, table names and keys positive, header and record sizes positive.

- `TypeCorrect`: `Spec => []TypeOK`
- `AlwaysSorted`: `Spec => []SlabsSorted`
- `AlwaysSingle`: `Spec => []PlainTablesSingle`
- `AlwaysWithinCapacity`: `Spec => []WithinCapacity`
- `RefusalsStageNothing`: `Spec => RefusedStagesNothing`

The invariant is `Inv`: `TypeOK` and, for both slabs, `GoodSlab`: sorted, one
record per key in a plain table, within capacity.  Order and types are inductive
together; the other two parts are not without them.  One record per key needs
the order: `put_unique` removes the run that starts at the lower bound, and only
in a sorted slab is that run all of the key's records.

The argument goes bottom-up: the least index of a set exists
(`FirstIndexIsLeast`); on a sorted slab the bounds separate smaller from larger records
(`LowerBound`, `LowerBoundFull`); inserting at a separating index and cutting a
run keep a good slab (`InsertGood`, `CutGood`); so each slab operation does
(`PutUnique`, `PutMulti`, `RemoveKey`, `RemovePair`), and each action
(`StepInv`).  `RefusalsStageNothing` adds that a put that is refused has found nothing
to remove: a removal makes room.

For the refinement:

- `ArenaImplementsTableStore`: `Spec => ImplementsTableStore`, if `EvenBufLens`
- `ArenaCallsActOnTheirArguments`: `Spec => CallsActOnTheirArguments`

`EvenBufLens` says that a region that is opened has two equal halves.  With an
uneven one no write transaction can begin: the copy that seeds it panics, though a
comment in `open` says that the region must split evenly.  The abstract store does not
foresee that; the regions of the run `ArenaStore` are even.
The second theorem does without it.

The invariant for these is `MapInv`: `Inv` and `CursorAhead`, which says that no record from
a live iterator's index on lies before its low bound.  A scan is lazy: it starts at a
lower bound and ends at the first record past its high bound, so the rows it has
still to yield are only known to be those in its range because nothing before
the range follows.  Each slab operation's effect on the set of rows has a lemma
(`PutUniqueRows`, `PutMultiRows`, `RemoveKeyRows`, `RemovePairRows`); the order of
the slab makes the record at a lower bound the first row of a key (`GetFinds`)
and the record at the index the first row of the rest (`FirstRecord`); a sorted
slab has no record twice, so its length is the number of rows and the two stores
are full at the same time (`RowsCounted`).

### ModelStoreProofs

Assumption `ModelAssumption`: models, policies and layouts have their types, and
"no row" is none of the values.

- `TypeCorrect`: `Spec => []TypeOK`
- `NeverOrphans`: `Spec => []NoOrphans`
- `IndexStaysExact`: `Spec => []UniqueIndexExact`
- `TablesAreOneMap`: `Spec => ImplementsModelMap`, for careful callers

The invariant `Inv` says that the tables between calls are `Whole`: of their
types, without orphans, with an exact index, and with every primary row filed
under the row's own key.  The last part is what makes the rest inductive: a
delete removes relations by the key it reads from the row it found.  Each of the
five steps of an insert keeps whole tables whole, since the primary row comes
first, so even an interrupted insert does; an interrupted delete does not, and
the proof needs that a failed transaction is never committed.

For the refinement `MapInv` adds that every live key's model, as a get would
assemble it, is one that a caller inserted (`Mapped`): a get never returns a model
nobody wrote, in particular not "no model".  `InsertHydrates` shows that an insert under
`RoundTrip` makes its key give back exactly the inserted model and leaves every
other key's model alone.  In the pure layout this takes `NeverOrphans` (a free key
has no relations left from a former life) and `AscendingReadBack`: an ascending
list is what the multimap yields of its elements, by counting the elements below
each place.  Then each call maps to the map's call of that kind or to its failure
(`StepMaps`).

### TypedArenaProofs

Assumption `ArenaAssumption`: sizes are natural numbers and the markers for slots
without a value are none of the values.

- `TypeCorrect`: `Spec => []TypeOK`
- `AlwaysNested`: `Spec => []Nested`
- `NoSlotShared`: `Spec => []NoAliasing`
- `StaleTokensAlwaysRefused`: `Spec => []StaleTokensRefused`, if `MaxResets < U32`
- `ZeroizeAlwaysClean`: `Spec => []ZeroizeLeavesNoValue`, for careful callers
- `ArenasImplementScopeStack`: `Spec => ImplementsScopeStack`, for careful callers
  and if `NothingWraps`
- `CarefulAllocHoldsValue`: `Spec => AllocatedSlotHoldsValue`, for careful callers

The invariant is `Inv`: `TypeOK` and `Chain`, which says of any two arenas of
the stack, not only of neighbours, that the upper lies in the slots the lower
lent (`Inside`).  Types need it: a drop subtracts from the parent's pointer what the
child took, and only the chain shows the result is no less than the parent
allocated.  The three ways the stack changes have a lemma each: the top arena
changes within its region (`ChainSetTop`), a scope is pushed (`ChainPush`), a
scope is popped (`ChainPop`).  On top of `Inv`, `Counted` (a generation is the
number of resets) gives the theorem on tokens, and `Clean` (a value lies in an
allocated slot of some live arena) the one on zeroizing.

`NothingWraps` (`MaxBrands < U32` and `MaxResets < U32`) keeps brands and
generations, which the code lets wrap, from coming round: the abstract stack
identifies a list by them.  `CarefulAllocHoldsValue` is the counterpart of the run
`ArenaSplit`, which shows the same property to fail for careless callers.

For the refinement the invariant is `MapInv`: `Inv`, `Counted` and `Fits`: every arena lies within
the buffer.  The lists
are read off the slots (`Items`), so a write must be shown to reach one list and
no other: that is where `Chain` is needed again (`ListsSetTop`, `ListsBelow`).

### SchemaRoutingProofs

Assumption `TopicAssumption`.

- `TypeCorrect`: `Spec => []TypeOK`
- `ModelTopicsKept`: `Spec => []ModelTopicsHaveRecords`
- `RowsTell`: `Spec => RowsTellTheirRecord`
- `MisroutedKept`: `Spec => MisroutedDeletesChangeNothing`
- `SchemaImplementsTopicBook`: `Spec => ImplementsTopicBook`
- `CallsDoTheirOwnWork`: `Spec => CallsActOnTheirArguments`

The argument goes down the levels and up again.  `AmongIs` says that filtering by
rank keeps exactly the entries asked for; so `rekey` hands a level the topics
under its name, one step shorter (`DefinitionHears`, `ModelHears`); so the cells
each level writes are those of its own topics and of the levels below
(`ModelRows`, `DefinitionRows`, `RepositoryRows`).  A call then fills cells with
one record's content, empties cells of one record, or refuses (`Fills`, `Empties`,
`Refuses`, and `Steps` for the whole of `Next`), and the invariants and action
properties need only that.  `IInv` is `TypeOK` and `ModelTopicsHaveRecords`; an insert
keeps it because the record's row is the first a model writes, and a
delete because it takes the row of every topic the model declares.

The refinement maps an insert to filling the cells on the record's path that the
caller asked for (`FilledIs`), and a delete to emptying the record's cells below
the model (`EmptiedIs`): the second needs `TypeOK`, since only typed stores have no
row under a topic the model does not declare.  The writes a failed call made are
in both cases a part of those cells.  `CallsDoTheirOwnWork` is proved from the same lemmas,
level by level: they name the depth, the record, the topics and the content.

### BackendsProofs

Assumptions `TablesAssumption`, `ScanRangesAssumption`, `FenceAssumption`.

- `AlwaysInForm`: `Spec => []BackendInv`, the inductive invariant
- `TypeCorrect`: `Spec => []TypeOK`
- `BoundsKeepToTheirKey`: `Spec => []BoundsMissOnlyTheirKey`
- `FencesKeepOthersOut`: `Spec => []FenceLetsInOnlyLongerNames`
- `EveryBackendImplementsTheStore`: `Spec => ImplementsTableStore`, if `FinitelyManyRows`
- `CallsDoTheirOwnWork`: `Spec => CallsActOnTheirArguments`, if `FinitelyManyRows`

`FinitelyManyRows` says that there are finitely many names, keys and values to make
rows of, as on any machine.  The abstract store compares its rows with a
capacity; that of these backends is the number of all rows there are, which
must then be a number.

`BackendInv` has one part for every backend.  `TypeOK` alone is not inductive for
two reasons.  A scan in progress was started from the data, and only if its rows
ascend is the next one the first of those left (`HeadIsFirst`); so the invariant
says of each iterator that what it holds is in order: rows in memory
(`MemoryInv`), entries that stand for rows in fjall (`FjallInv`), values still to
flatten in redb (`RedbInv`).  And a read transaction's snapshot must still be what
is committed (`TxInv`).  Finiteness is part of it as well: sorting by rank needs
it.

Four groups of lemmas carry the rest.  `InOrderIs` and `SortedIs` say that a finite set of byte
strings in order has every element once, ascending; the order on composed
strings is the order on rows (`BeforeIs`), and `WithinIs` gives a range.  Each
backend's reading is then compared with the rows it stands for: fences in
memory, prefix seeks and decoding in fjall (`EntriesAscend`), flattening in redb
(`EntriesIs`).  Each write adds or removes the rows it names (`PutMultiEntry` and
its neighbours).  Finally every call has a lemma for each backend
(`MemoryInserts`, `FjallInserts`, `RedbInserts` and so on) that it keeps the invariant and is the abstract call with the same arguments
(`Keeps`), from which both refinement and `CallsDoTheirOwnWork` follow.

All of these are about `Spec`, in which the memory backend scans a table whose name
others extend with an upper bound only; without that, an iterator holds rows of
other tables, as the run `BackendsScans` shows, and neither `BackendInv` nor the
refinement would hold.  `FencesKeepOthersOut` is about the scans themselves, all of
them and for any table names: what a memory scan finds besides its own table's rows
are the rows of longer names, and only without an upper bound.

`BoundsKeepToTheirKey` needs the ranges to be as they are: for one that leaves out both of
its one key the statement is false, which is how `Inverted` came to say so.

### FixedValuesProofs

Assumptions `FixedAssumption` and `Utf8Assumption`.

- `CleanSlots`: `Spec => []IInv`, the inductive invariant
- `TypeCorrect`: `AnyBytesSpec => []TypeOK`
- `CanonicalTail`: `Spec => []EqualValuesArchiveAlike`
- `ImplementsValue`: `Spec => ImplementsBoundedValue`

All but `TypeCorrect` are about `Spec`: the vectors, maps and options loaded are
archives that these types wrote, since `check_bytes` lets others pass.  `TypeCorrect` takes
whatever bytes are loaded; its invariant is `SInv`, and the one thing in it that is not
immediate is that a search over keys in any order still ends within the slots
(`SearchWithin`).

`IInv` says of the value and of an archive (`Clean`) that the slots behind the
live ones hold the default, that the live keys of a map ascend, and that the
live bytes of a string are a text's.  Neither checked invariant is inductive
alone: that equal values have equal bytes needs that there is nothing behind the
live slots but defaults, and that a map's bytes can be searched needs that every call keeps
the keys in order.

Two recursions stand between the slots and what they mean, and both are dealt
with by facts about sets of numbers: a set with 0 and every successor is all of
them, and a set of numbers has a least one, from which follows that a function defined by recursion
exists (`FlattenDefined`, `SizeDefined`, `SearchDefined`).  `SearchIs` says that
halving ends at the key or where it belongs, and stays within the slots while it
looks.  `TextConcat` and `TextAt` say where in the bytes of a text a character's
are; so comparing bytes compares texts (`TextCompares`) and two texts with the same bytes
are the same.  Shifting slots is inserting into and removing from a sequence
(`ShiftRight`, `ShiftLeft`); for a map, a sequence of ascending entries is a
function read in the order of its keys (`EntriesAre`, `PutEntry`, `TakeEntry`).  Then every call has a lemma
(`PushStep` and its neighbours) that it keeps `IInv` and is the abstract call.

### EncodedIndexProofs

Assumption `IndexAssumption`, and the hypothesis `LawfulTypes`: the encodings of
all types keep the laws, which `KeyIndexProofs` shows for the code's.

- `AlwaysInOrder`: `Spec => []InOrder`, the inductive invariant
- `TypeCorrect`: `Spec => []TypeOK`
- `KeysAlwaysFit`: `Spec => []KeysFit`
- `BytesStandForKeys`: `Spec => ImplementsSortedKeys`

`InOrder` says that the index holds encodings of keys of its type, ascending;
`TypeOK` only says byte strings, which may decode to nothing.  Byte strings are strictly ordered
(`Compared`, `ComparedOn`), so the place of an encoding parts the index into what
lies below it and what does not (`Placed`).  Insertion there, removal from there
and everything from there on then add, remove and yield the right encodings
(`Inserted`, `Removed`, `ScanStep`), and the laws carry this over to the keys.

### KeyIndexProofs

Assumptions `KeyAssumption` (a byte has an even number of values, at least four)
and `KeyIndexAssumption`.

The laws of `OrderedKeyEncoding` are `Laws(k, F)` of an implementation `k`: its
operations have the right types (`Shaped`), a key fits its buffer (`Fits`), any
two keys are comparable and their encodings compare as they do (`Orders`), a key
comes back from its encoding and all of it is used (`RoundTrips`), and what
decodes begins with the encoding of what it decodes to (`Canonical`).  An
encoding is a part of a longer key, and not all are prefix-free, so the order and
the round trip are asked for with any bytes behind it that are empty or begin
with a byte of `F`.

- `UnsignedLawful`, `SignedLawful`, `CharLawful`, `BoolLawful`, `ByteArrayLawful`:
  for every width, and anything may follow
- `TextLawful`: for every capacity, if no FF follows
- `VecLawful`: for every capacity, if its elements' implementation keeps the laws
  where a marker or the terminator follows; then anything may follow
- `TupleLawful`: if each field keeps the laws where what `Follows` it does; then
  what may follow the last may follow the tuple
- `EnumLawful`: if the payloads keep the laws and there are no more of them than
  a byte has values
- `MayFollowText`, `TwoTextsLawful`: what may stand behind a text, and the tuple
  of two as an example; behind a field that anything may follow, any may stand
  (`BytesFollow`)
- `WellBuiltLawful`: every implementation put together of these keeps the laws

`WellBuilt` is the hypothesis of the last, and no law is in it: a set of
implementations with a rank, each one of the code's over members of a lower rank,
and for each the bytes that may come next, so chosen that no FF follows a text.
The proof is by induction over the rank.  Key types that can be nested to any
depth have such a rank; a string before an integer has no such choice of bytes,
and the run `KeyTuple` shows what goes wrong with it.

For an index whose types are of such a set (`BuiltKinds`):

- `EncodingsAlwaysLawful`: `Spec => []EncodingsAreLawful`
- `OnlyCanonicalBytes`: `Spec => []OnlyCanonicalBytesDecode`
- `KeysInOrder`: `Spec => []TypeOK /\ []KeysFit /\ ImplementsSortedKeys`
- `KeysAreApart`: `Spec => []PrefixFree`, if moreover no type ends in a text
  (`OpenKinds`)

A recursive function equals what its equation says only if the equation has a
solution, so each is first shown to have one (`FlattenDefined`, `Recursion`,
`Counted`); what holds of every value is shown by induction with `NaturalsFrom`,
which takes a set and no operator.  For the encoders: the integer that bytes stand
for is told by the first place where they differ (`NumberOrder`); byte strings in
pieces compare as the first pieces that differ, with all that stands behind
those, do (`OrderAround`, `FlattenOrder`), which is why `F` is needed.  For the decoders: each turn that stands before an encoding reads it
(`ByteRead`, `ItemRead`, `FieldTurn`), which gives the round trip; and each turn
keeps that what was read so far encodes to the bytes used so far (`TextTurns`,
`VecTurns`, `TupleTurn`), which gives canonical decoding.

### Only model-checked

- That `MCArenaStore`'s search loop ends where the lower bounds say.

The properties that fail have no theorem, of course, and there is no liveness to
prove.

## Plan

1. `TableStore`, `ArenaStore`: done, with proofs of the invariants and of the
   refinement.
2. `ModelMap`, `ModelStore`: done, with proofs of the invariants and of the
   refinement.
3. `TopicBook`, `SchemaRouting`: done, with proofs of the invariants and of the
   refinement.
4. `MemoryStore`, `FjallStore`, `RedbStore`, `Backends`: done, with proofs of the
   invariants and of the refinement.
5. `OrderedKeys`, `SortedKeys`, `EncodedIndex`, `KeyIndex`: done, with proofs of the
   laws of every implementation, of the invariants and of the refinement.
6. `ScopeStack`, `TypedArena`, `BoundedValue`, `FixedValues`: done, with proofs of
   the invariants and of the refinement.

Worth adding: models whose primary key is computed from other fields; callers
who commit after a failed insert in `ModelStore`, as `SchemaRouting` has them.

## Not modelled

- The value codec: a pure conversion through rkyv, taken as injective.
- The macros' own passes over the syntax: they run in the compiler and keep no
  state at run time.
- The redb and fjall libraries: external, taken as sorted maps under atomic
  transactions that survive a restart.
- `RedbDefinitionTransaction`: nothing in the repository constructs one.
- The two reads of blob chunks, the iterators and the formatting of arenas and
  fixed values, and `merkle_root`: they change nothing and no other call uses
  what they return.
- A model's required one-to-one relation and its custom tables: the first is
  written like the optional one when present, the second are the caller's hooks
  and appear as an error at the end of a call.
- Error texts.
