# A TLA+ model of FreeForm ND and its DAP handler

The repository holds two programs.  `src/FFND` is FreeForm ND, a C library and
the tools `newform`, `checkvar`, `readfile` and `chkform`: a *format file* describes the
records of a data file, and the library reads, converts, selects and writes data
from one description to another.  `src/*.cc` is a BES handler: it serves such
files by the DAP protocol and has the library convert each request's variables
into a buffer (`read_ff` in `util_ff.cc` calls `newform()`).

Everything runs in one thread.  What is hard about this code is not concurrency but
*state kept in step by flags*: one set of caches, offsets and byte counts is
advanced by four passes (read, filter, convert, write) that look at each other's flags, and that
are called from three places during set-up before the main loop begins.  Around it are long chains
of small decisions about text and numbers (which file, which name, which delimiter, which converter,
how many decimals), where what one step wrote the next one reads with other assumptions.

## Inventory

| component | state | operations | interacts with | what makes it correct |
|---|---|---|---|---|
| Caching (`dbevents.c`, loops in `ff_utils.c`, stages in `setdbin.c`) | for each end of each conduit: buffer, `new_record`, `locked`, `array_done`, `bytes_left`, mapping, file offset | `read_formats`, `dbdo_filter_on_query`, `convert_formats`, `write_formats` | mappings (arrays), record counts (name tables), conversion | no record lost, repeated, reordered, overwritten; locks released; ends |
| Arrays and mappings (`ndarray.c`) | descriptors, a pair of indices per mapping | create, increment, convert, offset, `ndarr_reorient` | caching | an element reaches the one place its indices name; resumable |
| Lists (`dl_lists.c`) | nodes around a head, a type per node | insert, add, delete, assign, first/next | everything | ring well formed, data freed once |
| Growing buffers (`freeform.c`, users counted in `setdbin.c`) | `usage`, `total_bytes`, `bytes_used` | create, resize, destroy, graft | caching, lists, set-up | freed once, never while used |
| Value conversion (`proclist.c`, `cv_units.c`, `mm_make.c`) | middle format, min/max | convert, pad, saturate | caching | a value survives the round trip or an error is raised |
| Errors (`error.c`) | a list of messages | push, pop, clear, state, display | everything | the count and the list agree; a warning is not an error |
| Binary trees (`avlins.c`) | balance factors | insert | `checkvar`'s histograms | ordered, balanced |
| Equations (`eval_eqn.c`, `eqn_util.c`) | tokens, variable values | translate, evaluate | queries, equation variables | precedence, short stacks |
| Name tables (`name_tab.c`) | constants and translators by origin | `nt_ask`, `nt_put`, merge | caching (counts), set-up | the right source answers |
| Formats and headers (`makeform.c`, `formlist.c`, `setdbin.c`) | formats and variables | find, search path, read a header by its own text, restrict | set-up, name tables | the nearest format file, each value under its name |
| Data bin set-up (`setdbin.c`, `makedbin.c`, `showdbin.c`) | formats, conduits, tables | `db_set` events in `db_init`'s order | caching | conduits pair the right ends, offsets follow headers |
| Handler (`FF*.cc`, `ffdds.cc`, `ffdas.cc`, `util_ff.cc`) | across requests: a global row cache and FreeForm's list of errors | build DDS/DAS, read, hyperslab | `newform` through a buffer | rows in order, constraint = slice, no request fails for another |
| Dates and projections (`DODS_*.cc`, `ff_ce_functions.cc`) | date parts | set, convert, compare | handler | calendar round trips, ends of periods included |
| Programs (`makedbin.c`, `newform.c`, `checkvar.c`, `chkform.c`, `readfile.c`) | arguments, log, messages; the last option; lines and faults; bins | parse the command line, show values, check fields, count values | everything | the last option wins, no message lost, each fault told at its line, each value counted once |

Hard behaviours: the interplay of flags between passes and stages, empty data blocks, queries
that empty a cache, ends of file at awkward places, failures half way through a write
or a conversion, an output without an input; counts of shared buffers on error paths; values that change their length
in place; signs that a zero cannot carry; the ends of February; work variables, bins and statics that outlive their use.
`PROJECT.json` lists each under `hazards` with its line.

How the modules hang together: `FormatCaching` implements `RecordTransfer`; `Reorient` and `ArrayReads` use the operators
of `NdArray`; `Lists` implements `ItemLists`, on which `Errors` relies.  `MCLibrary`, `MCSetUp`, `MCValues` and `MCTools`
each hold several components that share no state: the variable `part` says which one a behaviour is about, and the others'
variables stay as they are.

## What is modelled

### FormatCaching, the caches of newform

One conduit is a number; its two ends are the pinfos `In(c)` and `Out(c)`.  A *job*
is what `db_init` finds out before the first byte is read: which ends exist, their kinds
(file header, record header, table, array), record lengths, first offsets, cache sizes, the length of the
input file, what each record header says the count of its block is, the records the query is true of, those on which it
cannot be evaluated, and the records that cannot be converted.  A job also names the records *wanted* in the output: it is computed
by the job's builder from the shape of the file, never from the run, and no action reads it.

A record is known by its byte offset in the input file and a cache is the set of the
records in it.  File positions are bytes, as in the code, so that record lengths differ
on the two sides and overlapping writes are seen.  The files themselves are `disk`, a set of
written records with their positions: a write removes whatever it overlaps.

| code | model |
|---|---|
| `PINFO_NEW_RECORD`, `LOCKED`, `ARRAY_DONE`, `BYTES_LEFT` | `newRecord`, `locked`, `arrayDone`, `left` (in records) |
| `SUB_ARRAY_BYTES`, `CURRENT_ARRAY_OFFSET` | `mapped` (records), `offset` (bytes) |
| `read_formats`, one turn of its loop | `SkipFormat`, `LockFormat` then one of the `Fill...`, `WaitForData`, `EndOfData`; `FinishReading` |
| `need_to_read_next_record_header` (it moves an offset too) | `NeedRecordHeader`, `HeaderMap` |
| `dbdo_filter_on_query`, called inside the loop | part of `FillData` (`Filtered`, `FilterError`): an emptied cache leaves `at` where it is, a failure ends the pass |
| `dbset_headers`, `dbset_format_mappings`, `dbdo_process_formats` | `HeadersRead`, `RecordHeaderRead`, `CreateMappings`, `Processing`, `GiveUp`: what each caller does with the result |
| `convert_formats` | `SkipConversion`, `Convert`, `ConvertFails`, `FillTemplate`, `EndConversion` |
| `write_formats` | `SkipWrite`, `LockOutput`, `Put`, `PutFails`, `EndWrite` |
| loop of `newform` | `EndWrite`, `Finished` |

Locking a buffer and filling it are two steps, so the states in which it is held are seen.

The query fails on a record in one of two ways.  Its variables cannot be set from the record (`job.unset`; 1711): the filter returns at once, `bytes_used` is not
brought up to date, and the records kept so far lie over the first ones of the cache (`HalfMoved`).  Or it has no value on the record (`job.undefined`; a division by zero or a
logarithm of zero in `eval_eqn.c`; 1732): the records kept so far are the cache.  Each is an error of the pass, unless, in the second case, none has been kept: then
1745 to 1749 put `EOF` in place of the error, as for a cache without a match, and `read_formats` drops the rest of that cache and reads on.  The third error of the filter, a
variable that is not in the format (1700), cannot come up, as `dbset_query_restriction` (`setdbin.c:4276`) has made the equation for this very format.

Abstracted: the bytes of a record; conversion (a record converts or it does not); byte
swapping; equation variables; the read of a record header, which cannot fail half way because
`ndarr_reorient` returns 0 for a short read; `bytes_left` is unsigned in C and an integer here.
Standard output is a file written at its end.  In-memory buffers
as input or output and `DBDO_READ_STDIN` are not modelled.

### RecordTransfer, what a conversion promises

Each conduit hands over its wanted records in order, one run at a time, and either
succeeds with all of them or fails with a prefix.  `TransferSpec` in
`FormatCaching` is this specification with `delivered` read off the disk; the run `caching`
checks that every behaviour of FormatCaching implements it, and `PlainTransfer` proves it of the plain jobs.

A job is *plain* (`PlainJob`) if it has no record header and its output is a file: one table, thinned by a query or
not, or any number of arrays, with or without file headers or the template of one, in the same file or in one of
their own.  If the query has no value on some records, none of the wanted ones may be dropped with them without an error (`FailureTold`: in a cache with a wanted record,
one comes before the first such record).  It says of the job what `dbset_...` gives it: the formats of a file lie one behind the other
(`update_following_offsets_or_size`), an output starts the file or where an earlier one that writes all its records
ends, and what is wanted is every record, or every one the query is true of.  It says nothing of what may go
wrong: the input may end anywhere, be longer than it should, the query's variables may not be set, and any record may fail to convert.  322 of the 484 jobs of the run
`caching` are plain; `PlainJobsAssumption` of `MCFormatCaching` has TLC confirm it of the builders' jobs.

### NdArray and Reorient, the arrays of ndarray.c

`NdArray` holds the pure part of `ndarray.c` as functions and operators over descriptors: the coefficients of
`ndarr_do_calculations`, `ndarr_get_offset`, `ndarr_increment_indices`, `ndarr_create_mapping` with its refusals and the
dimension that a mapping is stepped by, and `ndarr_get_mapped_offset`.  Beside them stands what the proofs and properties mean by
an array: its elements, the bytes of each, the counterpart of an element in another array.
Dimensions count from 1, so that the code's `dimincrement` of -1 (the array is moved as one block) is 0, and an index runs from 0.

`Reorient` is `ndarr_reorient`, one call after another until the array has been moved, as `write_formats` and
`read_formats` call it.  Its state is what outlives a call (the mapping's two
indices, the files and buffers, the caller's count) and the position inside a call.  A source or
target is a file or a buffer; a byte is known by its offset in the super-array, so a misplaced or repeated
byte is a different value.

| code | model |
|---|---|
| the descriptor's coefficients, `total_size` | `Coefficients`, `TotalSize` |
| `ndarr_get_offset`, `ndarr_increment_indices`, its separation | `Offset`, `Incremented`, `SeparationAfter` |
| `ndarr_create_mapping`: its refusals and its tables | `Mappable`; `DimMapping`, `IndexMapping`, `GranMapping`, `GranDivMapping`, `MapDir`, `DimIncrement`, `Necessary` |
| `ndarr_get_mapped_offset` | `MappedOffset` |
| `ndarr_reorient`: checks of the buffer | `Refuse`, `FillBuffer`, `WriteWhole`, `WritePart`, `Transfer`, `RefuseTransfer` |
| its loop over blocks, by route | `Copy` (a full buffer returns in the middle), `EndOfFile` |

Not modelled: grouped (`BROKEN`) arrays, `ndarr_convert_indices`, the parsing of
`ndarr_create_from_str`, granularity 0, overflow of `long`.  A flipped mapping with pixel replication
rounds the other way from a forward one; nothing in the repository says which is meant, and
the passing jobs leave it out (`Orderly`, which `OrderlyAssumption` of `MCReorient` has TLC confirm of them).

### DataRequests, one request after another

A server process answers requests for the DAS, the DDS, data, or the DMR of one
or more containers.  Between requests nothing should be remembered, and two
things are: the row cache (`BufVal`, `BufPtr`, `BufSiz`, globals of
`FFRequestHandler.cc`) and FreeForm's `error_list`, which `read_ff` alone empties.  A dataset is
what the handler can tell apart: its fields or arrays, its whole records, whether `SetDodsDB` works on it, warns
or fails, whether FreeForm finds its format by itself, and whether `newform` can convert it.
A byte of a row is known by its dataset and offset; a message by the request that caused it.

| code | model |
|---|---|
| `ff_build_das`, `ff_build_dds`, `ff_build_data`, `ff_build_dmr` | `Request`, then `Build` once for each container (`StartCache`, `SetUpCalls`) |
| `SetDodsDB`, `Records`, `newform`: what they leave in the list | `SetUpMessages`, `Records`, `NewformMessages` |
| `read_ff`: throws if there is any message | `Raises`, `Pulled`, `ReadFails` |
| `FFArray::read` | `ReadArray` |
| `FFSequence::read`, `FFD4Sequence::read` (one row) | `EndOfSequence`, `RecordsUnknown`, `FirstRow`, `NextRow` |
| `read()` of the fields | `Row`, `ReadRow` |

Which request comes, and the order in which variables are sent, are libdap's and the BES's: any
request may follow any other, variables are sent in order.  Not modelled: a dataset with both a table and arrays,
allocation, constraints (beyond the variables their functions add).
`OneContainer` and `Served` name what the properties of rows are about: a request for one dataset, in which `newform` finds something
to process and whose format is listed unless it can be read all the same; the eight datasets of the run are `Served`.

### ArrayReads, a hyperslab of an array

One array request: `Declare` puts the dimensions into the DDS, `Ask` is a constraint that
libdap lets through, `Read` asks `newform` for the part.  An element is its real indices in the file's array,
and the model is built on the mapping operators of `NdArray`; which bytes an
element is, is Reorient's business.  The behaviour ends with the answer, so deadlock is not checked.
The array's user indices may go up or down, from anywhere and by any steps: `DimSiz` is computed from them.  What the handler asks `newform` for always counts
from 1 by the client's stride, and is right for an array that counts from 1 by 1 (`CountedByOne`).  A dimension that is declared with no
element, or fewer, as a descending one can be, leaves nothing to ask for.

| code | model |
|---|---|
| `DimSiz` in `ff_read_descriptors`, C division | `DimSiz`, `Quot`, `Declare` |
| libdap's constraint: start and stop within the declared size, any stride | `Parts`, `Slabs`, `Ask` |
| `Arr_constraint`: `edg` | `Edge` |
| `makeND_output_format`, then `make_inputs_sub_desc_str` and `ndarr_create_from_str` | `Output` |
| `make_input_array_mapping`, `extract_array`: a refused mapping is an error | `Read` |

Not modelled: formats with one dimension name twice; `data_type` image with cell-centred registration, which moves
end indices in `ndarr_create_from_str`.

### Lists, ItemLists and Errors, what everything stands on

`Lists` is `dl_lists.c` pointer by pointer: nodes in a ring around a head, and `list_replace_items`, whose two
walkers delete under each other's feet.  `ItemLists` is what callers rely on: each list is a sequence, an item is in one list,
a destroyed one in none.  `Errors` is `error.c` with its list taken as such a sequence: the counts of errors and warnings,
`err_state` and popping back to it (`db_init`), pulling from the front, and `err_disp`, which shows one message after
another and may be told to stop.

### SetUp, which conduits there are and who owns what

From the arguments of `db_init` to `db_destroy`: formats are taken from the format file's list (`TakeFormats`, `TakeRecords`),
become poles of conduits (`PassedBy`, `Mismatch`, `MakeTabular`, `SpawnVar`, `AllConnected`), the lists are freed (`FreeList`,
`FreeAll`), redundant conduits merged (`Merge`, `DropHeader`), and everything else freed (`Destroy`).  Memory is explicit: a FORMAT_DATA
owns its format, and a buffer counts its users (`usage`).  A list of formats is a sequence without repetition; the formats that
satisfy a predicate are taken out of it in its order (`Those`, with `Nth` counting), without recursion, so that the proofs can speak of them.
An array format becomes a conduit for each of its variables (`Spawned`), and the array is where its variable begins (`AsPlaced`, `Offset`); whether an output
is some input's already is asked once, before its first variable (`Paired`).
`MCSetUp` extends SetUp with the format files and jobs to try and adds the search, the name tables and the headers beside it.

### FileSearch, the search for a format file

`find_format_files` and the handler's `dods_find_format_compressed_files`, directory by directory: `SearchFormatDir`, `SearchCurrent`,
`SearchHome` (or `NoHome`), `SearchAbove` until no directory is left, then `TryUncompressed` or `GiveUp`.  Paths are
character by character as the code computes a parent directory with lengths.

### NameTables and Headers

`NameTables`: sections of a format or `.eqv` file are added to a direction's table (`AddSection`: parse, merge, translate),
and values are put (`Put`, `nt_put`), in a table or in a header, whose variables are moved when a value changes its length;
`nt_ask` is an operator.  `Headers` reads a header that has no format, by its delimiters (`SearchEol`, `ReadItem`, `ItemsRead`) or
by given names (`ReadNamed`, `NamesRead`), writes it for the output (`CopyFormat`, `MakeConstant`, `WriteHeader`), and restricts
a format to a file of names (`TrimFormat`, `MakeContiguous`).

### Conversion, Positions, Times, Catalogs

`Conversion` is one buffer of records through `ff_process_format_data_mapping`: the middle format and its data (`MakeMiddle`), then
record by record and variable by variable (`StartRecord`, `ConvertVariable`, `EndRecord`, `Finish`), with rounding, ranges, width and the
extremes.  Numbers are counts of thousandths.  `Positions`, `Times` and `Catalogs` are the converters of `cv_units.c`
behind `ConvertVariable`: a behaviour of the first two writes one position or moment in one description after
another (`Write`), by the converters in the table's order; `Catalogs` searches the codes of a catalogue line (`ff_strnstr`), packs three magnitudes
into one number, and counts times from a start that it keeps in a static variable.

### Dates

The handler's selection and projection functions of dates: `Project` and `Parsed` prepare a constraint's functions,
`ReadRow` reads a row, by the factory's form of date, and sends it or not.  A text is its numbers and what is between them
(`IsText`); what refuses an argument is the empty set of results.  What is meant is said without Julian days: `Meaning` counts days, or months for rows
of months, from year 1 (`Ordinal`), and is left open where the code means something else (a fraction, below; `Plain`).
A month as an argument (`1992-3`) is its first day when it is compared with a row of days, but in `date_range` it is all of its days, as there both
ends are compared both ways (`Overlap`).

### CommandLine, FileViewer, FileChecks, Equations, Histograms

`CommandLine` is `parse_command_line` with the options' functions, and what the programs' main functions do with the log and the
messages before and after their work.  `FileViewer` is `readfile`, a key at a time.  `FileChecks` is `chkform` on a file: one cache
of records after the other, a separate header file beside the data; on standard input `chkform` does not work (see below).  `Equations` is `eval_eqn.c`: the text made uniform (`CleanUp`),
translated inside out (`EnterTerm`, `ReplaceFunction`, `ReplaceOperator`, `RefuseRest`, `LeaveTerm`, `FinishEquation`) with work variables that
are given back, and evaluated.  `Histograms` is what `checkvar` counts: the bins in the AVL tree of `avlins.c`, with
its rotations, doubled in width when they are too many; `PrintSummaries` ends a variable.

## Runs

`MCFormatCaching.cfg` (run `caching`) checks FormatCaching over 484 jobs (`MCJobs`):
headers embedded in the data with one to three blocks of one to three records, caches of one
or two records; headers in a file of their own (one block); tables of none to four records, with and without a stray
byte at the end; two arrays that end in different rounds; queries true of every non-empty subset of up to four
records, and such queries on three that fail on one of the records, in either way; a template header; files that are cut short, whose counts are negative, missing, or told by a name table; records that do not
convert; and in each of them any write may fail after any record.  Each family is written to a file, with a separate header file, and to standard output.
It takes about 27 000 states.

Bounds: three conduits are the most that newform makes of one input kind besides arrays
(file header, record header, data); three blocks are needed to see an offset
advanced twice, or a block that comes after an empty one; caches of one, two and three records make a block end in
the middle, at the end and before the end of a cache; records of different lengths
on the two sides separate bytes from records.

The passing run leaves out, on purpose, the conversions on which the code goes wrong.  One has a run that violates a property, and is a finding
in `PROJECT.json`: in `separateHeaders`, record headers are in their own file, with three blocks, and every second header is skipped.
The others are listed under "Disagreements without a run".

`MCReorient.cfg` (run `reorient`) checks Reorient over arrays of one to three dimensions and at most 21 bytes:
sub-arrays, separations, flipped dimensions, granularity above one, elements of one and two bytes, replicated
dimensions, every route, and buffers from one element to more than the array, so that a call stops in the
middle of a row, at its end and at the end of the array.  It takes about 7 000 states.

`MCDataRequests.cfg` (run `dataRequests`) answers three requests, of any kind and for any of eight datasets: two tables of different
widths, one with a synthesized variable; an empty one; one whose format only the RSS lookup finds; arrays; and those that `newform` cannot convert.
Three requests let one leave something, a second pick it up, and a third show that it is gone.
The dataset without a listed format is asked for last only, as it leaves messages for the next request.  Two runs violate a property each:

| run | datasets | what happens |
|---|---|---|
| `staleErrors` | one that cannot be set up, then a good one | the good one fails with the messages of the other |
| `twoContainers` | two tables in one request | the second has no rows |

A table whose file ends in part of a record is left out: `read_ff` counts FreeForm's warning as a failure
(`util_ff.cc:203`), and no record of such a file can be read.

`MCArrayReads.cfg` (run `arrayReads`) asks for every hyperslab, with strides up to three, of arrays of one to three dimensions
that count from 1 by 1, as those of every format in `data/` do: up to six elements in a dimension, so that the last stride
ends at, or before, the client's stop and the array's end.  Beside them are arrays as the comment of `ndarr_create_from_str` allows them, from -2 to 2 up or down
to -2 to 4, by one to three.  It takes about 7 000 states.

`MCLibrary.cfg` (run `library`): every sequence of calls of the list functions on four nodes and three items, enough for two lists of which one has
two items, and for a replacement that deletes between its walkers, with a comparison that is not transitive; and up to three messages with codes of the system (2),
of FreeForm (500, 7905) and of a warning (16511).

`MCSetUp.cfg` (run `setup`, about 75 000 states): conduits from format files of up to three formats out of sixteen, tables and
arrays, inputs and outputs, with record formats (on both sides, or on one), equations, initial titles, an array beside a variable that is none, and headers that only the output
has as arrays; the search from eight paths with any two
format files about, or one when no format directory is given (the current one is then searched twice); three steps (a section, or a value put) with seven sections and two sets of headers; headers of two or three items
with eighteen kinds of values and all delimiters.  The run `relativePaths` searches from `aa/b/f.x`, which has no format file, and violates `SearchEnds`:
the parent of a directory without a separator is itself.

`MCValues.cfg` (run `values`): one number from and to each type and width, several variables of all kinds; positions on and beside the equator and the meridian, with each
sign; moments at both ends of every month from 1901 to 2079, leap years included; all words of two letters up to seven characters for the search, all patterns
up to four, and two surveys in a row.  What conversions lose on purpose or by mistake is named in `MCLossy` and `MCLossyTimes`.

`MCTools.cfg` (run `tools`, about 161 000 states): constraints over dates around the ends of months and years;
command lines of up to three options that set the same arguments, or the log and the messages; sessions of `readfile` of up to three lines on eleven
bytes; files with each fault, in headers of none to two records and data of none to three, and caches of one and two; expressions of up to three operators written with the least parentheses, with all, and with the other
signs; histograms of six texts in every order and of thirteen in 120 orders, of integers around 0, and of reals whose product
with a power of ten lies just below a whole number.

In `library`, `setup`, `values` and `tools` each component is checked by itself; no bound of one weakens another's.
Deadlock is not checked where a behaviour ends with an answer (`arrayReads`, `setup`, `relativePaths`, `values`, `tools`).

### Disagreements without a run

The passing runs leave these out, each at the place named; they were met while modelling.

* Caching: a query that has no value on a record, in a cache in which no record before it is kept, has its error overwritten with `EOF` (`dbevents.c:1745` to 1749): `read_formats` goes on without the rest of the
  cache ("filtered out all data for this cache", 1448), and `newform` succeeds, with a message on FreeForm's list of errors (`newform.c:168` shows it) and without
  the records that the query is true of there (`FailureTold` keeps such jobs out of the run and of the theorems); a query with record headers overwrites a block that loses records by the next one; an empty first data block is blamed on a query
  that was not asked for (`setdbin.c:6994`); an empty block between others with embedded headers in a file overwrites a header (`dbevents.c:675`); record headers
  not wanted in an output file let each block overwrite the last (`dbevents.c:705`); the final warning after a query counts the
  excluded records (`ff_utils.c:1812`); a template header for standard output is written in every round (`dbevents.c:824`).
* Arrays: from buffer to buffer with a target that is a sub-array, elements land next to each other (`ndarray.c:2816`); a file cut
  short makes a call that has moved blocks return 0 (`ndarray.c:2462`); a sub-array off the grid of its super-array is accepted (`ndarray.c:1553`);
  `granularity == 0` compares the pointer (`ndarray.c:731`).
* Handler: a sequence with a format only the RSS lookup finds has no rows and no error; a table followed by arrays is never added to the DDS (`ffdds.cc:293`), and after an error
  the catch clause deletes what may belong to the DDS (`ffdds.cc:303`).  With granularity above one the DDS may leave out the last
  element, and with descending indices it leaves out two or more, and may declare a negative number; a part of an array that counts from 0, or not by 1, is refused or is another part than was asked for, as `makeND_output_format`
  always counts from 1 by the client's stride.
* Search: a data file without an extension is looked for in its own directory again and then ends in `strcat` of a null pointer; `find_initialization_files` splits a null name;
  `dods_find_format_files` reads a directory that was never set.
* Name tables: a merge "replaces already existing constants" (`name_tab.c:2158`), but gives the flags and translators of one that it replaces to the table's last
  variable (2223); `nt_put` translates by the
  input's table whatever the direction (1929), and puts an output's value in the input's table if the output has none (320); a header variable emptied
  to length 0 does not move its neighbour.
* Headers: a dynamic header with a value distance has no value delimiter, so it always fails (`setdbin.c:838`); `get_buffer_eol_str` reads behind its two bytes; a line without the delimiter
  becomes part of the next name; a number with a negative exponent keeps only its mantissa's decimals (1.25e-2 becomes 0.01, `ff_utils.c:1060`), although "the header can be exactly
  duplicated" (`setdbin.c:794`): the run has such numbers only where these decimals do; a name contained in another is found
  first, and the second of two equal names gets the first one's value; `set_var_info` pushes an error although its caller succeeds.
* Set-up: `fd_create_format_data` and `create_array_conduit` mishandle a lack of memory; error paths leak what `lost` records; a title that names a header would be taken for data;
  an output array that no input goes with gets a conduit all the same, which reads the input file by the output's format ("An orphan output _array_? Should I allow this?",
  `setdbin.c:5703`); a variable that is a record on the output's side only is placed by `set_record_array_offsets` on both (5536), so its start counts twice on the other.
* Conversion: an integer that does not fit is saturated and an error, and the return value of a converter is ignored for a record (`proclist.c:1068`).
* Dates and positions of `cv_units.c`: `extra_days = leap` (799) overwrites the day of the year for dates after February; dates from 2080 are one day off; midnight becomes 1:01:01, and as a decimal year
  on the first of a month it is day 32 or 29 of the month before; year 00 is not readable as yymmdd; `h:m:s` is cut at seven characters; `ipe_date` cannot be turned into ymd;
  a sign is lost with degrees of 0.
* Catalogues: Boyer and Moore's search reads one character behind the end; with an ms1 neither it nor mb can be read back (×1000 in the code, ×10,000 in the comment, about 3710); `cv_geo44tim` keeps its start across files.
* Handler's dates: a month is another period as an argument of `date_range` than of `date` (`ff_ce_functions.cc:147`; see Dates); a decimal year is computed with a year that is not set yet (`DODS_Date.cc:236`); a fractional second in a `date_time` argument makes it a decimal year (`DODS_Date_Time.cc:206`);
  the "yd" factory checks the wrong variable (`DODS_Date_Factory.cc:137`); `operator!=` ignores the months' form; `DODS_JDate` is described as a Julian day number and gives a year and a day (`ff_ce_functions.cc:985`).
* Programs: an option without a value takes the next option for it (`-o -ep`); messages are lost if there is a log and their own file cannot be
  created (`error.c:624`); log and error file are compared by spelling; `chkform` on standard input reads on after every cache, not at the end of a block (478), stops after a short one (`done_processing` stays set, `dbevents.c:1795`), and before the next
  block asks for a summary without a direction (486), whose result, a null pointer, it prints (487); `readfile` reads behind a file of keys without q.
* Equations: `:pi` and `:e` are never used (1798, 1813); an equation that is its first variable alone is returned after it has been freed (1919); `fac(0)` is a domain error; `!!` and a `~` before a function are
  refused; `)a(` meets an assertion (1197).
* Histograms: a value just below a whole number goes into the bin before it, so 0.29 may be counted as 0.28 (`ff_utils.c:3351`, which rounds down before it adds the tolerance); values
  that only round to the missing-data flag are skipped, and a flag with decimals is not recognised in a variable without; more bins than asked for are kept, up to half as many again; an error while
  counting is overwritten by the unlocking; `-m` does not enforce its minimum of 6.

What the properties of FormatCaching say:

* `FilesRight`: at every step, what is written, what waits in the output cache and what waits in
  the input cache are three consecutive runs of the wanted records (`Conservation`); positions in the output follow the input
  (`InOrder`), without holes (`Packed`); a round of reading begins with every output written (`Drained`); newform raises no false alarm
  (`NoFalseAlarm`) and writes a template once (`TemplateOnce`);
* `NoOverwrite`: nothing written is destroyed;
* `CacheStable`, `LockDiscipline`: the flags mean what the passes take them to mean;
* `CompleteOnSuccess`: a success delivers everything;
* `Termination`, under `WF_vars(Next)`: the program is a single thread that always has a next
  statement until it ends, so weak fairness of the whole next-state relation is all
  that is assumed;
* `TransferSpec`: the refinement of RecordTransfer.

Those of Reorient compare each step with a definition of the mapping that does not use the code's
offsets (`Wanted`, `Place`, `Counterpart`: which element each index of the target names):

* `Faithful`, `WrittenOnce`: a byte that has been written is the one its place asks for, and is written once;
* `InBounds`: no fetch leaves the source array;
* `Honest`: a call that stops early leaves the indices and the caller's count so that the next
  goes on where it stopped (`BufferKept`, `Resumes`), and what a call reports is what it did (`CompleteMeansAll`, `RefusedOnlyTooSmall`);
* `Terminates`, under weak fairness of `Next`: a single thread, whose caller comes back until
  the array is complete.

Those of DataRequests:

* `RowsInOrder`: a sequence sends its own file's rows, from their own bytes;
* `Honest`: all of them, if the format is listed (`AllRows`), the cache stands between two rows (`WholeRows`), and a request that cannot be read fails (`FailureTold`);
* `FailsForOwnDataset`, and `OwnErrors` in the run `staleErrors`: one that can be read does not fail, and what it says is about itself;
* `Answered`, under weak fairness of `Build` and of `Respond`: one thread works on the request
  that has come until it is answered; nothing makes a client send another.

Those of ArrayReads: `DeclaredExists` says that the DDS, which counts the elements anew, declares none that the file does not have, and leaves out at most the last one of a dimension
that goes up; `NeverRefused` and `Slice`, that what can be asked for of an array that counts from 1 by 1
can be read, and that what is read is what DAP means by the constraint.  `Slice` is stated with DAP's
definition of a hyperslab, without the code's counts.

Those of the library: `KeepsSequences` is the refinement of ItemLists, with rings that are whole and items that are owned once; `LastKept` says that
`list_replace_items` removes just the items that come again later, and `ReplaceEnds` that it ends, under weak fairness of its own steps.  `MessagesKept` says that the list can be
counted, popped back to the state of any earlier moment, and described at any time; `DispComplete`, that `err_disp` logs and removes
every message though its user has seen enough.

Those of set-up:

* `MemoryKept`: a buffer has as many users as it counts and a format one owner, so nothing is freed twice or kept, to the end of `db_destroy`;
* `ConduitsRight`: every format, or each variable of an array, is connected once (an input's as often as the output asks for it), arrays to the bytes of their
  variables, neutral data to the other encoding;
* `NamesRight`: tables and headers hold what was stored last under each name, data begins behind its headers, and what has been put is asked;
* `HeadersRight`: a header read and written again has the same values under the output's names (but for the numbers above); a named or restricted variable is where it should be;
* `SearchRight`: the nearest format file is found, the file's own name first, and the search ends (weak fairness of its steps: one loop).

Those of values: `ConversionRight` compares fields and extremes with the number that the input means, read without the code's steps; `PositionKept` and `MomentKept` say that
a position or a moment is the same whatever it has been written as, and `CatalogsRight` that the search finds the first place, codes and magnitudes can be read
back and times count from their own survey.

Those of the tools: `DatesRight` (the rows sent are those of the period, or that have a day in common with it for `date_range`; their columns say their own dates, by the calendar), `CommandsRight` (each argument is what the last option for
it says; no log or message is lost), `ValuesShown` (the values that the lines ask for, one behind the other), `ChecksRight` (each faulty field told once, at its line, whatever the cache), `EquationRight` (the value
is the meaning of the expression tree, and what has none is refused) and `HistogramsRight` (every value that is not the flag counted once in the bin it lies in, the tree sorted and
balanced, widened only for the variable's own values).

## Proofs

`FormatCaching_proofs` proves, for every set of jobs, number of conduits and bound on
the file length:

* `TypeCorrect`: `Spec => []TypeOK`;
* `LocksReleased`: `Spec => []LockDiscipline`;
* `OutputsDrained`: `Spec => []Drained`;
* `CachesKept`: `Spec => CacheStable`.

They rest on `NumConduitsAssumption`, `MaxOffsetAssumption` and `JobsAssumption`
(a job is a member of `JobSpace`) and on one inductive invariant,

    IInv == TypeOK /\ AtConduit /\ LockDiscipline /\ Emptied

`LockDiscipline` alone is not inductive: the release at the end of "fill" and "put" is of `In(at)` or `Out(at)`,
so `at` must be a conduit there.  `CacheStable` needs that a cache being filled is not in
use (`AtConduit`).  `Drained` says nothing of the writing pass itself: `Emptied` adds how far it has come (every conduit
below `at` is settled) and that an end that does not exist never holds records;
reading steps must be shown not to reset the `array_done` that excuses a complete array.
There is a lemma for each action and conjunct, and `IInvStep` puts them together.

`FormatCaching_proofs` also says where the records are.  For every number of conduits, record length, cache size, file length and
query, one that fails on some records among them, and with no assumption but those three, it proves of the behaviours whose job is plain:

* `PlainFilesRight`: `Spec /\ PlainJob(job) => []FilesRight`;
* `PlainComplete`: `Spec /\ PlainJob(job) => []CompleteOnSuccess`;
* `PlainNoOverwrite`: `Spec /\ PlainJob(job) => NoOverwrite`;
* `PlainTransfer`: `Spec /\ PlainJob(job) => TransferSpec`, the refinement of RecordTransfer.

`FilesRight` is far from inductive: it sees what is on the disk and which caches are full, not why.  `PlainInv` adds, while nothing has failed,

* `Data`: for each conduit, what is on the disk, in the output's cache and in the input's are three runs, one before the other, that
  together are the wanted records below the point to which the input has been read (`Runs`); every record on the disk is at the
  place its rank among the wanted ones gives it (`Placed`); what an output still owes is what it has not delivered (`Counts`); the
  template of a header is written once (`Blanks`); no offset moves, as no record header is read (`Fixed`);
* `Passes`: how far the current pass has come, so that a pass that ends has emptied what the next one fills, and so that the end of the
  data means that every input was read to its end.

A conversion that failed keeps `Placed` and that nothing is lost; a query that failed leaves its cache out of account (`Held`), as nothing of it is written any more.  The argument has three parts.  `Places`, `Ranks` and
`PlacesApart`: a rank times a record length is below the region's end, ranks of different records differ, and the regions of
conduits in one file do not meet, so two records never share a byte.  `FullOutput`: an output that has delivered as many records as it has
must have delivered all that are wanted, by counting.  `OutputAhead` and `WrittenPlaces`: a write to a file is at the file's
position only if the outputs before it are complete or the seek goes back to a place that is still free, so that no hole and no overlap
comes of the order in which the conduits are written.  TLC checked `PlainInv` on all plain jobs of the run first.

`Reorient_proofs` follows an array of any rank through any sequence of buffers.  For every job in `JobSpace` (whose mapping
`Mappable` accepts) it proves

* `FetchesInside`: `Spec => []InBounds`;
* `ReportsTrue`: `Spec => []Honest`, and `MovedOnce`: `Spec => WrittenOnce`, if `WholeBlocks`;
* `MovedFaithfully`: `Spec => []Faithful`, if `WholeBlocks` and `Orderly`.

`WholeBlocks` says that a transfer from buffer to buffer moves the array as one block, as `Target` adds the offset to where the
last block ended (`ndarray.c:2816`, see above); the calls in `dbevents.c` are from or to a file.  `Orderly` says that no dimension
has the name of another, that one with finer steps is neither flipped nor off the super-array's grid, and that a buffer written in parts
has no separation (`Partial` returns whole elements).  Without these the code moves something else, and the theorems would be false.

`InBounds` needs only `IInv`: the job is legal and the index is below the sub-array's sizes.  The rest needs `RInv`, which adds
`Stepping` (the dimensions above the one that is stepped by rest at 0, so that a block is a run of whole elements), `Buffers` (there is
room for the next block, and what the caller keeps is what the indices point at) and `Written` (exactly the bytes below `pos` are there, and
`pos` is the offset of the indices: `Resumes`); and, for where a byte comes from, `Sources` (the buffer that is written next
begins with the element that the indices are mapped to).  `Faithful` is not inductive by itself: it sees the bytes, not where the next block begins.

The arithmetic under it comes first.  `Sums_proofs` is about sums over finite sets as the community module's fold has
them, whose order is a choice: that the fold is well defined (`FoldExists`, `FoldUnique`) and what splitting, renaming, or changing one
term does (`SumUnion`, `SumRenamed`, `SumIs`).  The first part of `Reorient_proofs` builds on it what `ndarray.c` takes for granted, for any
rank: that the coefficients' recursion is a function (`CoefficientsExist`, `CoefficientsAre`); that to count up by one moves the offset by the block and the
separation that `NDARR_GET_SEPARATION` finds (`Carry`), so that stepping meets each element in order and ends (`Walk`, `NextElement`); that an element's place is
the number of bytes before it (`PlaceIs`), no two share a byte (`OneElement`) and what lies between is separation (`SeparationHoldsNothing`); and that a
block of the sub-array is in one piece in the super-array (`BlockShift`), where `ndarr_get_mapped_offset` finds the element of the same
user index (`FoundAt`, `CounterpartIs`).  Inductions over the rank or over the elements are carried out on sets of
numbers (`FromZero`, by the least element of a well-founded order), which needs no theorem with an operator for a parameter.

`DataRequests_proofs` proves `NobodyElsesFailure`: if every dataset can be set up without a message (`CleanSetUps`; without it
the run `staleErrors` refutes the theorem), then `Spec => []FailsForOwnDataset`, for any datasets, number of requests and
of containers, and whichever of them `newform` fails.  The invariant adds that the list of errors is empty
between two steps, which is what `read_ff` achieves by taking out every message it throws, and that what is still to be built or
sent belongs to the containers of the request.

It also proves `RowsFromTheirPlaces` (`[]RowsInOrder`) and `NothingMissing` (`[]Honest`) for any fields, widths, numbers of rows and
of requests, whatever the set-up says and `newform` fails: `Spec /\ []OneContainer` implies them if every dataset is `Served`.
Both hypotheses are needed.  With two containers in a request the second has no rows (run `twoContainers`), and an unlisted format that cannot
be read would be a sequence without rows and without an error (see above); a table without a whole row that could be read would be asked for rows that are not there, but
`newform` finds nothing to process in it.  The invariant `RInv` says what the row cache holds while a sequence is sent: nothing before the first row, and
then all records of the dataset that was asked for (`Buffered`), with `BufPtr` at as many row widths as rows have been sent.  `WidthsAdd` and
`RowLayout` show that the offsets at which `read()` takes the fields are the sums of the widths before them, so that a row of fields is a row of the file,
and `NextStored` that the next one is the one behind.

`Handler_proofs` proves `WhatIsDeclaredExists`, `EveryPartServed` and `EveryPartRight`: `[]DeclaredExists`, `[]NeverRefused` and `[]Slice`
for arrays of any rank, size, start, direction and steps and every constraint, if an array names its
dimensions differently (`NamesDiffer`).  `DeclaredSize` compares the two counts: both divide, the code's `DimSiz` the number of user indices with the sign of the direction,
`ndarr_do_calculations` the distance of the ends.  For the other two the arithmetic is in `Counts` (the
count of a part, times its stride, ends inside it) and `OutputFits` (such an output array is mappable, and maps index `k` to
`start + k * stride`); the invariant only remembers where the DDS and the slab came from.

`Handler_proofs` also proves `DatesAreRight`: `DatesSpec => []DatesRight`, for any constraints and datasets of the forms that `RequestsAssumption` and
`DatasetsAssumption` describe: any texts of up to three numbers, any rows, in or out of the calendar.  It is a proof about arithmetic.  `JulianDayCounts` says that `julian_day`,
whose month term is a division of `275 * m`, counts the days of the calendar (`Ordinal`, with the leap years of all
centuries) but for a constant; `DaysBeforeMonth` and `MonthOfDay` that `month_day_to_days` and `days_to_month_day` are inverse in both lengths of year, so that a day of
the year is the same day (`ByDayIs`); `ComparedByDay` and `ComparedByMonth` that the operators order dates as their days or months do.  From these come what the
functions say: `ComparisonMeans` for one and two arguments, dates, times and both, `RangeMeans` for `date_range` (`RangeCompare`: the three
alternatives of the code are one, that the row and the range meet), and `ShownSays` for the columns, by `WriteDateReads` and `WriteTimeReads`.
The invariant `DatesInv` remembers that the clauses are those of the columns followed by those of the tests (`ClausesRight`), that only rows which were read have been sent, and
for each row and column what `DatesRight` says of it; a step adds one row, about which the clauses agree with their meaning (`Agree`, `RowSent`, `RowLeftOut`).
What `failed` stands for needs no part in it: a row at which a function throws is neither sent nor passed.

`Tools_proofs` proves `ChecksAreRight`: `ChecksSpec => []ChecksRight`, for files of any number of records and fields, and caches of any sizes (`CheckJobsAssumption`).
`ChecksRight` speaks of the end only; `ChecksInv`, which TLC checked first, says how far the header and the data have been checked
(`HeaderSeen`, `DataSeen`: what has been read but for what is fresh), that the buffers hold just what comes next (`BuffersRight`), that the line counts are the
records that have been checked (`LinesRight`), and that what is due of the checked records has been reported (`ReportsRight`).  A message is not
given twice as what has been reported lies at or above the line count of its format, and what `check_buffer` adds lies below it.  That the header is checked once and
the data every time comes of `fresh`: reading leaves `HeaderSeen` and `DataSeen` alone, and checking adds what is fresh to both.  `FlattenItems` and `FlattenOnce`
say what the community modules' `FlattenSeq`, a recursive function, makes of any sequences.

`Tools_proofs` also proves `ValuesAreShown`: `ViewerSpec => []ValuesShown`, for sessions of any lines, typed or from a file of keys, on a file of any length.  `ViewerAssumption`
says how lines are made of keys (`IsSession`): each is an option, `u` with a type, `p` with a position, or empty, and an empty one does not ask for a position or an
unknown type again, as `readfile` would then take keys of the next line for it.  What the first `k` lines mean is a recursive function (`After`), which exists (`AfterIs`).
`ViewerInv`, which TLC checked first, says that after some `k` lines the rest of the keys is what begins with the next line, what is shown, the position and the byte order
are what those lines mean, and `last_option` and `last_u_option` are those of the last line that was not empty (`Remembered`, `RepeatedNext`): without the latter an
empty line could mean anything.  `LineKeys` says that `get_option` finds the keys of the next line, whether the end of a line goes with the key before it or is a line of its own;
each action then does what the line means (`ReadMeans`, `FlipMeans`, ...).

`Tools_proofs` proves `CommandsAreRight` too: `CommandSpec => []CommandsRight`, for command lines of any words.  `CommandsAssumption` says what the words are made of
(`IsCommand`, `IsSetting`): a data file first, a word too many, an unknown option, a switch, an option without its value, an option with its values, whether they will do or not;
every line is made of such settings in one way.  It also says that no word is `"old"`, by which the model tells what was in a file before.
`CommandInv`, which TLC checked on the lines of the run, says that while the line is read some `k` settings have been passed (`Past`), that there are messages just if one of them is bad, and that if there are
none every argument is what the last of the `k` settings for it says (`Taken`, `MeantNext`).  Each action reads exactly one setting (`UnknownTaken` to `ValueTaken`);
for `-g`, `FurtherIs` says how many values it takes.  Of the outputs it says that the log's file, while there are no messages, is one that can be created and is empty
(`NewLog`: only `-ol` sets it, and another option can only empty it again), and that messages shown stay a part of their file when the log is added behind them (`PartMore`).

`SetUp_proofs` proves `MemoryIsKept`: `Spec => []MemoryKept`, for any format files and arguments in `JobsAssumption`, whether the set-up
succeeds or fails, provided that `Nil` is neither a number nor a pole (`NilIsNothing`).  `MemoryKept` is far from inductive: `Merge` and `DropHeader`
free poles, and what they free must not be owned by another conduit, nor be in the list.  `SInv` says that identities are numbered up to `made`, so that
new ones are new, and every buffer counts its users (`InMemory`); that each FORMAT_DATA in memory is in the list, at one pole of one
conduit, or forgotten by the error path of `spawn_array_conduits`, and in one of these only (`Owned`); and which lists are empty
at which stage (`Staged`), as `db_destroy` walks over conduits alone.  Each action has its lemma; `OwnBuffers`, `CopyCounted` and `GoneUncounted` are what they say of
`usage`.

`SetUp_proofs` also proves `ConduitsAreRight`: `Spec => []ConduitsRight`, for any format files whose formats have names of their own, and so the variables of a
format, and titles that name data (`FormatsAreNamed`; the code looks a description up by its name, and takes the first).  TLC evaluates this
hypothesis on the run's format files, and checked the invariant `CInv` on them before it was proved.  `CInv` remembers where conduits come from:

* what has been taken is as in the files but for what it is for (`Known`, `ForIts`), and the list has at most one input and one output of a kind, as
  each stage takes one, in the order of the stages (`InTurn`: the `Slot` of each is behind those before it); so sorting, which keeps the order of what
  is alike (`SortedArranged`), puts the input of a kind before its output (`Placings`), and the output is the input's mate (`Sided`);
* while conduits are made, there is a table `from` that gives each conduit the place of the sorted list and the variable that made it (`Traced`): each place before
  the one in hand has made its conduits, each of them once, and a conduit has what its place says (`MadeFor`).  That the output of a
  pair is passed by is the work of `PairedIs`: its name is at some pole if and only if its input was before it;
* afterwards only what is told of the poles is left (`PolesTold`), as freeing and merging take conduits away.

`EachConnected` then counts: `AsMany` pairs the conduits of a variable with the variables of the output that ask for it.


`Library_proofs` proves `MessagesAreKept` (`Spec => []MessagesKept`) and `AllIsShown` (`Spec => DispComplete`) for any codes that are natural numbers.
The counts of a message say how many errors and warnings there were up to it, and `pull_error` takes messages from the front without renumbering
the others; so the invariant `InOrder` says that the numbers rise by one from the first message that is left, wherever they begin, and at least from 1, which is why a count
is never 0 while there is a message and no two lengths of the list have the same count (`CountIs`, `BackIs`).  That a message is told by its own line of
`local_errlist` needs the correctness of `err_bin_search`: the table is sorted (`TableSorted`), the place of a code lies on the side of the
middle to which the search goes (`PlaceHalved`), so the recursive search has a value for each range and it is the place (`SearchExists`,
`SearchIs`).  For `err_disp`, `Halfway` says that what has been printed, what is in hand and what is still in the list are all there was.

`Library_proofs` also proves `ListsKeepSequences` (`ListsSpec => KeepsSequences`, the refinement of ItemLists) and `LastIsKept`
(`ListsSpec => LastKept`), for any finite set of nodes that NULL is not one of, any items, and any comparison, be it transitive or not.
`RingsClosed` is about what a walk along the pointers meets, which no step can be followed through; so the invariant `Whole` names the
sequence of each ring's nodes: the pointers are those of the sequence (`Ringed`), no node is in two or twice, and each node in use is in one.
Then `RingIs` and `RewindIs` say that the walks of `dll_first`, `dll_next` and `dll_rewind` find that sequence and its head, by induction along the ring, and
that they end, as a sequence without repetitions fits into memory (`RingFits`).  `Created`, `Inserted`, `Removed` and `Dropped` say what the
assignments to pointers do to the sequences, also where the neighbours are one node (an empty ring, a single node, the head).  `Carries` adds that an item is held once, by a
node that has a type, and by none once it is destroyed.  With that each call is a step of ItemLists or none: `CarriesOn` and `FilledBetween`
translate the place of a node among the nodes into the place of its item among the items, past nodes that carry none yet.  `list_replace_items` deletes
the node it stands on, goes back to the one before and on from there; `AtPlace` says that the walk is at a place of one list, that from there on the list
is the rest of what it began with, that what came before it and comes again is gone, and that nothing up to the second walker is the same.

Only model-checked for Reorient and DataRequests: `Terminates` and `Answered`, which are liveness.

Only model-checked for FormatCaching: the same four properties of jobs with record headers (each header moves an offset and sizes a
block, so that what is wanted is no longer a formula of the job) and of standard output (positions there are not the job's); and
`Termination`, as liveness is out of the prover's reach.

Only model-checked: FileSearch, NameTables, Headers, the modules of values, Equations and Histograms.
Much of what they promise is about recursive data (trees, expressions, texts), where proofs would need inductions over data; `Histograms` and
`Equations` use recursive operators for it, which the prover does not take.  `SearchRight`, `ReplaceEnds` and `Answered` contain liveness.

## Plan

Done: caches, arrays and mappings, requests and hyperslabs, with proofs; lists, buffers, errors, set-up, the search, name tables, headers,
values, dates, command lines, equations, trees.  Left:

1. Proofs: the theorems about plain conversions for jobs with embedded record headers.
2. Composition: the job of FormatCaching as the result of SetUp, and its counts as answers of NameTables.
3. Grouped arrays and the parsing of array descriptions; the attributes of a DAS.

## Not modelled, and why

`memtrack.c`, `menuobj.c`, `menuindx.c`, `dupform.c`: not compiled.  `afm2bfm.c`, `bufform.c`, `file2buf.c` and `transmogrify`: they make a format or a buffer of another one in one
pass, with no state of their own.  `showdbin.c`'s descriptions, prompts, the layout of what programs print: wording.  The parsing of a
variable's line in `makeform.c`: one `sscanf`.  Byte swapping and the bytes of floating-point numbers: no property tells them apart.  Attributes and types of a DAS: a table.
`FFGrid`, `FFModule` and `ff_read.c`: not made, only registering, an older `read_ff`.  `cv_noaa_eq`, feet and metres and the magnitudes of a comment line:
converters that compute without control.  `DBDO_READ_STDIN` and in-memory buffers as input are not yet modelled.  The BES and libdap are external: which request comes, and in which order variables are
sent, is left open.
