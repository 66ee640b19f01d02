# TLA+ models of the documentation tools of c-link

These modules model the Python tools under `src/docs/`. Most of them model
`src/docs/librequirements.py`, the batch tool behind
`parse_requirements.py`. It reads a CSV catalog of requirements and the
Doxygen XML of the implementation and of the tests. It then writes five
outputs: a specification report, a VS Code hover file, a requirement list, a
test case list and a location (traceability) report.

## Inventory

| Part | Source | Interacts with |
|---|---|---|
| Catalog parser and validators | `parse_requirement_file`, `Requirement._get_id_parts`, `id_prefix`, `id_number`, `detect_requirement_duplicates`, `describe_missing_requirements` (lines 11-140) | gives the sorted requirement list to every report |
| Location extractor | `parse_doxygen_xmlfile`, `parse_doxygen_files`, `FunctionDescription` (41-51, 158-255) | gives implementation and test descriptions to the index |
| Cross-reference index | `find_locations_per_requirement`, `find_unique_locations`, `find_invalid_tag_locations`, `find_requirements_with_test_cases` (258-347) | used by the location report |
| Report renderer | `ReportWriter` and the five `build_*` functions (350-709) | writes the output files |
| Orchestrator | `analyze_requirements` (715-757) | calls everything in a fixed order; an exception ends the run |
| CLI | `parse_requirements.py` | resolves the output paths and the glob patterns, then calls the orchestrator once |
| Token counter | `analyze_code.py` (`count_tokens_in_file`, `count_tokens_in_directory`) | called by `conf.py` |
| State machine diagrams | `parse_statemachine.py` | reads C tables of `cls_iefb.c` and `clm_iefb.c`, writes three dot files |
| Sphinx config | `conf.py` | reads the version from the root `CMakeLists.txt`, then has the token counter count the test statistics; the rest are settings |

Every tool is sequential: there are no threads, callbacks or messages. What
makes it hard to test:
- the order of the calls in `analyze_requirements`, with exceptions part-way;
- Python semantics that are easy to misjudge:
  - `str.strip(chars)`;
  - `int()` on padded and zero-prefixed numbers;
  - string ordering;
  - defaultdict reads;
  - a dataclass that hashes by name but compares every field;
  - a loop-carried local that is stale or unbound.

## Modules

The modules extend one another in a chain, so each adds one component:

- **RequirementCatalog** models Python string handling and the catalog.
  - IDs, specification IDs and names are sequences of one-character strings. This is so that `strip`, `rsplit("_")`, `int()` and code-point ordering (`IdLess`) can be modelled by what they do.
  - `SortByKey` is a stable insertion sort, like `sorted(key=...)`.
  - `parse_requirement_file` maps the CSV rows after the header. It fails on a row without exactly three columns. It drops empty IDs and sorts by ID.
- **LocationExtractor**: a Doxygen function element is a record of just the parts the code reads (see the module header).
  - `ParseFunctionElement` is one iteration of the loop. It carries `filepath` and `lineno` between iterations, because the code assigns them only when `./location` exists.
  - The first element of a file without a location fails with `UnboundLocalError`.
- **CrossReference**: the defaultdict indexes are TLA+ functions. `Lookup` reads through them.
- **Reports**: a report is the sequence of writer calls (`title`, `h2`, `h3`, `content`, `li`, `li3`, `statistics`) with the values they format. Wording and markup are left out.
- **AnalyzeRequirements** is the state machine of `analyze_requirements`.
  - `pc` names the next call. There is one action per call.
  - An action with an exception path has two disjuncts: the call returns, or it raises (`Raise` sets `pc = "failed"`).
  - `files` records for each output whether it is absent, open or closed, and what was written. This lets a property relate what is on disk to where the run stopped.
  - `Exited` is the stuttering step of the finished process, so deadlock is not reported.
- **MCAnalyzeRequirements** defines the inputs: catalog rows, function elements and XML file sets.
- **PathGlob** is `pathlib.Path.glob` over the names of one directory, for patterns with one `*`. `GlobPaths` is the loop `paths.extend(directory.glob(pattern))` over a list of patterns: each glob yields its matches in any order, and duplicates are kept.
- **CommandLine** composes `parse_requirements.py` with `AnalyzeRequirements`.
  - `args` is `None` until `ParseArgs` (`parse_args()` and the defaults, `ResolveArgs`). A path is a sequence of segments; defaults lie in the script's directory or in `_generated`.
  - `xml` is the Doxygen directory (file name to contents) and the paths each call of `parse_doxygen_files` globs from it with the script's patterns. `CliInit` makes the orchestrator's `input` the files read in that order.
  - `Analyze` is any step of `AnalyzeRequirements`, taken once the options are resolved.
- **MCCommandLine** builds the directory the library's Doxygen run produces (`cl__iefb_8c.xml`, `clm__iefb_8c.xml`, `cls__iefb_8c.xml`, a header, `index.xml`, mocks, a test source) with the index run's inputs in its files, and three command lines.

Two more chains model the other tools:

- **StateMachineTable** models `get_table`, which finds a C array in the text of a file by scanning for delimiters.
  - Python's `find`, slicing, `lstrip`, `rstrip`, `split` and the non-greedy comment `re.sub` are operators over 0-based positions.
  - `get_table` gives `[ok |-> FALSE]` where the code raises `ValueError`.
- **StateMachineDiagram** is the state machine of `main()`: three calls of `parse_state_statemachine`, one action each.
  - A saved dot file is its node statements (name and the three texts of the HTML label) and its edge statements (ends, label, colour).
  - `state_infos` is keyed first by a Python `set` of state names. Its iteration order depends on the hash seed, so the node order is any permutation (`StateOrders`), followed by the states only the entry/exit table names.
  - `Rebuild` is a later run of the script over the same files, as a new process.
  - The module also holds reference definitions (`Declared`, `RowsOf`, `WellFormed`, `Intended`). They read the tables as the C compiler does, from the items the file is made of rather than from its text.
- **MCStateMachineDiagram** builds C files from items (tables of rows and comments, declarations) and renders them to text, so the text the script scans and the tables the compiler sees come from one source.
- **TokenCount** models `count_tokens_in_directory` as `conf.py` calls it:
  - one action per pattern of the glob loop (in any order the file system gives);
  - one action per path of the summing loop;
  - `Publish`, where `conf.py` reads the Counter into the jinja context.

  `Count` is `str.count`: each search resumes after the previous occurrence.
- **MCTokenCount** defines a test directory of two sources and a header, four texts and the three tokens of `conf.py`.
- **SphinxConf** is `conf.py` as Sphinx executes it: `LookupVersion` (the `try` block: `read_text`, `re.search(r"CLINK VERSION ([\d.]*)")`, `group(1)`, and the bare `except` giving "unknown version"), then `Statistics`, the steps of `TokenCount`. `get_version` translates the code with `Find` and a greedy `LeadingRun`. No property is stated on the version (see the hazards below); the run covers the lookup so that the statistics are counted after it, as in the file.
- **MCSphinxConf** adds five root `CMakeLists.txt` files: unreadable, the `project()` line, `CLINK VERSION ${V}`, the tag twice, and `CLINK_VERSION` that does not match.

## Runs

| Run | Cfg | Expect | What it shows |
|---|---|---|---|
| catalog | MCCatalog.cfg | pass | See below |
| index | MCIndex.cfg | pass | See below |
| fatal_error | MCFatalError.cfg | violation | Over catalogs whose IDs all carry a number (so `build_requirement_list_report` cannot raise first), a duplicate ID aborts the run only after the specification, hover and requirement list outputs were written and closed. Spec section 7 says no partial reports. |
| dangling_handle | MCDanglingHandle.cfg | violation | An ID without a number raises inside `build_requirement_list_report` after `ReportWriter` opened the file. `finalize` never closes it (spec section 5). |
| name_identity | MCNameIdentity.cfg | violation | Two test cases named alike in different fixtures are counted twice as unique locations. The spec says identity is the name. |
| missing_location | MCMissingLocation.cfg | violation | A function without `./location` either raises `UnboundLocalError` or takes the previous function's file and line (spec section 4.2). |
| requirement_blocks | MCRequirementBlocks.cfg | violation | Only the last "Requirement" xrefsect of a function is kept. |
| fixture_name | MCFixtureName.cfg | violation | A fixture `ref` element without text gives an empty fixture name. The code does not fall back to the plain type, which names the fixture (spec section 4.2). |
| diagrams | MCDiagrams.cfg | pass | See below |
| spurious_raise | MCSpuriousRaise.cfg | violation | A well-formed table raises `ValueError` in two cases: a `;` in a comment inside it, or its name in a comment before it followed by a declaration. The docstring allows comments. |
| reproducible | MCReproducible.cfg | violation | A second run over unchanged C files can write the nodes in another order (hash-seeded set order). |
| test_counts | MCTestCounts.cfg | pass | See below |

**catalog** runs every catalog of up to three rows, drawn from nine row kinds, and checks four properties:
- `TraceabilityPartition`: each catalog ID is headed exactly once, under "with test cases" exactly when a test carries it.
- `InvalidTagsSurfaced`: each unknown tag is headed with its location listed, and "None found." appears exactly when there is no unknown tag.
- `NumberingGapsWarned`: the prefixes warned about are exactly those whose numbers are not 1..n.
- `SpecificationsIndexed`: the specification report has one heading per stripped, non-blank specification of the CSV rows kept, in string order; under each are the summaries of the requirements citing it.

**index** runs the script (`MCCommandLine`, `CliSpec`) with three small catalogs and three command lines (no option, every option, two options) on a Doxygen directory whose library and test files hold every set of one or two implementation or test XML files drawn from eight elements. It checks:
- `TraceabilityPartition` and `InvalidTagsSurfaced`;
- `TestcaseListGroupsByFixture`: the test case list report has one section per fixture name, in string order, each listing as many items as the fixture has test cases;
- `XmlFilesClassified`: the script's patterns make the two glob loops parse each library `.c` file's XML once as an implementation file and the test source's once as a test file, and never the header, mock or index file;

**diagrams** runs five slave files and two master files over two builds. It checks:
- `DiagramMatchesTables`: every dot file drawn is the graph of the tables as declared, for some order of the state set;
- `RaisesOnlyOnMalformedTables`: every `ValueError` comes from a missing table or a row of the wrong width.

The files cover these cases:
- comments holding commas and braces inside a table;
- trailing commas and no trailing comma;
- a comment after the last row;
- a state given entry/exit functions twice;
- entry-only states;
- a three-cell row and a four-cell row;
- a missing table.

**test_counts** runs `conf.py` (`MCSphinxConf`, `ConfSpec`) over five `CMakeLists.txt` files and every directory of three files over four texts, in every glob order, with the pattern and tokens of `conf.py`. It checks:
- `CountsMatchDirectory`: each published count equals a reference definition (`Occurrences`, the most non-overlapping occurrences), summed once per selected file;

Every property of a passing run has a mutant in `PROJECT.json` that TLC finds violated:
- a dropped `if id:`;
- blank specification fragments kept;
- a `> 2` duplicate threshold;
- a range that is one short;
- only the implementation index searched;
- an unfiltered "without tests" list;
- one test case list section per test instead of per fixture;
- a table end searched for from the start of the file;
- one `rstrip("}")` fewer;
- `result =` instead of `result +=` in the summing loop;
- the pattern `cl*c.xml` in place of `cl_*c.xml`.

`get_table` would draw a table whose name ends in the name looked for, if
that table were declared first. No file of the repository does this, so no run
shows it; `DiagramMatchesTables` catches it when such an input arises.

Two hazards have no property, and `PROJECT.json` says why:
- the script never compares its output paths with each other or with `--req`, so an override naming another report's default makes the later report replace the earlier. Only a user's command line can do this; the code plainly performs the overwrite.
- `[\d.]*` also matches the empty string, so `CLINK VERSION ${V}` gives an empty version rather than "unknown version". The test_counts run reaches this case, but nothing in the repository says what the docs should show then.

## Bounds

Three data rows are enough for every interaction the properties depend on:
- a duplicate pair plus a third ID;
- `R_10` beside `R_2`;
- `R_01` beside `R_1`;
- a malformed row after valid ones.

The nine row kinds cover every branch of the parser:
- a short row;
- an empty ID;
- a leading `_`;
- padding;
- a blank specification fragment;
- no number;
- a second prefix.

One or two XML files of one or two elements are enough for these cases:
- a stale location, which needs two elements of one file;
- a location reset across files, which needs two files;
- the same name in two fixtures;
- a tag used in both indexes;
- a tag used only in tests.

## Bounds of the other tools

- The diagram names keep the suffix relations of the real ones: `T` and `DT` stand for `transitions` and `device_transitions`. Two rows per table are enough to give the state set more than one iteration order. Two builds are enough to compare a run with the next.
- The Doxygen directory has one file of each kind the patterns must tell apart: a `cl_`, `clm_` and `cls_` C file (where `cl*c.xml` would overlap the others), a header, a mock, `index.xml` and a test source. The three command lines cover all defaults, all overrides and a mix.
- Three files (two matching `*.cpp`, one not) and four texts cover these cases: an empty file, each token once, a token twice in a row, a near miss (`TEST_F(`, `ASSERT` without `_`), and the same text in two files.

## Fairness and liveness

No run assumes fairness. Every property is a safety property. Each tool is a straight-line batch program whose loops are finite, so whether a step is eventually taken says nothing. What matters is which state the program stops in.

## Not modelled

- XML and CSV syntax, globbing, file paths beyond their identity, and RstCloth formatting.
- The printing in `parse_requirements.py`, and the XML directory path, which only names the directory the model gives as `xml.dir`.
- The constant settings of `conf.py` (extensions, theme, paths, CSS), which no step changes.
- Graphviz attributes, HTML label markup and file writing in `parse_statemachine.py`.
- Globs with more than one `*` or with character classes. `conf.py` uses `*.cpp`.

## Plan for later sittings

- A violation run for `strip("?_")` removing trailing characters too. Spec section 4.1 speaks of a prefix only. The project is at its limit of twelve runs, so this needs a run to be merged or retired first.
- Properties of the hover file.
- An abstract specification of the traceability index (requirement to tagged locations), and `build_location_report` shown to refine it.
- An abstract specification of the state machine tables and a refinement for `get_table`.
