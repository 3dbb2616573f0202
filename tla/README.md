# A verification project for neotags.nvim

neotags.nvim is a remote plugin for nvim.  It runs ctags over a project, looks
up which of the tags occur in the current buffer, and sends nvim the syntax
commands that highlight them.  This directory holds TLA+ models of it, the TLC
configurations that check them, and proofs that TLAPS checks.  Line numbers
refer to `src/`; `neotags.py`, `utils.py`, `diagnostics.py` and `__init__.py`
are in `rplugin/python3/neotags/`, the C files in `neotags_bin/src/`.

## 1. The system

| Part | Code | State it keeps | Operations |
| --- | --- | --- | --- |
| RPC handlers | `__init__.py` | none | one greenlet per autocommand or command: `NeotagsInit`, `NeotagsHighlight`, `NeotagsRehighlight`, `NeotagsUpdate`, `NeotagsToggle`, the project commands, the two other toggles |
| Highlighting engine | `neotags.py:149-427, 776-791, 960-972` | `__is_running`, `__cur`, `__seen`, `__groups`, `__md5_cache`, `__cmd_cache`, `__hlbuf`, `__backup_groups` | `update`, `highlight`, `_highlight`, `_clear`, `toggle` |
| Project registry | `utils.py:7-102`, `neotags.py:261-274, 825-859` | the JSON file `g:neotags_settings_file`, shared by all instances of nvim | set base, remove base, add and remove extra directory, look up |
| Tag generation | `neotags.py:635-743, 899-940` | the tags file, the compressed tags file, a temporary copy for `&tags` | run ctags, compress, copy, time out |
| Tag search in C | `neotags.c`, `tok.c`, `id.c` | none between runs; threads over one array of tags | tokenize, filter, merge, print |
| Tag search in Python | `neotags.py:549-633`, `utils.py:105-142, 255-265` | none | the same, in one thread |
| Comment stripping | `strip.c:46-244`, `utils.py:145-252` | the state of an automaton | strip the text of the buffer |
| Comment stripping for python | `strip.c:246-429` | the same, with counters of quotes | strip a text in python |
| Reading of tags files | `neotags.c:47-110`, `getlines.c`, `archive_util_*.c` | the array of all lines | read, decompress, cut into lines |
| Growing arrays | `util.c:80-103`, `getlines.c:59-75`, `neotags.c:380-391` | number and capacity | add an element |
| Diagnostics | `diagnostics.py` and its calls in `neotags.py` | a stack of start times | start, end, pop, clear, toggle |
| Configuration | `plugin/*.vim` | options | none |

How the parts interact.  nvim calls the handlers over msgpack-rpc; pynvim runs
each call in a greenlet of one thread.  A greenlet gives way to the others
whenever it sends nvim a *request* and waits for the answer (`vim.api.eval`,
`self.vv(..)`, `vim.current.buffer`); the Python code between two requests is
never interrupted.  Commands sent with `async_=True` are *notifications*: they
do not give way, and nvim executes them in the order of the channel, before any
later request, in whatever buffer is current then.  Instances of nvim share
nothing but files: the settings file and the tags files.

What makes each part correct, and what is hard about it:

* *Engine.*  Several greenlets share the attributes of one object.  Only the
  flag `__is_running` keeps them apart, across some ten requests; the toggle does
  not look at it.  The two caches must agree, no exception may leave the flag
  set, an update must end, a forced update must refresh, and what the screen
  shows must come from the tags of that buffer.
* *Registry.*  Every command is a read, a truncation and a write of a file that
  other instances use as well; a host may be killed in between.  A project that
  was saved must stay saved, a lookup must not change anything, and a directory
  must not change its project because another one is registered.
* *Tag generation.*  A process with a timeout writes one file, another file is
  derived from it, both may be read by other instances at any time.
* *Tag search.*  Threads cut up parts of one array in place; the result, sorted,
  merged and without duplicates, must be the tags that a sequential reading of
  the filter defines, in either implementation.
* *Comment stripping.*  Quotes, escapes and comments must be told apart with a few
  flags and counters; one miscount turns the rest of the buffer inside out.
* *Reading of tags files.*  The files belong to every instance of nvim: one may be
  truncated, rewritten or removed between the look at its size and the read.
  Sizes are found at the end of a compressed file and believed.  No line may
  be made of memory that was never set, and no array filled beyond its end.
* *Diagnostics.*  All updates share one stack of start times, and in verbose mode
  each message is one more request at which a greenlet gives way.

## 2. Modules

| Module | What it is |
| --- | --- |
| `Neotags` | the highlighting engine, the greenlets, the channel to nvim and the user |
| `MCNeotags` | small buffers, filetypes and orders for it |
| `NeotagsProofs` | proofs about `Neotags`, whatever the user does and with a user who waits for the updates |
| `Diagnostics` | the stack of start times, the sections of an update that push and pop it, and the switch of the verbosity |
| `MCDiagnostics` | the symmetry of its handlers |
| `DiagnosticsProofs` | proofs about `Diagnostics` |
| `ProjectTable` | the dictionary of projects and what the four commands compute from it, without state |
| `ProjectRegistry` | abstract specification: one table, every command is one step |
| `Projects` | the settings file under several instances with crashes; implements `ProjectRegistry` |
| `MCProjects` | small directories and commands for it |
| `ProjectsProofs` | proofs about `ProjectTable` and `Projects` |
| `TagFilter` | the lines of a tags file, the filter of both searches and what is printed, without state |
| `TagQuery` | abstract specification: one step answers with what the filter makes of all lines |
| `TagSearch` | one search: the threads of neotags_bin, its output, the python search; implements `TagQuery` |
| `MCTagSearch` | small tags files and texts for it |
| `TagSearchProofs` | proofs about `TagFilter` and `TagSearch` |
| `TagFiles` | the tags file, the compressed file and the copies in `&tags`, under several instances, timeouts, kills and orphaned processes |
| `MCTagFiles` | the symmetry of its instances |
| `TagFilesProofs` | proofs about `TagFiles` |
| `CText` | reference: C-like texts and the pieces their reader sees in them, and the texts whose stripping is known to go wrong |
| `Strip` | the removal of comments and strings from C-like text, in C and in Python |
| `MCStrip` | short texts and texts of a few tokens for it |
| `StripProofs` | proofs about `Strip` |
| `PythonText` | reference: python texts and the mode of their reader at each character, and the texts that are known to be misread |
| `StripPython` | the removal of comments, strings and docstrings from python text |
| `MCStripPython` | short texts and texts of a few tokens for it |
| `StripPythonProofs` | proofs about `StripPython` |
| `Growth` | the three ways in which arrays of neotags_bin grow, without state |
| `ReadTags` | main of neotags_bin: the reading of plain and compressed tags files that others change, and the arrays it fills |
| `MCReadTags` | small files and arguments for it |
| `ReadTagsProofs` | proofs about `Growth` and `ReadTags` |

### Neotags

One action of a handler is one request that reads nvim, plus the Python code
from its answer to the next request.  The label `pc[h]` names the request the
handler waits for:

| Label | Request | Action(s) | Code |
| --- | --- | --- | --- |
| `start` | `eval('&ft')` | `ReadFiletype` | 151 |
| `enabled` | `vv('enabled')` | `CheckEnabled` | 154 |
| `clear` | the groups of `_clear` | `Clear` | 155-157, 776-791 |
| `guard` | `vv('ignore')`, `&previewwindow` | `Skip`, `Drop`, `Enter` | 158-167 |
| `select` | `current.buffer` | `Select` | 169-191 |
| `parse` | the slurp in `_parseTags` | `Parse` | 362-403 |
| `begin` | `vv('restored_groups')` | `BeginHighlight` | 201-220 |
| `decide` | the options of the key | `Decide` | 222-236, 279-331 |
| `ftcheck` | `eval('&ft')` | `CheckFiletype` | 333-338 |
| `apply` | `current.buffer` | `Apply` | 340-360, 255-259 |
| `toggle`, `enable`, `disable` | `vv('enabled')` | `ToggleRead`, `Enable`, `Disable` | 960-972 |

`Advance` is the loop over the keys of the filetype with the end of `highlight` and
`update`; `Return` and `Raise` are the two ways a greenlet ends.  A raised exception does
not reset `__is_running`, and the handler stays at a label that names it, one of `Dead`.
Those of `Stale` are about state that is no longer what the update relied on: a buffer that
was wiped out (392), a filetype without an entry in `__groups` (211), a buffer without one
in `__md5_cache` (337).  The others are `nolength`, the TypeError of `range` with a
`__patternlength` that is None (314), `notascii`, a name that `decode('ascii')` refuses
(316), and `nofiles`, whatever escapes from the making and reading of the tags files within
`_parseTags`.

What the tags files do to an update is a constant of the instance, `Faults`: there is none
("missing": `_parseTags` returns None, for a filetype with an order as well, 388-390), reading
or making them raises an exception ("files"), or a name in them is not ASCII ("ascii").
`TagFiles` says when the first two happen.

`ExecCommand` is nvim executing a notification, and the user enters, reloads, edits and
saves, retypes, toggles and wipes buffers.  `Notify` starts the greenlets of the
autocommands, one for each event and so as many as plugin/neotags.vim:76-88 says: entering a
buffer and saving it one, `:set ft` two, a reload four; those of `Forcing` call
`update(True)`.  `listening` says whether there are any: a plugin that is disabled when nvim
starts never registers them (neotags.py:132-144), nor does it read `__patternlength`, so
that its first toggle ends in the TypeError above (see section 5).

Abstractions.  The tags of a buffer are a record of the buffer and the version
of the text they were parsed from; the md5 sum of a group and the commands made
of it are functions of these, so the same record stands for them.  That is
finer than the code, which sees two versions with the same tags as equal, and
so shows every stale value.  Consecutive requests whose answers nothing in the
model can change are one step.  Parsing is one step because nothing it reads
changes in between except the files of the tag generation, which are `Faults`.  The verbose
output has a module of its own (`Diagnostics`).  The backup groups and the choice
between C and Python are left out.

### Diagnostics

The places of `update`, `highlight`, `_parseTags`, `_run_ctags`, `_parse` and
`_highlight` that push and pop `__start_time`.  A time is represented by who pushed
it and for which section.  `debug_start`, `pop` and `clear_stack` are plain python;
`debug_echo` and `debug_end` end in a request when the mode is verbose, so every action
ends at one of them:

| Labels | Actions | Code |
| --- | --- | --- |
| `guard` | `Enter`, `Drop` | `update`, the test of the flag |
| `select` | `Select` | `update`, up to the tags |
| `ctags`, `command`, `compress`, `compressed`, `ctagsEnd` | `RunCtags`, `NoCommand`, `Command`, `Compress`, `Compressed`, `CtagsEnd` | `_run_ctags` |
| `files`, `listing`, `listed`, `tags`, `parsed` | `Files`, `Listing`, `Listed`, `Tags`, `Parsed` | `_parseTags`, `_get_tags`, `_parse` |
| `skip`, `keys`, `key`, `end` | `Skip`, `Keys`, `KeyLeft`, `KeyDone`, `End` | `highlight`, `_highlight` |
| `clear`, `last` | `Clear`, `Last` | the end of `update` |
| `toggle`, `switch` | `Toggle`, `Switch` | `toggle_verbosity`, `Diagnostics.toggle` |

Sections that end on the way out of an exception, keys that are passed over and
filetypes without tags are all there.  `steady` is how the mode is meant to be used:
the verbosity is switched at rest, and every filetype that is highlighted has tags.
Of the engine only the flag is kept; what it protects is in `Neotags`.

### Projects

`pc[i]` is where the host of instance `i` is: `idle`; `truncate`, when the file is
read and the dictionary is changed; `dump`, when the file is truncated but not
written; `reset`, when a lookup could not read the file and is about to reset it.
Within one host there is no request between the read and the write, so one
host executes one command at a time and an instance needs no more than one
program counter.  The file is a table, or one of `Missing`, `Empty`, `Garbled`:
the last when a shorter text was written over a longer one.  `turns` is chosen at the
start: when it is TRUE a command, from whatever instance, waits for those before it
and no host is killed; when it is FALSE anything overlaps.  `told` is a history
variable: the bases for which the user has read "Saved directory ...".

A table is a sequence of records because a Python dictionary keeps its order,
JSON keeps it as well, and `get_project_path` takes the first match.

### TagSearch

| Action | Code |
| --- | --- |
| `NoBinary` | `_parseTags` without a binary (neotags.py:395-403); also a binary that does not know the language |
| `Tokenize` | reading the text and cutting it into words (neotags.c:76-104, tok.c), up to the test for an empty array |
| `Create` | one `pthread_create` (neotags.c:323-338) |
| `Scan(t)` | thread `t` cuts one line into fields and keeps it if the filter accepts it (neotags.c:393-445) |
| `ScanDies(t)` | thread `t` looks a name up in a buffer without words |
| `Join`, `Merge` | `pthread_join` of the next thread; the array of all lists, sorted (neotags.c:340-375) |
| `PrintTags` | `print_tags`, and the loop over the output in `_bin_get_tags` (neotags.py:531-540) |
| `Python` | `_get_tags` with `find_tags` and `_parse` (neotags.py:550-633) |

Vim scripts (`vim`) are cut and printed in their own way.  Their words may have a scope
(`s:name`), and each such word is followed by a fragment: as many characters as the name
behind the colon has, but from the beginning of the word (tok.c:126).  In the output, names
lose their scope, all of them or none, because `print_tags_vim` asks for the kind of the
first tag each time (id.c:80).  A compound filetype that has `vim` in it, which is printed
as vim and cut as something else, is left out.

The two searches do not have the same words.  neotags_bin drops the digits a word begins
with (`Led`, tok.c:75-100) and knows vim's colons (`Tokens`, `Known`); python splits at
everything that is no word character, so that it keeps `10L` whole and cuts at every colon
(`PyWords`, utils.py:255-265).  They take comments out by rules of their own, so the text
that `Python` searches is chosen anew.  Nor do they accept the same languages: `Wanted` is
what neotags_bin takes, `PyWanted` what python does, and for objc and objcpp the first has C
in addition (id.c:10-11, utils.py:134-136).

A line is a record of the fields the filter looks at: name, kind, language and
file.  `scans` counts how often a line was cut; in the code a second cut would
follow the null pointer that `strsep` leaves.  Because the array is sorted before
it is used, lists are sets of line numbers, and duplicates, which the sort puts
side by side and `print_tags` skips, are one element.  `KindRank` and `NameRank` are
the order of `tag_cmp`.

Undefined behaviour is a choice.  The length of a word that ends the text is
computed from a null pointer (tok.c:69), so bsearch finds it or not: `Tokenize`
chooses.  In a buffer without words the one entry of the array of words was never
set (neotags.c:314): a thread that looks a name up in it finds nothing, or the
process dies (`ScanDies`) and python takes over.

### TagFiles

| Action | Code |
| --- | --- |
| `Start` | `update`, up to the call of `_run_ctags` (forced) or of `_parseTags` (neotags.py:181-191) |
| `Spawn`, `SpawnFails` | `subprocess.Popen`, and ctags opening its output, or ending before (643-645), after which the update goes on or dies at 650 |
| `CtagsEnds` | `proc.wait` returns, and what ctags has printed is ASCII (645-655) |
| `CtagsBreaks` | the exceptions that nothing catches: the UnicodeDecodeError of `err.decode('ascii')` (650), and the one of psutil for a ctags that has ended just after its timeout (679, 793-799) |
| `Timeout` | `TimeoutExpired` (677-685): with psutil the children are killed, without it ctags may go on as an orphan |
| `NoTagFile`, `Truncate` | `open` of the tags file and of the compressed file (659-660) |
| `Write`, `WriteFails` | the first read of the tags file and the write, or an IOError of either, which is caught (661, 668) |
| `CopyTags`, `CopyFails` | the second read, for the copy in `&tags` (663-664), or an IOError that `_update_vim_tagfile` catches (899-926) |
| `Unlink`, `UnlinkFails` | `os.unlink` of the tags file (666) |
| `Generate`, `NoTagFiles`, `Copy`, `Read` | `_parseTags` (370-403) |
| `EndOfFile`, `Unreadable` | a torn compressed file, or one that cannot be opened, ends the update there |
| `Save`, `OrphanEnds`, `Restart` | a source file is saved; a ctags that nobody waits for ends; nvim is restarted |

The content of a file is the version of the sources it was made of, `Part` for a tags file
that is not complete and `Torn` for a compressed file that ends too early; `Lost` is a copy
that is kept up to date but was never added to `&tags`, because its first write failed
behind the line that enters it in `__tmp_cache` (903-908).  All instances are in one project
and so use the same two files.  Processes that hold a file which was removed write in vain:
`linked` and `orphans` are those whose file is still there, `opened` are the instances that
read it by the name it still has.  If two processes have had the same file open, what they
leave may be either's or a mixture (`mixedTags`, `mixedGz`).  `up` and `disturbed` are
history variables: what an update began with, and whether anything has interfered with it or
failed.  `psutil` and `generates` are settings chosen at the start.

### Strip

One step is one round of the loop of `handle_cstyle` (strip.c:98-242) or of `strip_c`
(utils.py:145-252), which calls itself "an almost line for line translation".  The places
where they differ are marked by `language`.  One action is one case of the switch and one of
its branches.  The output is kept as the positions of the characters in the text, which
shows what was lost, left or written twice.

What is code and what is a comment is said by a second module that shares nothing with the
automaton.  `CText` describes a text by its pieces: each character carries the kind of the
piece it is in (code, line comment, block comment, string, include directive), where that
begins and ends, whether it is escaped and whether it is at the start of its line; `CLike`
says that these are what the characters make of them.  The automaton reads the characters
only, in classes; a word of letters is one letter or two, the word `include` is one
character.  The properties compare the two, whatever the text ends in, with two
restrictions.  A comment, string or directive that the text does not end is the last piece
of it: `NothingLost` and `WordsApart` are said until the automaton begins to read it
(`Closed`), as C cuts off a character in front of an open string.  `NothingLeft` is said to
the end, of all words but those of that last piece: C leaves the words of a line comment
without a newline (section 5).

The properties do not hold of every text.  `Misread` in `CText` is the list of those that are
left out, one definition with a reason for each.  Three name the very place where the
stripping goes wrong: an include directive in the first line is not recognized
(`FirstHeader`), nor, in python, one that strip_c has dropped the newline of
(`LateHeader`), and python does not continue line comments (`LineGoesOn`).  The others name
characters among which it may go wrong, although some texts with them are stripped well: the
character behind a line comment is read with `slash` still set (`BehindLine`), the
one behind a block comment has no effect (`BehindBlock`), `/*/` is taken for a whole comment
(`EarlyEnd`), in C an empty line comment takes the next line with it (`EmptyLine`), and
so on.  Everything else is claimed.

### StripPython

One step is one round of the loop of `handle_python` (strip.c:306-429), with one
action per case of its first switch; `Settled` is the second switch, in which the
counters of quotes decide where a docstring begins and ends.  The reference is
`PythonText`: each character carries the mode of a reader of python in front of it (in
code, in a comment, in the string or the docstring of a quote; how many quotes are in a
row; whether it is escaped), and `Python` says that each mode follows from the one before.
`Misread` has four cases: a text that ends in a comment, string or docstring behind
a word, whose last letter is cut off (`EndsHidden`), and three in which quotes are
counted that should not be (`EndsEscaped`, `FourInString`, `EscapedInDoc`).  Strings within
the braces of an f-string are beyond this reader.

For both modules the final outputs of the model were compared with those of the functions
themselves (`handle_cstyle` and `handle_python` compiled from the source, `strip_c` imported),
on all texts of the two runs, 42644 and 16907: they agree, except that the code also
counts off the blank the output starts with when nothing else was kept, and that where
a word `include` is cut off, only its last letter is.

### Growth and ReadTags

An array is a record of its number, the capacity it is believed to have and the room
its memory has; `AddToList`, `AddBackup` and `AddLine` are the three ways to add an
element.  In `ReadTags` the array of lines, the list of pointers to free, the list of
words and the list of one thread are filled by them.

| Labels | Actions | Code |
| --- | --- | --- |
| `next` | `Unknown`, `OpenPlain`, `OpenGzip`, `OpenXz`, `AllRead` | `main`, `getlines` |
| `plain_stat`, `plain_read` | `StatPlain`, `ReadPlain`, `EndPlain` | `plain_getlines` |
| `gz_size`, `gz_open`, `gz_read` | `SizeGzip`, `ReopenGzip`, `ReadGzip` | `gz_getlines`, `gzip_size` |
| `xz_info`, `xz_open`, `xz_read` | `InfoGoesOn`, `InfoStalls`, `InfoFails`, `ReopenXz`, `ReadXz`, `ReadXzFails` | `xz_getlines`, `xz_size`, `io_read` |
| `split` | `SplitLine` | `ll_strsep` |
| `words`, `search` | `AddWord`, `Search`, `AddFound`, `Ended` | `tokenize`, `tok_search`, `do_tok_search` |

Between any two of these, others may truncate, rewrite or remove a file; `fp` is then
what the open file still has in it, `torn` says that it was changed after it was
opened.  Memory that was never set is the character `"?"`.  zlib and liblzma are
external and modelled by what they return: `gzread` is one step, the decoder of an
index has three stages and may stall.  Errors of `read` itself, files that are not
closed after a short read, and the length of the last line, which is computed from
a null pointer as in tok.c:69, are left out.

## 3. What the runs check

| Run | Instance | Properties |
| --- | --- | --- |
| `engine_any` | 2 buffers, 2 filetypes, 3 handlers, 2 acts of the user at any moment, tags files that may be missing, fairness | `TypeOK`, `AtMostOneOwner`, `CacheCoherent`, `HandlersFinish` |
| `engine_patient` | 2 buffers, 3 filetypes, 4 handlers, 3 acts, every fault of the tags files; the user waits for the updates before he acts | `ShownIsCached`, `DisabledIsClear`, `NeverWedged`, `ForceRefreshesLast` |
| `own_tags`, `toggle_wedge` | one finding each | violated |
| `diagnostics` | 3 handlers, 2 keys, 3 events or switches | `NothingRaised`, `OneAtWork`, `TimesItsOwn`, `NothingKept` |
| `projects` | 2 instances, 4 directories, 7 commands; overlapping and killed, or in turns | `TypeOK`, `SavedStays`, `ImplementsRegistry`, `NoTakeover` |
| `tag_search` | 3 threads, every tags file of up to 4 lines out of 6, of up to 3 out of 5 with scopes, and of up to 3 out of 4 with a digit and another language; 8 texts | `TypeOK`, `ScannedOnce`, `ImplementsQuery`, `NamesShown`, `BinaryFindsToo` |
| `tag_files` | 2 instances, 1 save, 1 kill, 1 orphan; any process or write may fail | `TypeOK`, `ForcedFresh`, `JumpsMatch`, `Undisturbed` |
| `strip` | C and Python, every text of up to 4 characters and of up to 3 tokens out of 18, directives behind up to 4 lines of blanks and comments, fairness | `TypeOK`, `NothingLost`, `NothingLeft`, `WordsApart`, `Ends` |
| `strip_hang` | Python, texts that end in a line comment, one finding | violated |
| `strip_python` | every text of up to 5 characters and of up to 3 tokens out of 19 | `TypeOK`, `InStep`, `NothingLost`, `NothingLeft` |
| `read_tags` | 2 files, 7 lists of arguments, 2 changes by others, fairness | `TypeOK`, `WithinRoom`, `LinesOfFiles`, `QuietFilesDoNotKill`, `NothingMadeUp`, `Ends` |

Bounds of the engine.  `MaxActs` bounds what the user does, `MaxVersion` the edits.
Two buffers are what staleness needs (the buffer that was highlighted last
and another one).  An interleaving of two updates needs two handlers; `:set ft` starts two at once
and a reload four, so `engine_any` has three (two updates overtaken by a toggle or by a
third) and `engine_patient` four.  In `engine_any` a reload is thus only possible without
autocommands; in `engine_patient` it needs all four handlers, so that none follows
an exception.  A filetype with two keys separates the first from the last round of the
loop, a filetype with one, one without an order and one that is ignored take the
other branches; which of them a run has depends on what it asks.  Handlers
are symmetric; buffers are not, since the first has the number 1 that `__hlbuf` starts with.
In `engine_any`, whose question is whether updates exclude each other and end, "missing"
stands for the faults: the others end the handler at once.

The properties divide by what the user does.  Some hold whatever he does
(`engine_any`): the flag is a lock, the caches agree (so that the branch for a missing
cache entry is dead), every update ends.  Two acts at any moment are what TLC can do
there with liveness; for any number of acts the safety properties are proved.
Others hold when he waits for the updates he has started (`engine_patient`): screen and
cache agree, a disabled plugin shows nothing, no update fails over state that has become
stale (the exceptions of the tags files, of names and of `__patternlength` do end updates
there, and the other properties hold all the same).  The two violations show that
`NeverWedged` does not hold of an impatient user, and that a patient one may still see a
buffer with the tags of another buffer of its filetype.

Fairness.  `engine_any` assumes weak fairness of each handler and of nvim's
execution of what it has received: the event loop of the host resumes every
greenlet whose answer has arrived, and nvim answers every request.  Nothing is
assumed of the user.  `strip` and `strip_hang` assume
weak fairness of the loop, `read_tags` of the process: both are sequential code.
Nothing is assumed of those who change the files.

Bounds of the verbose mode.  Two updates and a switch, or three updates, are what one
stack can confuse; two keys are a key that is passed over and one that is highlighted.

Bounds of the registry.  Two instances give every overlap of two commands.  Four
directories, two of them nested and one that does
not exist, are what first-match order and `os.path.exists` can tell apart; seven
commands fill the table, empty it and fill it again in another order.

Bounds of the search.  Three threads and up to four lines are every case of the division: no
line, fewer lines than threads (only the last thread gets any), one each, and a remainder.
The six lines are a name under two kinds, a kind with an equivalent, a kind that is not in
the order, a tag of the file itself and a name with a dot; lines of another language,
without a kind, and comments are put next to each of them in files of two lines.  Files of
up to three lines have a name that begins with a digit, and a tag of a language that only
neotags_bin takes.  The lines with scopes are a scoped function and variable, a name equal
to the fragment, one equal to the bare name, and a tag of a kind in front of the functions,
with which all names keep their scope.  The texts are empty, end with a word that occurs
only there, end with one that occurs before, and end with a word that begins with a digit.

Bounds of the tags files.  Two instances give every overlap of two updates; one save
makes tags out of date, and the versions only count saves; one kill and one orphan
reach each of the states they lead to (a torn file, a process that writes into the
file of a later update, or between its two reads).  Failures of ctags and of reads and writes
are not bounded.  An instance may run any number of updates.

Bounds of the stripping.  Every text of four characters that is C-like, and every
one of five that is python, has each character in front of each other, in and out of
strings and comments, wherever these fit.  The longest pattern a property is about has
three tokens (something, a comment or string, something).  The tokens are each kind
of comment and string, a continued line comment, an escaped quote, the characters that begin
another token, and what is open at the end of the text.  Whether a directive is recognized depends
on all that is in front of it, so directives are also put behind every four
lines of blanks, line comments and block comments; for `strip_python` also strings
that are empty, contain the other quote or a `#` or end in an escaped quote, and docstrings.
Since `strip` has the property that the loop ends, and python does not end on a line
comment in the last line (`strip_hang`), its texts for python leave out those with a
slash in a comment or directive that ends nowhere and in a last line without a newline
(`OpenLine`); the safety properties are proved with them.

Bounds of the reading.  The first capacities are one and two instead of the thousands
of the code, so that every array grows, more than once, with a few lines.  Two files
give every pair of types the loop treats differently; two changes are a truncation and a
rewrite, or a removal and a new file, around any system call.

Every property of a passing run has a mutant in `PROJECT.json`: a slip in a
definition of the code, named `Slip:` in the module, that makes the property fail.

## 4. What is proved

`NeotagsProofs`, for any buffers, filetypes, orders, faults, number of handlers and
bounds:

* `TypeCorrect`: `Spec => []TypeOK`.  `LocalsReady` says what each label promises about the
  locals, and that the groups a handler works with are there; the latter needs the lock, as
  another update might find no tags files and set them to None.
* `MutualExclusion`: `Spec => []AtMostOneOwner`, inductive together with `TypeOK`
  (`OwnerInvariant`).
* `CachesAgree`: `Spec => []CacheCoherent`.  Not inductive as it stands: when `Apply`
  stores the commands, they must be those whose md5 sum was stored before the
  request, or the sum must be gone.  That is `StoreReady`, and it needs
  `AtMostOneOwner` (nobody else stores in between) and `TypeOK`.
* `KeyErrorUnreachable`: `Spec => []NoKeyError`, which no run checks, since it follows
  from the invariant of `CachesAgree`: an md5 sum
  without commands exists only while its handler is about to store them.

and in its second half, assuming `Patient` (the user waits for the updates he has
started; the run `toggle_wedge` shows that without it the first theorem is false):

* `NoUpdateWedged`: `Spec => []NeverWedged`, of the three exceptions in `Stale`.  The invariant
  `Waiting` joins `Control` (who is
  alive besides whom, what a handler has read of the switch still holds, a set
  flag has an owner), `Current` (a handler works on the current buffer) and, as long as no
  exception of another kind has ended an update, `SeenParsed` (the filetype of a buffer that was
  seen has groups, or is about to be parsed): so the lookup of the groups and that of the
  md5 sums find an entry.  After such an exception the flag stays set, and no update gets
  that far (`AwakeOwner`, `WedgedStays`).  Several events at once start forced
  updates beside others; that they stay what they are is `ForceKept`.
* `DisabledShowsNothing` (`DisabledIsClear`): `Pending` says what the one notification on
  its way does, `Clearing` that of a disabled plugin it clears what is shown.
* `ScreenIsCached` (`ShownIsCached`): `Screen` adds `CacheInv`, `LoopDone` (the keys in front of a
  handler in the loop are on the screen or on their way) and, unless an exception has ended
  an update, `AllDone` (at rest all are, if there were tags files).
* `ForceRefreshes` (`ForceRefreshesLast`): `Renewing`, what a forced update has
  stored for the keys behind it.

`DiagnosticsProofs`, for any number of handlers, keys and switches:

* `TypeCorrect`, which no run checks; `StackReleased` (`NothingKept`): `Watched`, as long as
  something is on the stack an update is unfinished that will clear it.
* `NeverRaised`, `AloneAtWork`, `TimesMatch` (`NothingRaised`, `OneAtWork`, `TimesItsOwn`): with
  steady use, `Shape` says which sections are on the stack at each label, the innermost
  on top, and `Undisturbed` that they are all of the one update at work.  None of
  the three is inductive without the other two: a second update would push in between.

`ProjectsProofs`, for any directories, commands and numbers of instances:

* lemmas about the table: every command makes a table of a table (`ResultTable`),
  and does not move a directory to another project (`ResultKeeps`).  The least
  index that `First` chooses exists by `LeastMember`, from the library's theorem
  that the order of the numbers is well-founded.
* `TypeCorrect`: with overlapping commands and crashes.
* `CommandsAtomic`: commands in turns implement `ProjectRegistry`.
  The refinement shows the table a host is about to write while the file is
  truncated.  The invariant `FileOK` says that at `truncate` the host has the result
  for what is still in the file, that at `dump` the file is empty, and that at
  `reset` it cannot be read; so `Truncate` is the command and all else stutters.
* `LookupsRead`: in the same case a lookup resets only a file it cannot read
  (`LookupsOnlyRead`; no run checks it, as a lookup that loses projects violates
  `SavedStays` and `ImplementsRegistry`).
* `ProjectsKept`: in the same case a directory keeps its project (`NoTakeover`).
* `ProjectsSaved`: in the same case what the user was told stays (`SavedStays`).  On the
  way (`ToldSeen`) a base that was told is in the table the user sees, unless the command
  at work removes it.

`TagSearchProofs`, for any number of threads, any tags files and texts and any way to cut
words, assuming only that the order of the kinds and that of the names are strict and that
python takes no language that neotags_bin does not take (`FilterAssumption`); what
`SearchAssumption` says of words is their types:

* lemmas about the division: the parts lie in the array, are disjoint, and cover
  it (`PartsDivide`).  They follow from `Quot` being the quotient, the monotonicity
  of multiplication (`Times`), and the blocks that numbers fall into (`Block`).
* the invariant `IInv`: `Places` (a thread is in its part or just behind it), `Cuts`
  (a line of a part was cut iff its thread is past it), `Lists` (a list holds what
  was accepted of those lines), `Joins` (a joined thread is at its end) and `Merges`
  (what is printed is what was accepted).  None of the checked properties is
  inductive by itself: `ScannedOnce` needs to know which thread is where, and
  `ImplementsQuery` that the lists are complete when the threads are joined.
* `TypeCorrect`, `LinesDivided` (`ScannedOnce`), `QueryImplemented` (`ImplementsQuery`).
* `NamesKept` (`NamesShown`): of the pairs with one name, that with the least kind
  cannot be skipped, since no neighbour in front of it has its name.
* `BinaryAgrees` (`BinaryFindsToo`): the words in front of the last one are among those that
  bsearch can find, as neotags_bin cuts them (`SureKnown`, `FindableInv`); a name that does not
  begin with a digit is what it is cut to.

`TagFilesProofs`, for any number of instances, saves, kills and orphans:

* the invariant `IInv`: `Sole` (an update that is alone is the only active one),
  `Links` (which processes hold the file that is there; one that is alone has no orphan
  beside it), `Progress` (what a forced update has reached at each label), `Copies` (between the
  two reads the compressed file is what the tags file is, then the copy is) and `Whole` (while
  nothing was disturbed, files are what the label of their writer says).
  `ForcedFresh` is not inductive by itself: it needs to know that the tags file a lone
  update finds behind `proc.wait` is of its own ctags, which is what `Links` and `Progress` say.
* `TypeCorrect`; `SavingRepairs` (`ForcedFresh`), of an update that no other process interferes
  with, whose ctags comes to its end and whose files can be written; `CopyMatches`
  (`JumpsMatch`), of one that no other process interferes with, an orphan included, and that can
  write; `TimeoutsHarmless` (`Undisturbed`), while nothing overlaps, is killed or left alone,
  or fails.

`StripProofs`, for any set of texts of any length, in both implementations, assuming that
they are C-like and not `Misread` (`StripAssumption`).  Lengths need no induction, because
the text already carries the pieces of its reader: the proof is about one round.

* `TypeCorrect`: `TInv` adds to `TypeOK` that what is kept is below the position, except
  while python comes back to the same slash (`Hangs`).
* the invariant `IInv`: what was kept so far is right (`Sound`: every word is found, the output
  is clean, words are apart), and the automaton is where the reader is (`Synced`), in one
  of four ways: outside of the pieces (`Outside`), in a string (`InString`), at the second
  character of a comment (`Begun`), or at the newline that ends an include directive
  (`Ending`).  Outside, `Behind` says what the last character kept means: where a line
  begins, C has kept a newline, but for the first line, and python has where `BehindNewline` of
  `CText` says so (`LineMeans`, `NewlineKept`, for the directives); blanks in a
  row, that a blank was read (`SpaceMeans`); a word, that it ended just here or that a
  string or block comment cut it (`WordMeans`).  `SlashMeans` says what the
  flag `slash` means there.
* `Fine`: what is kept belongs to the code or is no letter, but for what stands behind
  `OpenAt`.  Where the automaton has come to the piece that the text does not end, `Synced` says
  nothing any more; but from there on it only adds what stands there (`StepAdds`).
* `NothingIsLost` (`NothingLost`), `NothingIsLeft` (`NothingLeft`, at any time), `WordsStayApart`
  (`WordsApart`).  None of them is inductive: whether a word is kept depends on flags and
  on the last character of the output.

`StripPythonProofs`, for any set of texts of any length, assuming that they are python and not
`Misread` (`TextAssumption`):

* `TypeCorrect`: a string and a docstring exclude each other, and the counters keep
  their bounds.
* the invariant `IInv`: `Agreeing` (flags and docstring are those of the reader's mode),
  `Counting` (what each counter says about the quotes just read, in code, in a string and in
  a docstring, with what an escaped quote does to it), `Spacing` (where blanks are counted,
  one is the last that was kept), `Keeping` (the words of the code, and no others, are in
  the output so far) and `Ending` (what the cut at the end removes is no word).
* `AlwaysInStep` (`InStep`), which needs `Counting`: a docstring begins or ends
  when a counter says so; `NothingIsLost` and `NothingIsLeft`.

`ReadTagsProofs`, for any files, arguments and changes by others, any number of words and
threads, and any first capacities that `GrowthAssumption` allows:

* the invariant `IInv`: `TypeOK`, `Placed` (which file is open and which sizes are known at
  each label) and `ListsOK` (an array of `AddToList` or `AddBackup` always has room for one
  more, one of `AddLine` is full at most).
* `TypeCorrect`; `RoomSuffices` (`WithinRoom`): no array is filled beyond its memory.
* a second invariant on top, `QInv`: `Proper` (until others act, a file is what its argument
  says), `LinesGenuine` and `BufGenuine` (where the characters come from) and `Calm` (what
  the reading has found of an untouched file is right).
* `NeverUnset` (`NothingMadeUp`) and `QuietReadable` (`QuietFilesDoNotKill`).
* a third one, `LInv`: `Holds` (what is in the buffer is a part of the file, at first from its
  beginning, then from behind a newline up to its end) and `Enumerated` (the lines stored so far
  are those of the files before and of this one up to the cut, in order).  The lemma `CutLine`
  says that no line begins within the one that is cut off.
* `EveryLineRead` (`LinesOfFiles`), for files of any length.

With these, every invariant and every safety property that a passing run checks is
stated by a theorem.  Left to TLC: liveness (`HandlersFinish` and both `Ends`), which is
out of the reach of the proof system, and the three findings, which are counterexamples.

## 5. Findings

* `own_tags`: `__groups` is kept per filetype, not per buffer; a buffer is given the
  tags of another one of its filetype (neotags.py:299).
* `toggle_wedge`: a toggle during an update makes neotags.py:337 raise a KeyError,
  `__is_running` stays set, and the plugin does nothing until nvim is restarted.
* `strip_hang`: `find` returns -1 for a line comment that is not ended, but it is added
  to the position before the test for a negative number (utils.py:179-182), so the
  python search never ends for a buffer whose last line is a line comment.

Two more disagreements with the documentation have no run of their own; the models contain
them, and the properties say around what they hold:

* *A plugin that is disabled when nvim starts cannot be toggled on.*  "Use NeotagsToggle to toggle
  the plugin on and off on the fly" (doc/neotags.txt:99, README.md:99), but
  `__patternlength` is read by `init` only if the plugin is enabled (neotags.py:60, 132-137).
  With `g:neotags_enabled = 0` at the start, the first toggle in a buffer with tags comes to
  `range(0, len(group), None)` (neotags.py:314): a TypeError, behind which `__is_running` stays
  set.  In `Neotags` this is the label `nolength`.  `NeverWedged` is about stale state, and
  `ShownIsCached` of a plugin that listens; an invariant `\A h \in Handlers : pc[h] # "nolength"`
  in place of them fails in `NeotagsPatient.cfg` after one act of the user.
* *The words of a line comment without a newline are left.* The stripping "avoids any false
  positives caused by tag names appearing in comments" (strip.c:37-40), but for a line
  comment without a newline behind it strip.c:133-136 only warns, and reads on in it as if
  it were code: of the text `a //b` there remains `a /b`.  Buffers are handed over without a
  newline at the end (neotags.py:393), so this is any buffer whose last line ends in such a
  comment.  `NothingLeft` speaks of all words but those; without its `p >= OpenAt(text)` it
  fails in `Strip.cfg`.

Met while modelling, and kept out of the properties of the passing runs:

* Engine.  `and` binds stronger than `or` in neotags.py:299-302, so that a forced update of
  a buffer that was not highlighted last sends stale commands.  A command may be
  executed in a buffer it was not made for, as notifications name no buffer
  (neotags.py:343).  An event that arrives during an update is dropped and not made up for
  (neotags.py:162).  `_get_backup` of a group that does not exist raises.  The groups of a
  `filter` are never used, since `_highlight` overwrites the key (neotags.py:241, 286).
* Verbose mode.  A switch of the verbosity during an update empties the stack that
  `debug_end` pops, and the IndexError leaves `__is_running` set (diagnostics.py:30).  For a
  filetype without tags `debug_end` gives way after the flag was reset (neotags.py:216), so
  that two updates overlap.  That is why the properties are of steady use.
* Without compression.  The list of files for neotags_bin begins with a separator, which
  shifts types and names (neotags.py:456-466), and `_open` calls a method of None
  (neotags.py:933), since `vv` does not store the None of neotags.py:121.
* Configuration.  `_get_binary` uses `dia` before it is set if `use_binary` is 1 and there
  is no file (neotags.py:99-102).  `:NeotagsToggleProject` calls a function by a
  name with another case (plugin/neotags.vim:225).
* Tag generation.  A complaint of ctags, or of the shell, that is not ASCII ends the update with
  a UnicodeDecodeError (neotags.py:650), and so does psutil if ctags ends just after its
  timeout (neotags.py:679, 796); `__is_running` stays set.  A write of the compressed file that
  fails leaves it torn (neotags.py:661, 668), and python then dies with an EOFError until a
  forced update makes it anew.  The tags file is read twice (neotags.py:661, 663-664), so that
  an orphaned ctags that writes in between makes the copy in `&tags` differ from what is
  highlighted.  A first copy that cannot be written is kept up to date from then on, but is never
  added to `&tags` (neotags.py:903-910).
* Registry.  Two instances that save a project at the same time lose one of them
  (utils.py:16-24).
* Search.  id.c:52 prints no newline, so the first tag of the output is on the line that
  names the language and is not highlighted, although "Always print the first tag" is
  what neotags.c:201 says.  id.c:80 asks for the kind of the first tag and not of the one
  that is printed, and tok.c:126 cuts the fragment of a scoped word from its beginning
  instead of behind the colon, so that a function that is only called with its scope is
  not found by its bare name.  The two searches differ: neotags_bin highlights the tags of C in a
buffer of objc or objcpp and python does not (id.c:10-11, utils.py:134-136); the one cuts
`10L` to `L` (tok.c:75-100), the other keeps it whole (utils.py:256).
* Reading.  The list of a thread that is given one line has room for none
  (neotags.c:380), and the assertion on the size of a gzip file lets 0 pass.
* Stripping.  In python, the newline in front of an include directive is dropped behind two
  line comments in a row, and the directive is taken for code.  The last letter of a python
  text that ends in a string behind a word is cut off (strip.c:426), and so is what else
  `Misread` lists in `CText` and in `PythonText`.

## 6. Not modelled, and the plan

Not to be modelled: the vim files (tables of options and thin wrappers of the handlers),
the BSD functions, third-party code and build files.

What the models leave out of the parts they are about:

* the backup groups of the engine (`_get_backup`, `_restore_group`, neotags.py:405-427),
  with the exceptions it may raise, and the switch between the two searches
  (neotags.py:974-983);
* plugins without compression, see above: the reading begins where main has its list;
* compound filetypes with `vim` among them in `TagSearch`, whose words are cut in one way and
  printed in the other (id.c, neotags.c:200-208);
* the pipe of ctags' standard error (neotags.py:645): a ctags that fills it is one that
  times out in `TagFiles`;
* the text of the command line of ctags, the errors it prints, and the further files that
  `init_tagfiles` names;
* C-like texts that end in a slash outside of a string, in C, where strip.c:130 may search
  behind the end (`EndsInSlash`), and the capacity of the output of both functions in strip.c;
* in `Projects`, properties of commands of two instances that overlap: what such commands may
  do is in the runs (`turns` FALSE, with kills), but beyond `TypeOK` the code keeps nothing of
  what the registry promises then, as section 5 says;
* the options that change while an update runs, other than `g:neotags_enabled`.

What could come next, in this order:

1. the tags files and the search composed with the engine: `Parse` in `Neotags` as a step
   of `TagFiles`, with several projects, for the hazard that the name of the file and the
   text of the buffer come from two requests (neotags.py:172);
2. an abstract `UpdateGate` (one update at a time, the others dropped) that `Neotags`
   implements;
3. the backup groups.
