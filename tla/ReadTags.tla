------------------------------- MODULE ReadTags -------------------------------
(***************************************************************************)
(* neotags_bin up to its search: main in neotags_bin/src/neotags.c reads   *)
(* the tags files it is given, plain or compressed (getlines.c and         *)
(* archive_util_*.c), cuts them into lines, cuts the buffer into words,    *)
(* and has threads collect what they find; all of it in arrays that grow.  *)
(*                                                                         *)
(* The files belong to others: another nvim may truncate, rewrite or       *)
(* remove one between any two system calls.  zlib and liblzma are external *)
(* and modelled by what they return.  "?" stands for memory that was never *)
(* set.                                                                    *)
(***************************************************************************)
EXTENDS Growth, Sequences

CONSTANTS
    Names,    \* the files
    Contents, \* what may be in a file of each type, and Missing
    ArgLists, \* the arguments: sequences of pairs of a type and a name
    Missing,  \* there is no such file
    Closed,   \* no file is open
    Linked,   \* the open file is the one that is there
    NoSize,   \* a file too small to have a size at its end: -1 in the code
    MaxText,  \* bound: characters in a file, and the sizes a torn file may show
    MaxActs,  \* bound: what others do to the files
    MaxWords, \* bound: words in the buffer
    Threads   \* number of threads

Types == {"none", "gzip", "lzma", "other"}

(***************************************************************************)
(* "bytes" is the length of a plain file, and 0 where a compressed one is  *)
(* too small for any archive.                                              *)
(***************************************************************************)
File == [text : Seq({"x", "y", "newline"}), bytes : Nat, whole : BOOLEAN]

ASSUME ReadAssumption ==
    /\ Contents \in [Types -> SUBSET (File \cup {Missing})]
    /\ ArgLists \subseteq Seq([type : Types, name : Names])
    /\ \A f \in Contents["none"] \ {Missing} : f.bytes = Len(f.text)
    /\ \A f \in (Contents["gzip"] \cup Contents["lzma"]) \ {Missing} :
          f.whole => f.bytes > 0
    /\ Missing \notin File /\ {Closed, Linked} \cap (File \cup {Missing}) = {}
    /\ Closed # Linked
    /\ NoSize \notin Nat
    /\ MaxText \in Nat /\ MaxActs \in Nat /\ MaxWords \in Nat
    /\ Threads \in Nat \ {0}

VARIABLES
    args,  \* the files to read: files in main
    disk,  \* what is in each file
    acts,  \* how often others have changed one
    next,  \* the argument main is at
    pc,    \* where the process is
    fp,    \* the open file: Linked, or what a removed file had in it
    torn,  \* the open file was changed since it was opened
    size,  \* the size that was found: archive and uncompressed
    stage, \* how far the decoder of the index is
    buf,   \* the characters that were read, or are yet to be cut into lines
    lines, \* the lines, each with its argument
    nread, \* the files that count as read
    lists, \* the arrays
    part   \* the number of lines that a thread is given

files  == <<args, disk, acts>>
main   == <<next, lines, nread, lists, part>>
reader == <<fp, torn, size, stage, buf>>
vars   == <<files, main, reader, pc>>

Arg  == args[next]
Here == disk[Arg.name]
Open == IF fp = Linked THEN Here ELSE fp

At(label, type) == pc = label /\ next <= Len(args) /\ Arg.type = type

Unset(n) == [k \in 1..n |-> "?"]

Least(m, n) == IF m < n THEN m ELSE n

Init ==
    /\ args \in ArgLists
    /\ disk \in [Names -> UNION {Contents[t] : t \in Types}]
    /\ \A n \in DOMAIN args : disk[args[n].name] \in Contents[args[n].type]
    /\ \A f \in Names : (\A n \in DOMAIN args : args[n].name # f) => disk[f] = Missing
    /\ acts = 0
    /\ next = 1 /\ pc = "next"
    /\ fp = Closed /\ torn = FALSE
    /\ size = [archive |-> 0, text |-> 0] /\ stage = [at |-> 0, stalled |-> FALSE]
    /\ buf = <<>> /\ lines = <<>> /\ nread = 0
    /\ lists = [tags |-> NewList(InitTags), backups |-> NewList(InitBackups),
                toks |-> NewList(InitStrings), found |-> NewFound(0)]
    /\ part = 0

-----------------------------------------------------------------------------
(* The others: they write a file in place, or remove it, until all are read. *)

Write(f, c) ==
    /\ acts < MaxActs /\ pc \notin {"words", "search", "dead", "done"}
    /\ c # disk[f]
    /\ acts' = acts + 1
    /\ disk' = [disk EXCEPT ![f] = c]
    /\ IF fp = Linked /\ next <= Len(args) /\ Arg.name = f
       THEN torn' = TRUE /\ fp' = IF c = Missing THEN disk[f] ELSE fp
       ELSE UNCHANGED <<torn, fp>>
    /\ UNCHANGED <<args, main, pc, size, stage, buf>>

Others ==
    \E n \in DOMAIN args : \E c \in Contents[args[n].type] : Write(args[n].name, c)

-----------------------------------------------------------------------------
(* err, errx, and what ends the process otherwise *)
Die ==
    /\ pc' = "dead"
    /\ UNCHANGED <<files, main, reader>>

GoTo(label) ==
    /\ pc' = label
    /\ UNCHANGED <<files, main>>

(* getlines returns: 1, or 0 for an unknown type. *)
Return(counts) ==
    /\ next' = next + 1
    /\ nread' = nread + counts
    /\ pc' = "next"
    /\ fp' = Closed
    /\ UNCHANGED <<files, torn, size, stage, buf, lines, lists, part>>

Opened ==
    /\ fp' = Linked
    /\ torn' = FALSE
    /\ UNCHANGED <<size, stage, buf>>

(* add_backup, then the loop of ll_strsep *)
Split(b) ==
    /\ buf' = b
    /\ pc' = "split"
    /\ fp' = Closed
    /\ lists' = [lists EXCEPT !.backups = AddBackup(@)]
    /\ UNCHANGED <<files, torn, size, stage, next, lines, nread, part>>

Unknown == At("next", "other") /\ Return(0)

-----------------------------------------------------------------------------
(* plain_getlines *)

OpenPlain ==
    /\ At("next", "none")
    /\ IF Here = Missing THEN Die ELSE GoTo("plain_stat") /\ Opened

(* file_is_reg and safe_stat ask for the name, not for what was opened. *)
StatPlain ==
    /\ At("plain_stat", "none")
    /\ IF Here = Missing THEN Die
       ELSE /\ GoTo("plain_read")
            /\ size' = [archive |-> Here.bytes, text |-> Here.bytes]
            /\ buf' = <<>>
            /\ UNCHANGED <<fp, torn, stage>>

(* fread: one read of as many characters as the system gives *)
ReadPlain ==
    /\ At("plain_read", "none")
    /\ \E k \in (Len(buf) + 1)..Least(size.text, Len(Open.text)) :
          buf' = buf \o SubSeq(Open.text, Len(buf) + 1, k)
    /\ GoTo("plain_read")
    /\ UNCHANGED <<fp, torn, size, stage>>

(* Slip: what fread returned is not compared with the size. *)
EndPlainUnchecked ==
    /\ At("plain_read", "none")
    /\ Len(buf) >= Least(size.text, Len(Open.text))
    /\ Split(buf \o Unset(size.text - Len(buf)))

(* The end of fread; too few characters are an error, but not a fatal one. *)
EndPlain ==
    /\ At("plain_read", "none")
    /\ Len(buf) >= Least(size.text, Len(Open.text))
    /\ IF Len(buf) = size.text THEN Split(buf) ELSE Return(1)

-----------------------------------------------------------------------------
(* gz_getlines, with gzip_size *)

OpenGzip ==
    /\ At("next", "gzip")
    /\ IF Here = Missing THEN Die
       ELSE /\ GoTo("gz_size")
            /\ fp' = Linked /\ torn' = FALSE
            /\ size' = [archive |-> Here.bytes, text |-> NoSize]
            /\ UNCHANGED <<stage, buf>>

(***************************************************************************)
(* get_size: the last bytes are the size, if the file ends where it ended  *)
(* when lseek was called, and any number otherwise.                        *)
(***************************************************************************)
SizeGzip ==
    /\ At("gz_size", "gzip")
    /\ IF size.archive > Open.bytes THEN Die
       ELSE /\ GoTo("gz_open")
            /\ \E n \in IF size.archive = 0 THEN {NoSize}
                        ELSE IF Open.whole /\ Open.bytes = size.archive
                        THEN {Len(Open.text)} ELSE 0..MaxText :
                  size' = [size EXCEPT !.text = n]
            /\ fp' = Closed
            /\ UNCHANGED <<torn, stage, buf>>

(* gzopen: a file that is gone by now counts as read. *)
ReopenGzip ==
    /\ At("gz_open", "gzip")
    /\ IF Here = Missing THEN Return(1) ELSE GoTo("gz_read") /\ Opened

(***************************************************************************)
(* gzread gives as much as was asked for and is there, of a torn file less *)
(* or -1; the assertion lets the size and 0 pass, and 0 leaves the memory  *)
(* as it was.  A size of -1 is asked for as -1, which passes as well, and  *)
(* the null character is written in front of the memory.                   *)
(***************************************************************************)
ReadGzip ==
    /\ At("gz_read", "gzip")
    /\ IF size.text = NoSize THEN Die \/ \E n \in 0..1 : Split(Unset(n))
       ELSE LET most == Least(size.text, Len(Open.text))
            IN  \E n \in IF Open.whole THEN {most} ELSE (-1)..most :
                   IF n = size.text THEN Split(SubSeq(Open.text, 1, n))
                   ELSE IF n = 0 THEN Split(Unset(size.text)) ELSE Die

-----------------------------------------------------------------------------
(* xz_getlines, with xz_size *)

OpenXz ==
    /\ At("next", "lzma")
    /\ IF Here = Missing \/ Here.bytes = 0 THEN Die
       ELSE /\ GoTo("xz_info")
            /\ fp' = Linked /\ torn' = FALSE
            /\ size' = [archive |-> Here.bytes, text |-> 0]
            /\ stage' = [at |-> 0, stalled |-> FALSE]
            /\ UNCHANGED buf

(* The file is the archive that the decoder was told the size of, all along. *)
Intact == Open.whole /\ ~ torn /\ Open.bytes = size.archive

(* The decoder reads the header, the footer and the index. *)
Stages == 3

(* LZMA_SEEK_NEEDED, and LZMA_STREAM_END at last *)
InfoGoesOn ==
    /\ At("xz_info", "lzma")
    /\ IF stage.at < Stages
       THEN /\ GoTo("xz_info")
            /\ stage' = [at |-> stage.at + 1, stalled |-> FALSE]
            /\ UNCHANGED <<fp, torn, size, buf>>
       ELSE /\ GoTo("xz_open")
            /\ \E n \in IF Intact THEN {Len(Open.text)} ELSE 0..MaxText :
                  size' = [size EXCEPT !.text = n]
            /\ fp' = Closed
            /\ UNCHANGED <<torn, stage, buf>>

(* Slip: LZMA_BUF_ERROR is taken like LZMA_OK, and the decoder is called again. *)
InfoStallsOn ==
    /\ At("xz_info", "lzma") /\ ~ Intact
    /\ GoTo("xz_info")
    /\ stage' = [stage EXCEPT !.stalled = ~ @]
    /\ UNCHANGED <<fp, torn, size, buf>>

(***************************************************************************)
(* io_read is at the end of the file: liblzma returns LZMA_OK once, and    *)
(* LZMA_BUF_ERROR if it still gets nothing.                                *)
(***************************************************************************)
InfoStalls ==
    /\ At("xz_info", "lzma") /\ ~ Intact
    /\ IF stage.stalled THEN Die
       ELSE /\ GoTo("xz_info")
            /\ stage' = [stage EXCEPT !.stalled = TRUE]
            /\ UNCHANGED <<fp, torn, size, buf>>

(* any other code *)
InfoFails == At("xz_info", "lzma") /\ ~ Intact /\ Die

ReopenXz ==
    /\ At("xz_open", "lzma")
    /\ IF Here = Missing THEN Die ELSE GoTo("xz_read") /\ Opened

(* Slip: only as many bytes are asked for as the archive had. *)
AskedExactly == size.archive

(* io_read: it fails if it gets all the bytes it asks for. *)
Asked == size.archive + 1

(***************************************************************************)
(* The decoder gets to the end of the stream if the archive is whole and   *)
(* there is room for its text; nothing compares the size of the text with  *)
(* the one expected.                                                       *)
(***************************************************************************)
ReadXz ==
    /\ At("xz_read", "lzma")
    /\ Open.bytes < Asked
    /\ Open.whole /\ Len(Open.text) <= size.text
    /\ Split(Open.text \o Unset(size.text - Len(Open.text)))

(* "buffer too small", or no end of the stream *)
ReadXzFails ==
    /\ At("xz_read", "lzma")
    /\ \/ Open.bytes >= Asked
       \/ ~ Open.whole
       \/ Len(Open.text) > size.text
       \/ torn
    /\ Die

-----------------------------------------------------------------------------
(* ll_strsep *)

(* strsep: the next newline, or the end *)
IsBreak(k) ==
    /\ \A l \in 1..(k - 1) : buf[l] # "newline"
    /\ k <= Len(buf) => buf[k] = "newline"

AddTag(text) ==
    /\ lines' = Append(lines, [from |-> next, text |-> text])
    /\ lists' = [lists EXCEPT !.tags = AddLine(@)]

(* Slip: what is behind the last newline is dropped. *)
SplitLineDropLast ==
    /\ pc = "split"
    /\ \E k \in 1..(Len(buf) + 1) :
          /\ IsBreak(k)
          /\ IF k = 1 \/ k > Len(buf) THEN UNCHANGED <<lines, lists>>
                                     ELSE AddTag(SubSeq(buf, 1, k - 1))
          /\ IF k > Len(buf) THEN next' = next + 1 /\ nread' = nread + 1 /\ pc' = "next"
                             ELSE UNCHANGED <<next, nread, pc>>
          /\ buf' = SubSeq(buf, k + 1, Len(buf))
    /\ UNCHANGED <<files, fp, torn, size, stage, part>>

(* One round of the loop: empty lines are skipped. *)
SplitLine ==
    /\ pc = "split"
    /\ \E k \in 1..(Len(buf) + 1) :
          /\ IsBreak(k)
          /\ IF k = 1 THEN UNCHANGED <<lines, lists>> ELSE AddTag(SubSeq(buf, 1, k - 1))
          /\ IF k > Len(buf) THEN next' = next + 1 /\ nread' = nread + 1 /\ pc' = "next"
                             ELSE UNCHANGED <<next, nread, pc>>
          /\ buf' = SubSeq(buf, k + 1, Len(buf))
    /\ UNCHANGED <<files, fp, torn, size, stage, part>>

-----------------------------------------------------------------------------
(* main behind the loop over the files *)

AllRead ==
    /\ pc = "next"
    /\ next > Len(args)
    /\ IF nread = 0 THEN Die
       ELSE /\ pc' = "words"
            /\ lists' = [lists EXCEPT !.backups = AddBackup(@)]
            /\ UNCHANGED <<files, reader, next, lines, nread, part>>

(* tokenize: one word *)
AddWord ==
    /\ pc = "words"
    /\ lists.toks.num < MaxWords
    /\ lists' = [lists EXCEPT !.toks = AddToList(@)]
    /\ UNCHANGED <<files, reader, next, lines, nread, part, pc>>

(* The lines a thread is given: the last one takes what the division leaves. *)
Parts ==
    LET quot == Len(lines) \div Threads
    IN  {quot, Len(lines) - ((Threads - 1) * quot)}

(* tok_search: no lines at all are an error; otherwise one of the threads *)
Search ==
    /\ pc = "words"
    /\ IF lines = <<>> THEN Die
       ELSE /\ pc' = "search"
            /\ \E p \in Parts :
                  /\ part' = p
                  /\ lists' = [lists EXCEPT !.found = NewFound(p)]
            /\ UNCHANGED <<files, reader, next, lines, nread>>

(* do_tok_search: it keeps one of its lines *)
AddFound ==
    /\ pc = "search"
    /\ lists.found.num < part
    /\ lists' = [lists EXCEPT !.found = AddToList(@)]
    /\ UNCHANGED <<files, reader, next, lines, nread, part, pc>>

Ended ==
    /\ pc = "search"
    /\ pc' = "done"
    /\ UNCHANGED <<files, main, reader>>

Stopped == pc \in {"dead", "done"} /\ UNCHANGED vars

Step ==
    \/ Unknown
    \/ OpenPlain \/ StatPlain \/ ReadPlain \/ EndPlain
    \/ OpenGzip \/ SizeGzip \/ ReopenGzip \/ ReadGzip
    \/ OpenXz \/ InfoGoesOn \/ InfoStalls \/ InfoFails
    \/ ReopenXz \/ ReadXz \/ ReadXzFails
    \/ SplitLine \/ AllRead \/ AddWord \/ Search \/ AddFound \/ Ended

Next == Step \/ Others \/ Stopped

Spec == Init /\ [][Next]_vars

(* The process runs on, whatever the others do. *)
FairSpec == Spec /\ WF_vars(Step)

-----------------------------------------------------------------------------
(* Properties.                                                              *)

(* Where the lines of a text begin, and the line at a beginning; empty ones are none. *)
Beginnings(t) == {k \in DOMAIN t : t[k] # "newline" /\ (k = 1 \/ t[k - 1] = "newline")}

LineAt(t, k) ==
    LET end == CHOOSE e \in k..Len(t) :
                  /\ \A c \in k..e : t[c] # "newline"
                  /\ e = Len(t) \/ t[e + 1] = "newline"
    IN  SubSeq(t, k, end)

Text(n) == disk[args[n].name].text

(* at says where in its file each line begins: first by file, then by beginning. *)
InOrder(at) ==
    \A j, k \in DOMAIN lines : j < k =>
        \/ lines[j].from < lines[k].from
        \/ lines[j].from = lines[k].from /\ at[j] < at[k]

Faithful(at) ==
    \A j \in DOMAIN lines :
        LET t == Text(lines[j].from)
        IN  at[j] \in Beginnings(t) /\ lines[j].text = LineAt(t, at[j])

(* Each line of the n-th file is there. *)
Complete(at, n) ==
    \A k \in Beginnings(Text(n)) :
        \E j \in DOMAIN lines : lines[j].from = n /\ at[j] = k

(* The files are there, whole, of a known type, and nobody touches them. *)
Quiet ==
    /\ acts = 0
    /\ \A n \in DOMAIN args :
          /\ args[n].type # "other"
          /\ disk[args[n].name] # Missing /\ disk[args[n].name].whole

(***************************************************************************)
(* The type invariant: in particular the size that is asked for is one     *)
(* that was found, and a file is open only while it is looked at           *)
(* (getlines.c:98-211).                                                   *)
(***************************************************************************)
TypeOK ==
    /\ args \in ArgLists /\ disk \in [Names -> UNION {Contents[t] : t \in Types}]
    /\ acts \in 0..MaxActs
    /\ next \in 1..(Len(args) + 1) /\ nread \in 0..Len(args)
    /\ pc \in {"next", "plain_stat", "plain_read", "gz_size", "gz_open", "gz_read",
               "xz_info", "xz_open", "xz_read", "split", "words", "search", "done", "dead"}
    /\ fp \in {Closed, Linked} \cup File /\ torn \in BOOLEAN
    /\ pc \in {"plain_stat", "plain_read", "gz_size", "gz_read", "xz_info", "xz_read"}
          => fp # Closed /\ Open # Missing
    /\ size \in [archive : Nat, text : Nat \cup {NoSize}]
    /\ stage \in [at : 0..Stages, stalled : BOOLEAN]
    /\ buf \in Seq({"x", "y", "newline", "?"})
    /\ lines \in Seq([from : DOMAIN args, text : Seq({"x", "y", "?"})])
    /\ lists \in [{"tags", "backups", "toks", "found"} -> List]
    /\ lists.tags.num = Len(lines)
    /\ part \in Nat

(***************************************************************************)
(* No array is filled beyond its memory, whatever the files and the buffer *)
(* hold (util.c:80-103, getlines.c:70-74).  A thread that is given one     *)
(* line is left out: its array has room for none (neotags.c:380).          *)
(***************************************************************************)
WithinRoom ==
    /\ Inside(lists.tags) /\ Inside(lists.backups) /\ Inside(lists.toks)
    /\ part # 1 => Inside(lists.found)

(***************************************************************************)
(* Files that nobody touches are read completely, however read() divides   *)
(* them, of whatever type, and in their order: the array holds exactly     *)
(* their lines that are not empty (getlines.c:59-75, neotags.c:79-81).     *)
(***************************************************************************)
LinesOfFiles ==
    Quiet /\ pc \in {"next", "words", "search", "done"} =>
        \E at \in [DOMAIN lines -> UNION {DOMAIN Text(n) : n \in 1..(next - 1)}] :
            /\ InOrder(at) /\ Faithful(at)
            /\ \A j \in DOMAIN lines : lines[j].from < next
            /\ \A n \in 1..(next - 1) : Complete(at, n)

(***************************************************************************)
(* The checks that end the process or leave a file out do not hit files    *)
(* nobody touches: it dies only if there is no line at all                 *)
(* (getlines.c:104, 140, 193-209, archive_util_xz.c:190-239).              *)
(***************************************************************************)
QuietFilesDoNotKill ==
    Quiet /\ pc = "dead" => lines = <<>> /\ next > Len(args)

(***************************************************************************)
(* Whatever others do, a line of a plain file consists of what was in the  *)
(* file, never of memory that was not set (getlines.c:104-113), and so does *)
(* a line of any whole archive that nobody touches.                        *)
(***************************************************************************)
NothingMadeUp ==
    \A k \in DOMAIN lines :
        "?" \in {lines[k].text[c] : c \in DOMAIN lines[k].text} =>
            /\ args[lines[k].from].type # "none"
            /\ ~ Quiet

(* However often the others interfere, the process ends. *)
Ends == <>(pc \in {"dead", "done"})

=============================================================================
