------------------------------ MODULE TagFiles ------------------------------
(***************************************************************************)
(* The files an update works with: the tags file that ctags writes, the    *)
(* compressed file that is made of it, and the copy of it that each nvim   *)
(* adds to &tags.  The methods update, _parseTags, _run_ctags and          *)
(* _update_vim_tagfile of neotags.py, for instances of nvim that work in   *)
(* the same project and so on the same two files.                          *)
(*                                                                         *)
(* The flag __is_running lets an instance run one update at a time (see    *)
(* Neotags), and an update that dies with an exception keeps it set.  One  *)
(* action is what an instance does between two points at which another     *)
(* one can change the files, or ctags.                                     *)
(***************************************************************************)
EXTENDS Naturals

CONSTANTS
    Instances,  \* the instances of nvim
    Missing,    \* there is no such file; nothing is highlighted
    Part,       \* a tags file that is not complete
    Torn,       \* a compressed file that ends too early
    Lost,       \* a copy that is kept up to date, but is not in &tags
    MaxSaves,   \* bound: number of changes of the sources
    MaxCrashes, \* bound: number of times a nvim is killed in an update
    MaxOrphans  \* bound: number of ctags processes without a parent

Versions == 0..MaxSaves

Content == Versions \cup {Part}

ASSUME TagFilesAssumption ==
    /\ MaxSaves \in Nat /\ MaxCrashes \in Nat /\ MaxOrphans \in Nat
    /\ Missing \notin Content /\ Torn \notin Content
    /\ Part \notin Versions /\ Torn # Missing
    /\ Lost \notin Content \cup {Missing}

VARIABLES
    generates, \* g:neotags_run_ctags, and the "run" of the project
    psutil,    \* psutil can be imported
    src,       \* the version of the sources
    tagFile,   \* __tagfile: missing, or of which version
    gzFile,    \* __gzfile
    opened,    \* the instances that read what is now __tagfile
    mixedTags, \* two processes have __tagfile open for writing, or had
    mixedGz,   \* the same for __gzfile
    linked,    \* the instances whose ctags writes what is now __tagfile
    orphans,   \* the ctags processes without a parent that do
    tmp,       \* the copy of each instance in &tags
    shown,     \* the tags each instance highlights
    pc,        \* where the update of each instance is
    back,      \* where it goes on after _run_ctags
    data,      \* the version of the sources ctags began with
    crashes,   \* number of times that happened (bounded by MaxCrashes)
    up,        \* history: the last update of each instance, see Began
    disturbed  \* history: see Disturb

settings == <<generates, psutil>>
tags    == <<tagFile, opened, mixedTags, linked, orphans>>
gz      == <<gzFile, mixedGz>>
files   == <<settings, src, tags, gz>>
local   == <<back, data>>
history == <<crashes, up, disturbed>>
vars    == <<files, tmp, shown, pc, local, history>>

Labels == {"idle", "spawn", "ctags", "open", "write", "copy", "unlink", "parse",
           "read", "dead"}

Active(i) == pc[i] \notin {"idle", "dead"}

Goto(i, l) == pc' = [pc EXCEPT ![i] = l]

(***************************************************************************)
(* History of an update: it is forced; of which version the sources were   *)
(* when it began; no other process has interfered and no write has failed, *)
(* or it is Disregarded; it did not get new tags from ctags.               *)
(***************************************************************************)
Began(force) ==
    [force |-> force, base |-> IF force THEN src ELSE 0, alone |-> TRUE, missed |-> FALSE]

Disregarded == [force |-> FALSE, base |-> 0, alone |-> FALSE, missed |-> FALSE]

Miss(i) == up' = [up EXCEPT ![i].missed = up[i].alone]

Disregard(i) == up' = [up EXCEPT ![i] = Disregarded]

(***************************************************************************)
(* History: two updates have overlapped, a nvim was killed in an update, a *)
(* ctags process was left alone, one failed, or the compressed file could  *)
(* not be written or read.                                                 *)
(***************************************************************************)
Disturb(cond) == disturbed' = (disturbed \/ cond)

Init ==
    /\ generates \in BOOLEAN /\ psutil \in BOOLEAN
    /\ src = 0
    /\ tagFile = Missing
    /\ gzFile \in {Missing, 0}
    /\ mixedTags = FALSE /\ mixedGz = FALSE
    /\ opened = {} /\ linked = {} /\ orphans = 0
    /\ tmp = [i \in Instances |-> Missing]
    /\ shown = [i \in Instances |-> Missing]
    /\ pc = [i \in Instances |-> "idle"]
    /\ back = [i \in Instances |-> "parse"]
    /\ data = [i \in Instances |-> 0]
    /\ crashes = 0
    /\ up = [i \in Instances |-> Disregarded]
    /\ disturbed = FALSE

(* Somebody saves a source file. *)
Save ==
    /\ src < MaxSaves
    /\ src' = src + 1
    /\ UNCHANGED <<settings, tags, gz, tmp, shown, pc, local, history>>

(* History: an update of i begins. *)
Overlap(i, force) ==
    LET others == {j \in Instances \ {i} : Active(j)} IN
    /\ up' = [j \in Instances |->
                 IF j \in others THEN Disregarded
                 ELSE IF j # i THEN up[j]
                 ELSE IF others = {} /\ orphans = 0 THEN Began(force) ELSE Disregarded]
    /\ Disturb(others # {})

(* Slip: a forced update parses what is there. *)
StartLazy(i, force) ==
    /\ pc[i] = "idle"
    /\ Goto(i, "parse")
    /\ Overlap(i, force)
    /\ UNCHANGED <<files, tmp, shown, local, crashes>>

(* update, up to the call of _run_ctags or of _parseTags *)
Start(i, force) ==
    /\ pc[i] = "idle"
    /\ Goto(i, IF force /\ generates THEN "spawn" ELSE "parse")
    /\ Overlap(i, force)
    /\ UNCHANGED <<files, tmp, shown, local, crashes>>

-----------------------------------------------------------------------------
(* _run_ctags                                                               *)

(* ctags opens the tags file, and so empties it. *)
Spawn(i) ==
    /\ pc[i] = "spawn"
    /\ tagFile' = Part
    /\ mixedTags' = (linked # {} \/ orphans > 0)
    /\ linked' = linked \cup {i}
    /\ data' = [data EXCEPT ![i] = src]
    /\ Goto(i, "ctags")
    /\ UNCHANGED <<settings, src, opened, orphans, gz, tmp, shown, back, history>>

(***************************************************************************)
(* ctags, or find_tool, ends before it writes; the status is not looked    *)
(* at, but a complaint of the shell is decoded as ASCII.                   *)
(***************************************************************************)
SpawnFails(i) ==
    /\ pc[i] = "spawn"
    /\ Miss(i)
    /\ Disturb(TRUE)
    /\ \E l \in {"open", "dead"} : Goto(i, l)
    /\ UNCHANGED <<files, tmp, shown, local, crashes>>

(* ctags of i has written its tags; in vain if the file was removed. *)
Written(i) ==
    /\ pc[i] = "ctags"
    /\ IF i \in linked
       THEN tagFile' \in (data[i]..src) \cup (IF mixedTags THEN {Part} ELSE {})
       ELSE UNCHANGED tagFile
    /\ linked' = linked \ {i}
    /\ data' = [data EXCEPT ![i] = 0]
    /\ UNCHANGED <<settings, src, opened, mixedTags, orphans, gz, tmp, shown>>
    /\ UNCHANGED <<back, crashes>>

(* proc.wait returns, and what ctags has printed, if anything, is ASCII. *)
CtagsEnds(i) ==
    /\ Written(i)
    /\ Goto(i, "open")
    /\ UNCHANGED <<up, disturbed>>

(***************************************************************************)
(* An exception that ends the update: ctags has printed what decode('ascii')*)
(* refuses, or has ended after the timeout and before _kill gets to it, and *)
(* psutil raises NoSuchProcess.                                             *)
(***************************************************************************)
CtagsBreaks(i) ==
    /\ Written(i)
    /\ Goto(i, "dead")
    /\ Miss(i)
    /\ Disturb(TRUE)

(* Slip: after the timeout, what ctags has written so far is used. *)
TimeoutUsesPart(i) ==
    /\ pc[i] = "ctags"
    /\ linked' = linked \ {i}
    /\ data' = [data EXCEPT ![i] = 0]
    /\ UNCHANGED <<settings, src, tagFile, opened, mixedTags, orphans, gz, tmp, shown>>
    /\ UNCHANGED <<back, crashes, disturbed>>
    /\ Miss(i)
    /\ Goto(i, "open")

(***************************************************************************)
(* subprocess.TimeoutExpired: _kill ends the shell and its children; if    *)
(* psutil is missing only the shell ends, and ctags may go on.             *)
(***************************************************************************)
Timeout(i) ==
    /\ pc[i] = "ctags"
    /\ linked' = linked \ {i}
    /\ \/ UNCHANGED <<orphans, disturbed>> /\ Miss(i)
       \/ /\ ~ psutil /\ i \in linked /\ orphans < MaxOrphans
          /\ orphans' = orphans + 1
          /\ Disturb(TRUE)
          /\ Disregard(i)
    /\ data' = [data EXCEPT ![i] = 0]
    /\ Goto(i, back[i])
    /\ UNCHANGED <<settings, src, tagFile, opened, mixedTags, gz, tmp, shown>>
    /\ UNCHANGED <<back, crashes>>

(* A ctags that nobody waits for has written its tags. *)
OrphanEnds ==
    /\ orphans > 0
    /\ orphans' = orphans - 1
    /\ tagFile' \in (0..src) \cup (IF mixedTags THEN {Part} ELSE {})
    /\ UNCHANGED <<settings, src, opened, mixedTags, linked, gz, tmp, shown, pc, local>>
    /\ UNCHANGED history

(* open(self.__tagfile): an IOError is caught, and the update goes on. *)
NoTagFile(i) ==
    /\ pc[i] = "open"
    /\ tagFile = Missing
    /\ Goto(i, back[i])
    /\ Miss(i)
    /\ UNCHANGED <<files, tmp, shown, local, crashes, disturbed>>

(* Slip: a tags file that is not there is not noticed. *)
TruncateAnyway(i) ==
    /\ pc[i] = "open"
    /\ opened' = opened \cup {i}
    /\ gzFile' = Torn
    /\ mixedGz' = (\E j \in Instances : pc[j] = "write")
    /\ Goto(i, "write")
    /\ UNCHANGED <<settings, src, tagFile, mixedTags, linked, orphans, tmp, shown, local>>
    /\ UNCHANGED history

(* open(self.__tagfile), and _open(self.__gzfile, 'wb'), which empties it *)
Truncate(i) ==
    /\ pc[i] = "open"
    /\ tagFile # Missing
    /\ opened' = opened \cup {i}
    /\ gzFile' = Torn
    /\ mixedGz' = (\E j \in Instances : pc[j] = "write")
    /\ Goto(i, "write")
    /\ UNCHANGED <<settings, src, tagFile, mixedTags, linked, orphans, tmp, shown, local>>
    /\ UNCHANGED history

(* What i reads of its tags file: if that was removed, anything. *)
Contents(i) == IF i \in opened THEN {tagFile} ELSE (0..src) \cup {Part}

(* dst.write(src.read()), and the end of the with *)
Write(i) ==
    /\ pc[i] = "write"
    /\ gzFile' \in Contents(i) \cup (IF mixedGz THEN {Torn} ELSE {})
    /\ Goto(i, "copy")
    /\ UNCHANGED <<settings, src, tags, mixedGz, tmp, shown, local, history>>

(* The compressed file cannot be made, or written: the IOError is caught. *)
WriteFails(i) ==
    /\ pc[i] \in {"open", "write"}
    /\ opened' = opened \ {i}
    /\ Goto(i, back[i])
    /\ Disregard(i)
    /\ Disturb(TRUE)
    /\ UNCHANGED <<settings, src, tagFile, mixedTags, linked, orphans, gz, tmp, shown>>
    /\ UNCHANGED <<local, crashes>>

(* Slip: the copy in &tags is left as it was. *)
NoCopyTags(i) ==
    /\ pc[i] = "copy"
    /\ opened' = opened \ {i}
    /\ Goto(i, "unlink")
    /\ UNCHANGED <<settings, src, tagFile, mixedTags, linked, orphans, gz, tmp, shown>>
    /\ UNCHANGED <<local, history>>

(* The copy in &tags becomes c; one that is not in &tags stays out of it. *)
CopyInto(i, c) == tmp' = [tmp EXCEPT ![i] = IF tmp[i] = Lost THEN Lost ELSE c]

(* src.seek(0), and _update_vim_tagfile from the tags file, read again *)
CopyTags(i) ==
    /\ pc[i] = "copy"
    /\ \E c \in Contents(i) : CopyInto(i, c)
    /\ opened' = opened \ {i}
    /\ Goto(i, "unlink")
    /\ UNCHANGED <<settings, src, tagFile, mixedTags, linked, orphans, gz, shown>>
    /\ UNCHANGED <<local, history>>

(* os.unlink(self.__tagfile): what still has it open writes in vain. *)
Unlink(i) ==
    /\ pc[i] = "unlink"
    /\ tagFile' = Missing
    /\ mixedTags' = FALSE
    /\ opened' = {} /\ linked' = {} /\ orphans' = 0
    /\ Goto(i, back[i])
    /\ UNCHANGED <<settings, src, gz, tmp, shown, local, history>>

(* The tags file cannot be removed: the IOError is caught. *)
UnlinkFails(i) ==
    /\ pc[i] = "unlink"
    /\ Goto(i, back[i])
    /\ UNCHANGED <<files, tmp, shown, local, history>>

-----------------------------------------------------------------------------
(* _parseTags                                                               *)

(* There is no compressed file yet: ctags runs, even if it has just failed. *)
Generate(i) ==
    /\ pc[i] = "parse"
    /\ gzFile = Missing /\ generates
    /\ back' = [back EXCEPT ![i] = "read"]
    /\ Goto(i, "spawn")
    /\ UNCHANGED <<files, tmp, shown, data, history>>

(* self.__gzfile = None: no tag files found *)
NoTagFiles(i) ==
    /\ pc[i] = "parse"
    /\ gzFile = Missing /\ ~ generates
    /\ shown' = [shown EXCEPT ![i] = Missing]
    /\ Goto(i, "idle")
    /\ UNCHANGED <<files, tmp, local, history>>

(* _update_vim_tagfile: of a torn file nothing, or what it begins with *)
Copy(i) ==
    /\ pc[i] = "parse"
    /\ gzFile # Missing
    /\ CopyInto(i, IF gzFile = Torn THEN Part ELSE gzFile)
    /\ Goto(i, "read")
    /\ UNCHANGED <<files, shown, local, history>>

(***************************************************************************)
(* An IOError in _update_vim_tagfile, which is caught there: the copy is   *)
(* as it was, or in part.  The first copy is added to __tmp_cache before   *)
(* it is written, and to &tags after that: it may never get there.         *)
(***************************************************************************)
CopyFails(i) ==
    /\ pc[i] \in {"copy", "parse"} /\ gzFile # Missing
    /\ \E c \in {tmp[i], Part} \cup (IF tmp[i] = Missing THEN {Lost} ELSE {}) :
          CopyInto(i, c)
    /\ opened' = opened \ {i}
    /\ Goto(i, IF pc[i] = "copy" THEN "unlink" ELSE "read")
    /\ Disregard(i)
    /\ UNCHANGED <<settings, src, tagFile, mixedTags, linked, orphans, gz, shown>>
    /\ UNCHANGED <<local, crashes, disturbed>>

(* _bin_get_tags or _get_tags; a file that is not there gives no tags. *)
Read(i) ==
    /\ pc[i] = "read"
    /\ shown' = [shown EXCEPT ![i] = IF gzFile = Torn THEN Part ELSE gzFile]
    /\ back' = [back EXCEPT ![i] = "parse"]
    /\ Goto(i, "idle")
    /\ UNCHANGED <<files, tmp, data, history>>

(* An EOFError is no IOError: it ends the update, and __is_running stays. *)
EndOfFile(i) ==
    /\ pc[i] \in {"parse", "read"}
    /\ gzFile = Torn
    /\ Goto(i, "dead")
    /\ UNCHANGED <<files, tmp, shown, local, history>>

(* The compressed file cannot be opened or read: only its absence is caught. *)
Unreadable(i) ==
    /\ pc[i] \in {"parse", "read"}
    /\ gzFile # Missing
    /\ Goto(i, "dead")
    /\ Disregard(i)
    /\ Disturb(TRUE)
    /\ UNCHANGED <<files, tmp, shown, local, crashes>>

(* nvim ends and is started again; a ctags of its goes on. *)
Restart(i) ==
    /\ Active(i) => crashes < MaxCrashes
    /\ crashes' = IF Active(i) THEN crashes + 1 ELSE crashes
    /\ opened' = opened \ {i}
    /\ i \in linked => orphans < MaxOrphans
    /\ orphans' = IF i \in linked THEN orphans + 1 ELSE orphans
    /\ linked' = linked \ {i}
    /\ tmp' = [tmp EXCEPT ![i] = Missing]
    /\ shown' = [shown EXCEPT ![i] = Missing]
    /\ Goto(i, "idle")
    /\ back' = [back EXCEPT ![i] = "parse"]
    /\ data' = [data EXCEPT ![i] = 0]
    /\ Disregard(i)
    /\ Disturb(Active(i))
    /\ UNCHANGED <<settings, src, tagFile, mixedTags, gz>>

Next ==
    \/ Save \/ OrphanEnds
    \/ \E i \in Instances :
          \/ \E force \in BOOLEAN : Start(i, force)
          \/ Spawn(i) \/ SpawnFails(i) \/ CtagsEnds(i) \/ CtagsBreaks(i) \/ Timeout(i)
          \/ NoTagFile(i) \/ Truncate(i) \/ Write(i) \/ WriteFails(i)
          \/ CopyTags(i) \/ CopyFails(i) \/ Unlink(i) \/ UnlinkFails(i)
          \/ Generate(i) \/ NoTagFiles(i) \/ Copy(i) \/ Read(i)
          \/ EndOfFile(i) \/ Unreadable(i) \/ Restart(i)

Spec == Init /\ [][Next]_vars

-----------------------------------------------------------------------------
(* Properties.                                                              *)

(***************************************************************************)
(* The type invariant (neotags.py:635-688, 899-926): a tags file somebody  *)
(* reads by its name is there.                                             *)
(***************************************************************************)
TypeOK ==
    /\ generates \in BOOLEAN /\ psutil \in BOOLEAN
    /\ src \in Versions
    /\ tagFile \in Content \cup {Missing}
    /\ gzFile \in Content \cup {Missing, Torn}
    /\ mixedTags \in BOOLEAN /\ mixedGz \in BOOLEAN
    /\ linked \subseteq Instances /\ orphans \in 0..MaxOrphans
    /\ opened \subseteq Instances /\ (opened # {} => tagFile # Missing)
    /\ tmp \in [Instances -> Content \cup {Missing, Lost}]
    /\ shown \in [Instances -> Content \cup {Missing}]
    /\ pc \in [Instances -> Labels]
    /\ back \in [Instances -> {"parse", "read"}]
    /\ data \in [Instances -> Versions]
    /\ crashes \in 0..MaxCrashes
    /\ up \in [Instances ->
                 [force : BOOLEAN, base : Versions, alone : BOOLEAN, missed : BOOLEAN]]
    /\ disturbed \in BOOLEAN

(***************************************************************************)
(* Saving repairs: a forced update that no other process has interfered    *)
(* with, whose ctags came to its end and whose files could be written,     *)
(* shows tags that are not older than the save, whatever partial, torn or  *)
(* outdated files were there when it began (neotags.py:183-186).           *)
(***************************************************************************)
ForcedFresh ==
    \A i \in Instances :
        generates /\ up[i].force /\ up[i].alone /\ ~ up[i].missed /\ ~ Active(i) =>
            pc[i] = "idle" /\ shown[i] \in up[i].base..src

(***************************************************************************)
(* The tags nvim jumps to are the tags that are highlighted, whenever an   *)
(* update is over that no other process has interfered with, an orphan of  *)
(* its own included, and that could write: the copy in &tags is written in *)
(* two places, in one of them from the tags file read a second time        *)
(* (neotags.py:379, 660-664).  A copy that never got into &tags is left    *)
(* aside.                                                                  *)
(***************************************************************************)
JumpsMatch ==
    \A i \in Instances :
        up[i].alone /\ pc[i] = "idle" /\ tmp[i] # Lost => tmp[i] = shown[i]

(***************************************************************************)
(* Timeouts do no harm: if no two updates overlap, no nvim is killed, no   *)
(* ctags fails or is left alone, and the compressed file can be written    *)
(* and read, then no update dies, and the compressed file is whole, and    *)
(* made of a whole tags file, except while it is written                   *)
(* (neotags.py:657-666, 677-685).                                          *)
(***************************************************************************)
Undisturbed ==
    ~ disturbed =>
        /\ \A i \in Instances : pc[i] # "dead"
        /\ gzFile = Torn => \E i \in Instances : pc[i] = "write"
        /\ gzFile # Part

=============================================================================
