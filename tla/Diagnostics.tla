---------------------------- MODULE Diagnostics ----------------------------
(***************************************************************************)
(* The verbose mode of neotags.nvim: the stack of start times that the     *)
(* class Diagnostics keeps for all updates together (diagnostics.py), the  *)
(* places of update, _parseTags, _run_ctags, _parse, highlight and         *)
(* _highlight that push and pop it, and the switch of the verbosity.       *)
(*                                                                         *)
(* A time is represented by who pushed it and for which section, which is  *)
(* what the pops are compared with.  debug_start, pop and clear_stack are  *)
(* plain python.  debug_echo and debug_end, in verbose mode only, end in   *)
(* the request nvim_out_write, and so give way to the other greenlets:     *)
(* every action below ends at a request.                                   *)
(*                                                                         *)
(* "steady" is how the plugin is meant to be used: the verbosity is        *)
(* switched at rest, and every filetype that is highlighted has tags.      *)
(***************************************************************************)
EXTENDS Naturals, Sequences

CONSTANTS
    Handlers,   \* the greenlets that can be alive at the same time
    MaxKeys,    \* bound: the number of keys of a filetype
    MaxActs     \* bound: the number of events and switches

ASSUME DiagnosticsAssumption == MaxKeys \in Nat /\ MaxActs \in Nat

VARIABLES
    steady,     \* see above; never changes
    verbose,    \* debug_start and the others are not __void
    stack,      \* __start_time
    isRunning,  \* Neotags.__is_running
    acts,       \* how many handlers were started (bounded by MaxActs)
    pc,         \* where each handler is
    back,       \* where _run_ctags returns to
    n           \* the number of keys that highlight has taken up

rest  == <<steady, acts>>
vars  == <<steady, verbose, stack, isRunning, acts, pc, back, n>>

Sections == {"update", "files", "ctags", "compress", "parse", "key"}

Entry == [by : Handlers, of : Sections]

(* Past Enter, and not yet at its end: __is_running is set. *)
Working == {"select", "ctags", "command", "compress", "compressed", "ctagsEnd",
            "files", "listing", "listed", "tags", "parsed", "skip", "keys", "key",
            "end", "clear", "last"}

Labels == Working \cup {"idle", "guard", "toggle", "switch", "dead"}

Init ==
    /\ steady \in BOOLEAN
    /\ verbose \in BOOLEAN           \* g:neotags_verbose
    /\ stack = <<>>
    /\ isRunning = FALSE
    /\ acts = 0
    /\ pc = [h \in Handlers |-> "idle"]
    /\ back = [h \in Handlers |-> "files"]
    /\ n = [h \in Handlers |-> 0]

AtRest == \A h \in Handlers : pc[h] = "idle"

-----------------------------------------------------------------------------
(* The class Diagnostics.                                                   *)

Goto(h, l) == pc' = [pc EXCEPT ![h] = l]

Top == stack[Len(stack)]

Popped == SubSeq(stack, 1, Len(stack) - 1)

(* dia.debug_start(), for section s *)
DebugStart(h, s) ==
    stack' = IF verbose THEN Append(stack, [by |-> h, of |-> s]) ELSE stack

(* dia.debug_end() and dia.pop(), then on to l.  The IndexError of an empty *)
(* list is raised outside the try of debug_end and ends the update.         *)
DebugEnd(h, l) ==
    \/ verbose /\ stack # <<>> /\ stack' = Popped /\ Goto(h, l)
    \/ verbose /\ stack = <<>> /\ UNCHANGED stack /\ Goto(h, "dead")
    \/ ~verbose /\ UNCHANGED stack /\ Goto(h, l)

-----------------------------------------------------------------------------
(* update                                                                   *)

(* if self.__is_running: return *)
Drop(h) ==
    /\ pc[h] = "guard"
    /\ isRunning
    /\ Goto(h, "idle")
    /\ UNCHANGED <<rest, verbose, stack, isRunning, back, n>>

(* dia.debug_start(), self.__is_running = True *)
Enter(h) ==
    /\ pc[h] = "guard"
    /\ ~isRunning
    /\ isRunning' = TRUE
    /\ DebugStart(h, "update")
    /\ Goto(h, "select")
    /\ UNCHANGED <<rest, verbose, back, n>>

(* A forced update runs ctags and parses, another parses or uses the cache. *)
Select(h) ==
    /\ pc[h] = "select"
    /\ \E l \in {"ctags", "files", "keys"} : Goto(h, l)
    /\ back' = [back EXCEPT ![h] = "files"]
    /\ UNCHANGED <<rest, verbose, stack, isRunning, n>>

Inside(h) == UNCHANGED <<rest, verbose, isRunning, back, n>>

(* _run_ctags: the first request asks for g:neotags_ctags_args. *)
RunCtags(h) ==
    /\ pc[h] = "ctags"
    /\ DebugStart(h, "ctags")
    /\ Goto(h, "command")
    /\ Inside(h)

(* _run_ctags: 'Not running ctags.' *)
NoCommand(h) ==
    /\ pc[h] = "command"
    /\ DebugEnd(h, back[h])
    /\ Inside(h)

(* _run_ctags: ctags succeeds, or times out or cannot be found. *)
Command(h) ==
    /\ pc[h] = "command"
    /\ \E l \in {"compress", "ctagsEnd"} : Goto(h, l)
    /\ UNCHANGED stack
    /\ Inside(h)

(* _run_ctags: the inner try; 'tempname' is a request. *)
Compress(h) ==
    /\ pc[h] = "compress"
    /\ DebugStart(h, "compress")
    /\ Goto(h, "compressed")
    /\ Inside(h)

(* Slip: the inner finally is left out. *)
CompressedOpen(h) ==
    /\ pc[h] = "compressed"
    /\ Goto(h, "ctagsEnd")
    /\ UNCHANGED stack
    /\ Inside(h)

(* _run_ctags: the inner finally, 'Finished compressing file.' *)
Compressed(h) ==
    /\ pc[h] = "compressed"
    /\ DebugEnd(h, "ctagsEnd")
    /\ Inside(h)

(* _run_ctags: the outer finally, 'Finished running ctags' *)
CtagsEnd(h) ==
    /\ pc[h] = "ctagsEnd"
    /\ DebugEnd(h, back[h])
    /\ Inside(h)

(* Slip: debug_start is left out. *)
FilesQuiet(h) ==
    /\ pc[h] = "files"
    /\ Goto(h, "listing")
    /\ UNCHANGED stack
    /\ Inside(h)

(* _parseTags: 'Using tags file' *)
Files(h) ==
    /\ pc[h] = "files"
    /\ DebugStart(h, "files")
    /\ Goto(h, "listing")
    /\ Inside(h)

(* _parseTags runs ctags when there is no tags file yet. *)
Listing(h) ==
    /\ pc[h] = "listing"
    /\ \E l \in {"ctags", "listed"} : Goto(h, l)
    /\ back' = [back EXCEPT ![h] = "listed"]
    /\ UNCHANGED <<rest, verbose, stack, isRunning, n>>

(* _parseTags: 'Finished updating file list' *)
Listed(h) ==
    /\ pc[h] = "listed"
    /\ DebugEnd(h, "tags")
    /\ Inside(h)

(***************************************************************************)
(* _parseTags: no file, or no order for the filetype, gives None; the      *)
(* binary leaves the stack alone, _parse of the python code does not.      *)
(***************************************************************************)
Tags(h) ==
    /\ pc[h] = "tags"
    /\ \/ ~steady /\ Goto(h, "skip") /\ UNCHANGED stack
       \/ Goto(h, "keys") /\ UNCHANGED stack
       \/ Goto(h, "parsed") /\ DebugStart(h, "parse")
    /\ Inside(h)

(* _parse: 'Finished _parse' *)
Parsed(h) ==
    /\ pc[h] = "parsed"
    /\ DebugEnd(h, "keys")
    /\ Inside(h)

(* Slip: the flag is reset before the last message. *)
WindEarly(h) ==
    /\ stack' = <<>>
    /\ isRunning' = FALSE
    /\ Goto(h, IF verbose THEN "last" ELSE "idle")
    /\ n' = [n EXCEPT ![h] = 0]

(* update: clear_stack(), 'Finished all', then the flag is reset. *)
Wind(h) ==
    /\ stack' = <<>>
    /\ isRunning' = (isRunning /\ verbose)
    /\ Goto(h, IF verbose THEN "last" ELSE "idle")
    /\ n' = [n EXCEPT ![h] = 0]

(* highlight: 'Skipping file'.  The flag is reset before the request. *)
Skip(h) ==
    /\ pc[h] = "skip"
    /\ \/ verbose /\ isRunning' = FALSE /\ DebugEnd(h, "clear") /\ UNCHANGED n
       \/ ~verbose /\ Wind(h)
    /\ UNCHANGED <<rest, verbose, back>>

(* highlight: the next key of the order, or the end of the loop. *)
Keys(h) ==
    /\ pc[h] = "keys"
    /\ \/ /\ n[h] < MaxKeys
          /\ n' = [n EXCEPT ![h] = @ + 1]
          /\ DebugStart(h, "key")
          /\ Goto(h, "key")
       \/ Goto(h, "end") /\ UNCHANGED <<stack, n>>
    /\ UNCHANGED <<rest, verbose, isRunning, back>>

(* highlight: a key without a group or without tags; nothing is popped. *)
KeyLeft(h) ==
    /\ pc[h] = "key"
    /\ Goto(h, "keys")
    /\ UNCHANGED stack
    /\ Inside(h)

(* _highlight: every return pops; a change of the filetype ends the loop. *)
KeyDone(h) ==
    /\ pc[h] = "key"
    /\ \E l \in {"keys", "end"} : DebugEnd(h, l)
    /\ Inside(h)

(* highlight: 'applied syntax for' *)
End(h) ==
    /\ pc[h] = "end"
    /\ \/ verbose /\ DebugEnd(h, "clear") /\ UNCHANGED <<isRunning, n>>
       \/ ~verbose /\ Wind(h)
    /\ UNCHANGED <<rest, verbose, back>>

(* Slip: clear_stack is left out. *)
ClearNothing(h) ==
    /\ pc[h] = "clear"
    /\ UNCHANGED stack
    /\ isRunning' = (isRunning /\ verbose)
    /\ Goto(h, IF verbose THEN "last" ELSE "idle")
    /\ n' = [n EXCEPT ![h] = 0]
    /\ UNCHANGED <<rest, verbose, back>>

(* update, after highlight gave way *)
Clear(h) ==
    /\ pc[h] = "clear"
    /\ Wind(h)
    /\ UNCHANGED <<rest, verbose, back>>

(* update: self.__is_running = False *)
Last(h) ==
    /\ pc[h] = "last"
    /\ isRunning' = FALSE
    /\ Goto(h, "idle")
    /\ UNCHANGED <<rest, verbose, stack, back, n>>

-----------------------------------------------------------------------------
(* toggle                                                                   *)

(* Off: at once.  On: 'Switching to verbose output.' is a request. *)
Toggle(h) ==
    /\ pc[h] = "toggle"
    /\ verbose' = FALSE
    /\ Goto(h, IF verbose THEN "idle" ELSE "switch")
    /\ UNCHANGED <<rest, stack, isRunning, back, n>>

Switch(h) ==
    /\ pc[h] = "switch"
    /\ verbose' = TRUE
    /\ Goto(h, "idle")
    /\ UNCHANGED <<rest, stack, isRunning, back, n>>

-----------------------------------------------------------------------------
(* An event of nvim starts an update, :NeotagsVerbosity a switch.           *)

Start(h, l) ==
    /\ pc[h] = "idle"
    /\ acts < MaxActs
    /\ acts' = acts + 1
    /\ Goto(h, l)
    /\ UNCHANGED <<steady, verbose, stack, isRunning, back, n>>

Event(h) ==
    /\ steady => \A g \in Handlers : pc[g] \notin {"toggle", "switch"}
    /\ Start(h, "guard")

NeotagsVerbosity(h) ==
    /\ steady => AtRest
    /\ Start(h, "toggle")

Step(h) ==
    \/ Drop(h) \/ Enter(h) \/ Select(h) \/ RunCtags(h) \/ NoCommand(h) \/ Command(h)
    \/ Compress(h) \/ Compressed(h) \/ CtagsEnd(h) \/ Files(h) \/ Listing(h)
    \/ Listed(h) \/ Tags(h) \/ Parsed(h) \/ Skip(h) \/ Keys(h) \/ KeyLeft(h)
    \/ KeyDone(h) \/ End(h) \/ Clear(h) \/ Last(h) \/ Toggle(h) \/ Switch(h)

Done == (\A h \in Handlers : pc[h] \in {"idle", "dead"}) /\ UNCHANGED vars

Next == (\E h \in Handlers : Step(h) \/ Event(h) \/ NeotagsVerbosity(h)) \/ Done

Spec == Init /\ [][Next]_vars

-----------------------------------------------------------------------------
(* Properties.                                                              *)

(* The type invariant. *)
TypeOK ==
    /\ steady \in BOOLEAN
    /\ verbose \in BOOLEAN
    /\ stack \in Seq(Entry)
    /\ isRunning \in BOOLEAN
    /\ acts \in 0..MaxActs
    /\ pc \in [Handlers -> Labels]
    /\ back \in [Handlers -> {"files", "listed"}]
    /\ n \in [Handlers -> 0..MaxKeys]

(***************************************************************************)
(* With steady use the verbose mode never stops an update: every pop finds *)
(* a time (diagnostics.py:30, 55), on every way through _run_ctags and     *)
(* _highlight, and so __is_running is always reset.                        *)
(***************************************************************************)
NothingRaised == steady => \A h \in Handlers : pc[h] # "dead"

(***************************************************************************)
(* With steady use the requests of the verbose mode let no second update   *)
(* in between the set and the reset of __is_running (neotags.py:165-199).  *)
(***************************************************************************)
OneAtWork ==
    steady => \A g, h \in Handlers :
        pc[g] \in Working /\ pc[h] \in Working => g = h /\ isRunning

(* The section that h ends at its label. *)
Ends(h) ==
    CASE pc[h] \in {"command", "ctagsEnd"} -> {"ctags"}
      [] pc[h] = "compressed"              -> {"compress"}
      [] pc[h] = "listed"                  -> {"files"}
      [] pc[h] = "parsed"                  -> {"parse"}
      [] pc[h] = "key"                     -> {"key"}
      [] pc[h] = "end"                     -> {"update", "key"}
      [] OTHER                             -> {}

(***************************************************************************)
(* With steady use the duration debug_end reports is that of the section   *)
(* that ends: the time on top was pushed by the same update for the same   *)
(* section (neotags.py:223, 366, 613, 636, 657).  Only at the end of       *)
(* highlight (neotags.py:259) it may be that of a key that was passed over.*)
(***************************************************************************)
TimesItsOwn ==
    steady /\ verbose =>
        \A h \in Handlers :
            Ends(h) # {} => stack # <<>> /\ Top.by = h /\ Top.of \in Ends(h)

(***************************************************************************)
(* However the verbosity is switched: when the updates have ended, nothing *)
(* of them is left on the stack (neotags.py:197, 223-228).                 *)
(***************************************************************************)
NothingKept == AtRest => stack = <<>>

=============================================================================
