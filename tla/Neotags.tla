------------------------------ MODULE Neotags ------------------------------
(***************************************************************************)
(* The highlighting engine of neotags.nvim: the methods update, highlight, *)
(* _highlight, _clear and toggle of rplugin/python3/neotags/neotags.py,    *)
(* run by the greenlets of the pynvim host, together with the part of the  *)
(* editor they talk to.                                                    *)
(*                                                                         *)
(* Every autocommand or command of the plugin starts one greenlet, here a  *)
(* handler.  A greenlet gives way to the others whenever it sends nvim a   *)
(* request and waits for the answer; the python code between two requests  *)
(* is never interrupted.  So one action below is one request that reads    *)
(* nvim, plus the python code from its answer to the next request.  Calls  *)
(* made with async_=True are notifications: they do not give way, they     *)
(* wait in toVim, and since the channel is a FIFO nvim executes them       *)
(* before it evaluates any later request (the conjunct Answered).          *)
(***************************************************************************)
EXTENDS Naturals, Sequences

CONSTANTS
    Buffers,      \* the buffers of the editor
    FirstBuffer,  \* the buffer whose number is 1, current when nvim starts
    Filetypes,    \* the values of &ft
    Keys,         \* the group keys of all filetypes ("c#f", "python#c", ...)
    Order,        \* the keys of a filetype; <<>>: neotags#<ft>#order is unset
    Ignored,      \* '' and the filetypes listed in g:neotags_ignore
    Preview,      \* the buffers shown in a preview window
    Handlers,     \* the greenlets that can be alive at the same time
    Absent,       \* no entry in a python dictionary, no syntax rule in nvim
    NoGroups,     \* the None that _parseTags returns
    Faults,       \* what may go wrong with the tags files: see FaultKinds
    UserOps,      \* what the user does in this instance
    Patient,      \* TRUE: the user waits until all handlers have finished
    MaxActs,      \* bound: number of things the user does
    MaxVersion    \* bound: number of times the user edits a buffer

(***************************************************************************)
(* The tags of a buffer: what _parseTags finds for the text the buffer has *)
(* at one version.  The command that highlights a group and the md5 sum of *)
(* the group are functions of it, so the same value stands for all three.  *)
(***************************************************************************)
Value == [buf : Buffers, ver : 0..MaxVersion]

(***************************************************************************)
(* The tags files are not part of this module.  What they may do to an     *)
(* update: there is none ("missing"), reading or making them raises an     *)
(* exception ("files"), or a tag in them is not an ASCII word ("ascii").   *)
(***************************************************************************)
FaultKinds == {"missing", "files", "ascii"}

ASSUME NeotagsAssumption ==
    /\ FirstBuffer \in Buffers
    /\ Order \in [Filetypes -> Seq(Keys)]
    /\ Ignored \subseteq Filetypes
    /\ Preview \subseteq Buffers
    /\ Faults \subseteq FaultKinds
    /\ UserOps \subseteq {"enter", "reload", "save", "filetype", "toggle", "wipe"}
    /\ Patient \in BOOLEAN
    /\ MaxActs \in Nat
    /\ MaxVersion \in Nat
    /\ Absent \notin Value \cup Buffers \cup Filetypes
    /\ NoGroups \notin Value \cup {Absent}

VARIABLES
    \* the editor
    curBuf,    \* the current buffer
    ft,        \* &ft of each buffer
    ver,       \* how often the text of each buffer was changed
    wiped,     \* the buffers that are gone
    enabled,   \* g:neotags_enabled
    listening, \* Neotags.init has registered the autocommands and set
               \* __patternlength
    syn,       \* the syntax rules of each buffer, by key
    toVim,     \* the notifications nvim has not executed yet
    acts,      \* how often the user acted (bounded by MaxActs)
    \* the attributes of the Neotags object
    isRunning, \* __is_running
    seen,      \* __seen
    md5Bufs,   \* the buffers that have a dictionary in __md5_cache
    md5,       \* __md5_cache
    cmd,       \* __cmd_cache
    groups,    \* __groups
    hlbuf,     \* __hlbuf
    cur,       \* __cur['buf']
    \* the greenlets
    pc,        \* where each handler is
    hl         \* its local variables: the HighlightGroup and the arguments

editor  == <<curBuf, ft, ver, wiped, enabled, syn, toVim, acts>>
caches  == <<seen, md5Bufs, md5, cmd>>
object  == <<isRunning, caches, groups, hlbuf, cur>>
vars    == <<editor, listening, object, pc, hl>>

(* The exceptions that come from state which is no longer what it was when  *)
(* the update relied on it: the buffer was wiped out, __groups has no entry *)
(* of the filetype, __md5_cache none of the buffer.                         *)
Stale == {"wiped", "nogroups", "nodict"}

(* All exceptions that end a handler: also those of __patternlength that is *)
(* None, of a tag that is no ASCII word and of the tags files.              *)
Dead == Stale \cup {"nolength", "notascii", "nofiles"}

Labels == {"idle", "start", "enabled", "clear", "guard", "select", "parse",
           "begin", "decide", "ftcheck", "apply", "toggle", "enable",
           "disable"} \cup Dead

(* The labels at which a handler has set __is_running and not yet reset it. *)
Section == {"select", "parse", "begin", "decide", "ftcheck", "apply"}

Local(force) ==
    [force |-> force, ft |-> Absent, number |-> Absent, i |-> 1, val |-> Absent]

NoEntries == [b \in Buffers |-> [k \in Keys |-> Absent]]

Key(h) == Order[hl[h].ft][hl[h].i]

Quiet == toVim = <<>> /\ \A h \in Handlers : pc[h] \in {"idle"} \cup Dead

(***************************************************************************)
(* nvim has started and Neotags.init has run: of an enabled plugin it      *)
(* registers the autocommands, reads __patternlength and calls             *)
(* update(False); of one that is disabled by then it does nothing of this, *)
(* and never will.                                                         *)
(***************************************************************************)
Init ==
    /\ curBuf = FirstBuffer
    /\ ft \in [Buffers -> Filetypes]
    /\ ver = [b \in Buffers |-> 0]
    /\ wiped = {}
    /\ enabled \in BOOLEAN
    /\ listening = enabled
    /\ syn = NoEntries
    /\ toVim = <<>>
    /\ acts = 0
    /\ isRunning = FALSE
    /\ seen = {}
    /\ md5Bufs = {}
    /\ md5 = NoEntries
    /\ cmd = NoEntries
    /\ groups = [f \in Filetypes |-> Absent]
    /\ hlbuf = FirstBuffer
    /\ cur = Absent
    /\ \E h \in Handlers :
          pc = [g \in Handlers |-> IF g = h /\ enabled THEN "start" ELSE "idle"]
    /\ hl = [h \in Handlers |-> Local(FALSE)]

-----------------------------------------------------------------------------
(* A handler's steps.  At(h, l): h is at l and its request is answered.     *)

At(h, l) == pc[h] = l /\ toVim = <<>>

Goto(h, l) == pc' = [pc EXCEPT ![h] = l]

SetLocal(h, r) == hl' = [hl EXCEPT ![h] = r]

Send(c) == toVim' = Append(toVim, c)

EditorUnchanged == UNCHANGED <<curBuf, ft, ver, wiped, enabled, syn, acts>>

(* The handler ends: its locals go away. *)
Return(h) == Goto(h, "idle") /\ SetLocal(h, Local(FALSE))

(* Exception e ends the handler: nothing resets __is_running. *)
Raise(h, e) == Goto(h, e) /\ SetLocal(h, Local(FALSE))

(* update: ft = eval('&ft') *)
ReadFiletype(h) ==
    /\ At(h, "start")
    /\ SetLocal(h, [hl[h] EXCEPT !.ft = ft[curBuf]])
    /\ Goto(h, "enabled")
    /\ UNCHANGED <<editor, object>>

(* Slip: a disabled update returns without clearing. *)
CheckEnabledNoClear(h) ==
    /\ At(h, "enabled")
    /\ IF enabled THEN Goto(h, "guard") /\ UNCHANGED hl ELSE Return(h)
    /\ UNCHANGED <<editor, object>>

(* update: if not self.vv('enabled') *)
CheckEnabled(h) ==
    /\ At(h, "enabled")
    /\ Goto(h, IF enabled THEN "guard" ELSE "clear")
    /\ UNCHANGED <<editor, object, hl>>

(* _clear(ft), then update returns *)
Clear(h) ==
    /\ At(h, "clear")
    /\ Send([op |-> "clear", ft |-> hl[h].ft])
    /\ Return(h)
    /\ EditorUnchanged
    /\ UNCHANGED object

(* update: the filetype is ignored or the window is a preview window *)
Skip(h) ==
    /\ At(h, "guard")
    /\ hl[h].ft \in Ignored \/ curBuf \in Preview
    /\ Return(h)
    /\ UNCHANGED <<editor, object>>

(* update: if self.__is_running: return *)
Drop(h) ==
    /\ At(h, "guard")
    /\ hl[h].ft \notin Ignored /\ curBuf \notin Preview
    /\ isRunning
    /\ Return(h)
    /\ UNCHANGED <<editor, object>>

(* Slip: the flag is set but not looked at. *)
EnterUnguarded(h) ==
    /\ At(h, "guard")
    /\ hl[h].ft \notin Ignored /\ curBuf \notin Preview
    /\ isRunning' = TRUE
    /\ Goto(h, "select")
    /\ UNCHANGED <<editor, caches, groups, hlbuf, cur, hl>>

(* update: self.__is_running = True *)
Enter(h) ==
    /\ At(h, "guard")
    /\ hl[h].ft \notin Ignored /\ curBuf \notin Preview
    /\ ~isRunning
    /\ isRunning' = TRUE
    /\ Goto(h, "select")
    /\ UNCHANGED <<editor, caches, groups, hlbuf, cur, hl>>

(* number in self.__cmd_cache *)
Cached(b) == \E k \in Keys : cmd[b][k] # Absent

(* Slip: a forced update relies on what is cached. *)
MustParseUnforced(force, b) == b \notin seen \/ ~Cached(b)

(* update: the three branches that call _parseTags *)
MustParse(force, b) == force \/ b \notin seen \/ ~Cached(b)

(***************************************************************************)
(* update: current.buffer becomes __cur['buf'], its number hl.number; the  *)
(* dictionary of its md5 sums is created, and the buffer is added to       *)
(* __seen by the first update that is not forced.                          *)
(***************************************************************************)
Select(h) ==
    /\ At(h, "select")
    /\ cur' = curBuf
    /\ SetLocal(h, [hl[h] EXCEPT !.number = curBuf])
    /\ md5Bufs' = md5Bufs \cup {curBuf}
    /\ seen' = IF hl[h].force THEN seen ELSE seen \cup {curBuf}
    /\ Goto(h, IF MustParse(hl[h].force, curBuf) THEN "parse" ELSE "begin")
    /\ UNCHANGED <<editor, isRunning, md5, cmd, groups, hlbuf>>

(***************************************************************************)
(* _parseTags: without any tags file it returns None; otherwise it slurps  *)
(* __cur['buf'], an NvimError when the buffer is gone, and returns None    *)
(* again for a filetype without an order.                                  *)
(***************************************************************************)
Parse(h) ==
    /\ At(h, "parse")
    /\ \/ /\ "files" \in Faults
          /\ Raise(h, "nofiles")
          /\ UNCHANGED groups
       \/ /\ "missing" \in Faults            \* 'No tag files found!'
          /\ groups' = [groups EXCEPT ![hl[h].ft] = NoGroups]
          /\ Goto(h, "begin")
          /\ UNCHANGED hl
       \/ /\ cur \in wiped
          /\ Raise(h, "wiped")
          /\ UNCHANGED groups
       \/ /\ cur \notin wiped
          /\ groups' = [groups EXCEPT ![hl[h].ft] =
                           IF Order[hl[h].ft] = <<>> THEN NoGroups
                           ELSE [buf |-> cur, ver |-> ver[cur]]]
          /\ Goto(h, "begin")
          /\ UNCHANGED hl
    /\ UNCHANGED <<editor, isRunning, caches, hlbuf, cur>>

(* highlight: groups = self.__groups[hl.ft], a KeyError when it is absent *)
BeginHighlight(h) ==
    /\ At(h, "begin")
    /\ \/ /\ groups[hl[h].ft] = Absent
          /\ Raise(h, "nogroups")
          /\ UNCHANGED isRunning
       \/ /\ groups[hl[h].ft] = NoGroups
          /\ isRunning' = FALSE
          /\ Return(h)
       \/ /\ groups[hl[h].ft] \notin {Absent, NoGroups}
          /\ Goto(h, "decide")
          /\ UNCHANGED <<isRunning, hl>>
    /\ UNCHANGED <<editor, caches, groups, hlbuf, cur>>

(* The end of highlight and of update. *)
Finish(h) ==
    /\ hlbuf' = cur
    /\ isRunning' = FALSE
    /\ Return(h)

(* Slip: the loop runs one key too far. *)
AdvanceTooFar(h) ==
    IF hl[h].i <= Len(Order[hl[h].ft])
    THEN /\ SetLocal(h, [hl[h] EXCEPT !.i = @ + 1, !.val = Absent])
         /\ Goto(h, "decide")
         /\ UNCHANGED <<isRunning, hlbuf>>
    ELSE Finish(h)

(* Slip: the loop stays at its key. *)
AdvanceNowhere(h) ==
    IF hl[h].i < Len(Order[hl[h].ft])
    THEN /\ SetLocal(h, [hl[h] EXCEPT !.val = Absent])
         /\ Goto(h, "decide")
         /\ UNCHANGED <<isRunning, hlbuf>>
    ELSE Finish(h)

(* The next iteration of the loop over order, or its end. *)
Advance(h) ==
    IF hl[h].i < Len(Order[hl[h].ft])
    THEN /\ SetLocal(h, [hl[h] EXCEPT !.i = @ + 1, !.val = Absent])
         /\ Goto(h, "decide")
         /\ UNCHANGED <<isRunning, hlbuf>>
    ELSE Finish(h)

(* Slip: the comparison with __hlbuf is the wrong way round. *)
UseCacheSwapped(force, b, k, v) ==
    \/ ~force /\ md5[b][k] = v
    \/ b = hlbuf /\ cmd[b][k] # Absent

(***************************************************************************)
(* _highlight: may the commands of the cache be used?  As in the code, a   *)
(* forced update skips only the first of the two disjuncts.                *)
(***************************************************************************)
UseCache(force, b, k, v) ==
    \/ ~force /\ md5[b][k] = v
    \/ b # hlbuf /\ cmd[b][k] # Absent

(***************************************************************************)
(* _highlight: the buffer's dictionary of md5 sums is created again if a   *)
(* toggle has thrown it away; then the commands are taken from the cache   *)
(* or made: range() needs __patternlength, a TypeError when init has not   *)
(* set it, decode() an ASCII word, and nvim is asked for                   *)
(* g:neotags_global_notin.                                                 *)
(***************************************************************************)
Decide(h) ==
    LET b == hl[h].number
        k == Key(h)
        v == groups[hl[h].ft]
    IN  /\ At(h, "decide")
        /\ \/ /\ UseCache(hl[h].force, b, k, v)
              /\ cmd[b][k] # Absent
              /\ SetLocal(h, [hl[h] EXCEPT !.val = cmd[b][k]])
              /\ Goto(h, "apply")
              /\ UNCHANGED <<isRunning, hlbuf>>
           \/ /\ UseCache(hl[h].force, b, k, v)
              /\ cmd[b][k] = Absent          \* 'Key error in _highlight()!'
              /\ Advance(h)
           \/ /\ ~UseCache(hl[h].force, b, k, v)
              /\ \/ ~listening /\ Raise(h, "nolength")
                 \/ listening /\ "ascii" \in Faults /\ Raise(h, "notascii")
              /\ UNCHANGED <<isRunning, hlbuf>>
           \/ /\ ~UseCache(hl[h].force, b, k, v)
              /\ listening
              /\ SetLocal(h, [hl[h] EXCEPT !.val = v])
              /\ Goto(h, "ftcheck")
              /\ UNCHANGED <<isRunning, hlbuf>>
        /\ md5Bufs' = md5Bufs \cup {b}
        /\ UNCHANGED <<editor, seen, md5, cmd, groups, cur>>

(***************************************************************************)
(* _highlight: another filetype ends the loop; otherwise the md5 sum is    *)
(* stored, a KeyError when a toggle threw the dictionary away since Decide.*)
(***************************************************************************)
CheckFiletype(h) ==
    LET b == hl[h].number IN
    /\ At(h, "ftcheck")
    /\ \/ /\ ft[curBuf] # hl[h].ft
          /\ Finish(h)
          /\ UNCHANGED md5
       \/ /\ ft[curBuf] = hl[h].ft
          /\ b \notin md5Bufs
          /\ Raise(h, "nodict")
          /\ UNCHANGED <<isRunning, hlbuf, md5>>
       \/ /\ ft[curBuf] = hl[h].ft
          /\ b \in md5Bufs
          /\ md5' = [md5 EXCEPT ![b][Key(h)] = hl[h].val]
          /\ Goto(h, "apply")
          /\ UNCHANGED <<isRunning, hlbuf, hl>>
    /\ UNCHANGED <<editor, seen, md5Bufs, cmd, groups, cur>>

(* Slip: the last highlighted buffer is compared, not __cur['buf']. *)
ApplyToHlbuf(h) ==
    LET b == hl[h].number
        k == Key(h)
    IN  /\ At(h, "apply")
        /\ IF hlbuf = curBuf
           THEN Send([op |-> "set", number |-> b, key |-> k, val |-> hl[h].val])
           ELSE UNCHANGED toVim
        /\ cmd' = [cmd EXCEPT ![b][k] = hl[h].val]
        /\ Advance(h)
        /\ EditorUnchanged
        /\ UNCHANGED <<seen, md5Bufs, md5, groups, cur>>

(* Slip: commands that were not sent are not stored. *)
ApplySentOnly(h) ==
    LET b == hl[h].number
        k == Key(h)
    IN  /\ At(h, "apply")
        /\ IF cur = curBuf
           THEN Send([op |-> "set", number |-> b, key |-> k, val |-> hl[h].val])
           ELSE UNCHANGED toVim
        /\ cmd' = IF cur = curBuf THEN [cmd EXCEPT ![b][k] = hl[h].val] ELSE cmd
        /\ Advance(h)
        /\ EditorUnchanged
        /\ UNCHANGED <<seen, md5Bufs, md5, groups, cur>>

(***************************************************************************)
(* _highlight: the commands are sent if __cur['buf'] is still the current  *)
(* buffer, and stored in __cmd_cache in any case.  The field number of the *)
(* message is the buffer they were made for; nvim does not see it.         *)
(***************************************************************************)
Apply(h) ==
    LET b == hl[h].number
        k == Key(h)
    IN  /\ At(h, "apply")
        /\ IF cur = curBuf
           THEN Send([op |-> "set", number |-> b, key |-> k, val |-> hl[h].val])
           ELSE UNCHANGED toVim
        /\ cmd' = [cmd EXCEPT ![b][k] = hl[h].val]
        /\ Advance(h)
        /\ EditorUnchanged
        /\ UNCHANGED <<seen, md5Bufs, md5, groups, cur>>

(* toggle: if not self.vv('enabled') *)
ToggleRead(h) ==
    /\ At(h, "toggle")
    /\ Goto(h, IF enabled THEN "disable" ELSE "enable")
    /\ UNCHANGED <<editor, object, hl>>

(* toggle: self.vv('enabled', SET=1), then update(False) *)
Enable(h) ==
    /\ At(h, "enable")
    /\ enabled' = TRUE
    /\ Goto(h, "start")
    /\ UNCHANGED <<curBuf, ft, ver, wiped, syn, toVim, acts, object, hl>>

(* toggle: self.vv('enabled', SET=0), forget everything, then update(False) *)
Disable(h) ==
    /\ At(h, "disable")
    /\ enabled' = FALSE
    /\ seen' = {}
    /\ md5Bufs' = {}
    /\ md5' = NoEntries
    /\ cmd' = NoEntries
    /\ Goto(h, "start")
    /\ UNCHANGED <<curBuf, ft, ver, wiped, syn, toVim, acts,
                   isRunning, groups, hlbuf, cur, hl>>

Step(h) ==
    /\ \/ ReadFiletype(h) \/ CheckEnabled(h) \/ Clear(h)
       \/ Skip(h) \/ Drop(h) \/ Enter(h) \/ Select(h) \/ Parse(h)
       \/ BeginHighlight(h) \/ Decide(h) \/ CheckFiletype(h) \/ Apply(h)
       \/ ToggleRead(h) \/ Enable(h) \/ Disable(h)
    /\ UNCHANGED listening

-----------------------------------------------------------------------------
(* The editor executes the notifications, in whatever buffer is current.   *)

ExecCommand ==
    /\ toVim # <<>>
    /\ LET c == Head(toVim) IN
       syn' = [syn EXCEPT ![curBuf] =
                 IF c.op = "set" THEN [@ EXCEPT ![c.key] = c.val]
                 ELSE [k \in Keys |->
                         IF \E i \in DOMAIN Order[c.ft] : Order[c.ft][i] = k
                         THEN Absent ELSE @[k]]]
    /\ toVim' = Tail(toVim)
    /\ UNCHANGED <<curBuf, ft, ver, wiped, enabled, listening, acts, object, pc, hl>>

(***************************************************************************)
(* The user.                                                               *)
(***************************************************************************)
UserMay(op) ==
    /\ op \in UserOps
    /\ acts < MaxActs
    /\ Patient => Quiet
    /\ acts' = acts + 1
    /\ UNCHANGED listening

Start(l, force) ==
    \E h \in Handlers :
        /\ pc[h] = "idle"
        /\ Goto(h, l)
        /\ SetLocal(h, Local(force))

(* The events of g:neotags_events_update and of g:neotags_events_rehighlight *)
(* call update(True), those of g:neotags_events_highlight update(False).     *)
Forcing == {"BufWritePost", "FileType", "Syntax"}

(***************************************************************************)
(* Every event starts an idle handler of its own, if there are any         *)
(* autocommands.                                                           *)
(***************************************************************************)
Notify(events) ==
    IF listening
    THEN \E w \in [events -> {h \in Handlers : pc[h] = "idle"}] :
            /\ \A d, e \in events : w[d] = w[e] => d = e
            /\ pc' = [h \in Handlers |->
                         IF \E e \in events : w[e] = h THEN "start" ELSE pc[h]]
            /\ hl' = [h \in Handlers |->
                         IF \E e \in events : w[e] = h
                         THEN Local(\E e \in events \cap Forcing : w[e] = h) ELSE hl[h]]
    ELSE UNCHANGED <<pc, hl>>

EnterBuffer ==
    /\ UserMay("enter")
    /\ \E b \in Buffers \ (wiped \cup {curBuf}) : curBuf' = b
    /\ Notify({"BufEnter"})
    /\ UNCHANGED <<ft, ver, wiped, enabled, syn, toVim, object>>

(***************************************************************************)
(* :edit of a buffer that was unloaded: its text is read again and may     *)
(* have changed on disk, its syntax rules start empty.                     *)
(***************************************************************************)
ReloadBuffer ==
    /\ UserMay("reload")
    /\ \E b \in Buffers \ (wiped \cup {curBuf}) :
          /\ curBuf' = b
          /\ \E n \in {ver[b], ver[b] + 1} :
                n <= MaxVersion /\ ver' = [ver EXCEPT ![b] = n]
          /\ syn' = [syn EXCEPT ![b] = [k \in Keys |-> Absent]]
    /\ Notify({"BufReadPre", "FileType", "Syntax", "BufEnter"})
    /\ UNCHANGED <<ft, wiped, enabled, toVim, object>>

(* The text changes and is written. *)
SaveBuffer ==
    /\ UserMay("save")
    /\ ver[curBuf] < MaxVersion
    /\ ver' = [ver EXCEPT ![curBuf] = @ + 1]
    /\ Notify({"BufWritePost"})
    /\ UNCHANGED <<curBuf, ft, wiped, enabled, syn, toVim, object>>

(* :set ft=... clears the syntax rules of the buffer. *)
SetFiletype ==
    /\ UserMay("filetype")
    /\ \E f \in Filetypes \ {ft[curBuf]} : ft' = [ft EXCEPT ![curBuf] = f]
    /\ syn' = [syn EXCEPT ![curBuf] = [k \in Keys |-> Absent]]
    /\ Notify({"FileType", "Syntax"})
    /\ UNCHANGED <<curBuf, ver, wiped, enabled, toVim, object>>

(* :NeotagsToggle *)
CallToggle ==
    /\ UserMay("toggle")
    /\ Start("toggle", FALSE)
    /\ UNCHANGED <<curBuf, ft, ver, wiped, enabled, syn, toVim, object>>

(* :bwipeout of another buffer, no event *)
WipeBuffer ==
    /\ UserMay("wipe")
    /\ \E b \in Buffers \ (wiped \cup {curBuf}) : wiped' = wiped \cup {b}
    /\ UNCHANGED <<curBuf, ft, ver, enabled, syn, toVim, object, pc, hl>>

User == EnterBuffer \/ ReloadBuffer \/ SaveBuffer \/ SetFiletype \/ CallToggle \/ WipeBuffer

(* Nothing is left to do: the user has used all MaxActs actions. *)
Done == Quiet /\ UNCHANGED vars

Next == (\E h \in Handlers : Step(h)) \/ ExecCommand \/ User \/ Done

(***************************************************************************)
(* The host schedules every greenlet whose answer has arrived and nvim     *)
(* executes what it receives.  Nothing makes the user act.                 *)
(***************************************************************************)
Fairness == WF_vars(ExecCommand) /\ \A h \in Handlers : WF_vars(Step(h))

Spec == Init /\ [][Next]_vars /\ Fairness

-----------------------------------------------------------------------------
(* Properties.                                                              *)

Entry == Value \cup {Absent}

Table == [Buffers -> [Keys -> Entry]]

LocalType == [force : BOOLEAN, ft : Filetypes \cup {Absent},
              number : Buffers \cup {Absent}, i : Nat \ {0}, val : Entry]

Message == [op : {"clear"}, ft : Filetypes]
           \cup [op : {"set"}, number : Buffers, key : Keys, val : Value]

(* What each label promises: past the first request the handler knows its  *)
(* filetype, past Select its buffer, in the loop over order it is at one   *)
(* of the keys of a parsed filetype, and at the stores it has a value.     *)
LocalsReady(h) ==
    /\ pc[h] \in {"enabled", "clear", "guard"} \cup Section
          => hl[h].ft \in Filetypes
    /\ pc[h] \in Section \ {"select"} => hl[h].number \in Buffers /\ cur \in Buffers
    /\ IF pc[h] \in {"decide", "ftcheck", "apply"}
       THEN hl[h].i \in DOMAIN Order[hl[h].ft] /\ groups[hl[h].ft] \in Value
       ELSE hl[h].i = 1
    /\ pc[h] \in {"ftcheck", "apply"} => hl[h].val \in Value

EditorOK ==
    /\ curBuf \in Buffers
    /\ ft \in [Buffers -> Filetypes]
    /\ ver \in [Buffers -> 0..MaxVersion]
    /\ wiped \subseteq Buffers
    /\ enabled \in BOOLEAN
    /\ listening \in BOOLEAN
    /\ syn \in Table
    /\ toVim \in Seq(Message)
    /\ acts \in 0..MaxActs

ObjectOK ==
    /\ isRunning \in BOOLEAN
    /\ seen \subseteq Buffers
    /\ md5Bufs \subseteq Buffers
    /\ md5 \in Table
    /\ cmd \in Table
    /\ groups \in [Filetypes -> Entry \cup {NoGroups}]
    /\ \A f \in Filetypes : groups[f] \in Value => Order[f] # <<>>
    /\ hlbuf \in Buffers
    /\ cur \in Buffers \cup {Absent}

LocalsOK ==
    /\ pc \in [Handlers -> Labels]
    /\ hl \in [Handlers -> LocalType]
    /\ \A h \in Handlers : LocalsReady(h)

(***************************************************************************)
(* The type invariant: every variable has its type, and no handler reaches *)
(* a label of update, highlight or _highlight before the locals and the    *)
(* attributes it uses there are set.                                       *)
(***************************************************************************)
TypeOK == EditorOK /\ ObjectOK /\ LocalsOK

(* The handlers that have set __is_running and not reset it, those an       *)
(* exception stopped there included.                                        *)
Owner(h) == pc[h] \in Section \cup Dead

(***************************************************************************)
(* At most one handler is in the part of update that __is_running guards   *)
(* (neotags.py:161-199), and while one is, the flag is set: the shared     *)
(* attributes __cur, __groups and __hlbuf have a single writer although    *)
(* the handler gives way at every request.                                 *)
(***************************************************************************)
AtMostOneOwner ==
    \A g, h \in Handlers : Owner(g) /\ Owner(h) => g = h /\ isRunning

(* A handler about to store commands for key k of buffer b. *)
Storing(h, b, k) == pc[h] = "apply" /\ hl[h].number = b /\ Key(h) = k

(***************************************************************************)
(* Between two stores of _highlight the two caches agree: a key that has a *)
(* md5 sum has the commands of the group with that sum (neotags.py:337,    *)
(* 351), whatever toggles empty the caches in between.                     *)
(***************************************************************************)
CacheCoherent ==
    \A b \in Buffers : \A k \in Keys :
        \/ md5[b][k] \in {Absent, cmd[b][k]}
        \/ \E h \in Handlers : Storing(h, b, k)

(* What makes CacheCoherent inductive: the value about to be stored in      *)
(* __cmd_cache is the one that __md5_cache already describes.               *)
StoreReady ==
    \A h \in Handlers :
        pc[h] = "apply" => md5[hl[h].number][Key(h)] \in {Absent, hl[h].val}

(***************************************************************************)
(* The commands _highlight takes from __cmd_cache are there: the KeyError  *)
(* branch of neotags.py:303-309 is never taken.                            *)
(***************************************************************************)
NoKeyError ==
    \A h \in Handlers :
        pc[h] = "decide" /\ UseCache(hl[h].force, hl[h].number, Key(h), groups[hl[h].ft])
        => cmd[hl[h].number][Key(h)] # Absent

(***************************************************************************)
(* An update that was started ends, normally or by an exception; none      *)
(* loops in highlight or waits for another one (neotags.py:149-259).       *)
(***************************************************************************)
HandlersFinish ==
    \A h \in Handlers : (pc[h] # "idle") ~> (pc[h] \in {"idle"} \cup Dead)

(* The current buffer is one that the plugin highlights. *)
Highlighted(b) ==
    /\ ft[b] \notin Ignored
    /\ b \notin Preview
    /\ Order[ft[b]] # <<>>

KeysOf(f) == {Order[f][i] : i \in DOMAIN Order[f]}

(* An exception has left __is_running set: no update highlights any more. *)
Wedged == \E h \in Handlers : pc[h] \in Dead

(***************************************************************************)
(* When everything has come to rest in an enabled editor, what is on the   *)
(* screen is what __cmd_cache says: every key of the current buffer's      *)
(* filetype has been sent (neotags.py:343-354), and none is missing.  This *)
(* is of a plugin that was enabled from the start, no exception has ended  *)
(* an update, and the filetype had tags files when it was parsed last.     *)
(***************************************************************************)
ShownIsCached ==
    /\ listening /\ Quiet /\ enabled /\ ~Wedged
    /\ Highlighted(curBuf) /\ groups[ft[curBuf]] # NoGroups
    => \A k \in KeysOf(ft[curBuf]) :
            syn[curBuf][k] = cmd[curBuf][k] /\ syn[curBuf][k] # Absent

(***************************************************************************)
(* When everything has come to rest in a disabled editor, the current      *)
(* buffer shows no rule of its filetype (update: neotags.py:154-157).      *)
(***************************************************************************)
DisabledIsClear ==
    listening /\ Quiet /\ ~enabled =>
        \A k \in KeysOf(ft[curBuf]) : syn[curBuf][k] = Absent

(***************************************************************************)
(* No update is ended inside the part that __is_running guards             *)
(* (neotags.py:166-199) by an exception about state that has become stale  *)
(* since the update was started or since the update that provided it: a    *)
(* slurp of a wiped buffer (392), groups that are not there (211), md5     *)
(* sums that are not there (337).  It would leave __is_running set, and    *)
(* every later update would be dropped at neotags.py:161.                  *)
(***************************************************************************)
NeverWedged == \A h \in Handlers : pc[h] \notin Stale

(***************************************************************************)
(* The rules a buffer is given come from the tags of its own text: the     *)
(* commands stored for a buffer were made from a slurp of that buffer      *)
(* (neotags.py:392).                                                       *)
(***************************************************************************)
OwnTags ==
    \A b \in Buffers : \A k \in Keys : cmd[b][k] # Absent => cmd[b][k].buf = b

(***************************************************************************)
(* A forced update of the buffer that was highlighted last has stored, when*)
(* it comes to its end, the commands of the groups it has just parsed for  *)
(* every key: there the second disjunct of neotags.py:299-302 is false and *)
(* the caches are bypassed (neotags.py:181-184, 350).                      *)
(***************************************************************************)
ForceRefreshesLast ==
    [][\A h \in Handlers :
          pc[h] = "apply" /\ hl[h].force /\ pc'[h] = "idle" /\ hl[h].number = hlbuf =>
              \A k \in KeysOf(hl[h].ft) :
                  cmd'[hl[h].number][k] = groups[hl[h].ft]]_vars

=============================================================================
