------------------------------ MODULE Projects ------------------------------
(***************************************************************************)
(* The settings file of neotags.nvim under several instances of nvim.      *)
(* Every instance has its own python host.  A command reads the file,      *)
(* changes the dictionary and writes it: open(..., 'w') truncates the file *)
(* and the text arrives when the file is closed.  Neotags._get_files reads *)
(* the file before every tags lookup and resets one it cannot read.        *)
(*                                                                         *)
(* Within one host nothing runs between the read and the write: no request *)
(* to nvim lies between them, so its greenlets do not give way.  Other     *)
(* instances run at any moment, and a host may be killed at any moment,    *)
(* unless the user takes one command at a time ("turns").                  *)
(***************************************************************************)
EXTENDS ProjectTable

CONSTANTS
    Instances,  \* the running instances of nvim
    Commands,   \* the commands that are given in this instance of the model
    Lookups,    \* the directories of the files that are edited
    Missing,    \* the file does not exist
    Empty,      \* the file has been truncated
    Garbled,    \* the file holds the remains of two texts
    MaxCommands \* bound: number of commands and lookups

Unreadable == {Missing, Empty, Garbled}

ASSUME ProjectsAssumption ==
    /\ Commands \subseteq Command
    /\ Lookups \subseteq Paths
    /\ MaxCommands \in Nat
    /\ Unreadable \cap Table = {}

VARIABLES
    turns,  \* TRUE: a command waits for those before it, no host is killed
    file,   \* the settings file: a table or a member of Unreadable
    pc,     \* where the host of each instance is
    cmd,    \* the command it executes
    work,   \* the local variable projects, after the change
    told,   \* the bases the user was told are saved, and has not removed
    count   \* commands and lookups so far

vars == <<turns, file, pc, cmd, work, told, count>>

NoCommand == [kind |-> "none"]

(* json.load, with the handler of JSONDecodeError and FileNotFoundError *)
Parsed(f) == IF f \in Unreadable THEN <<>> ELSE f

Init ==
    /\ turns \in BOOLEAN
    /\ file = Missing
    /\ pc = [i \in Instances |-> "idle"]
    /\ cmd = [i \in Instances |-> NoCommand]
    /\ work = [i \in Instances |-> <<>>]
    /\ told = {}
    /\ count = 0

Goto(i, l) == pc' = [pc EXCEPT ![i] = l]

Forget(i) ==
    /\ cmd' = [cmd EXCEPT ![i] = NoCommand]
    /\ work' = [work EXCEPT ![i] = <<>>]

AtRest == \A i \in Instances : pc[i] = "idle"

Begin(i) ==
    /\ pc[i] = "idle"
    /\ turns => AtRest
    /\ count < MaxCommands
    /\ count' = count + 1

(* A command reads the file and finds that it has nothing to write. *)
Refuse(i, c) ==
    /\ Begin(i)
    /\ Result(Parsed(file), c) = Parsed(file)
    /\ UNCHANGED <<file, pc, cmd, work, told>>

(* Slip: the command starts from an empty dictionary. *)
LoadBlank(i, c) ==
    /\ Begin(i)
    /\ Result(Parsed(file), c) # Parsed(file)
    /\ cmd' = [cmd EXCEPT ![i] = c]
    /\ work' = [work EXCEPT ![i] = Result(<<>>, c)]
    /\ Goto(i, "truncate")
    /\ UNCHANGED <<file, told>>

(* A command reads the file and changes its dictionary. *)
Load(i, c) ==
    /\ Begin(i)
    /\ Result(Parsed(file), c) # Parsed(file)
    /\ cmd' = [cmd EXCEPT ![i] = c]
    /\ work' = [work EXCEPT ![i] = Result(Parsed(file), c)]
    /\ Goto(i, "truncate")
    /\ UNCHANGED <<file, told>>

(* open(settings_file, 'w') *)
Truncate(i) ==
    /\ pc[i] = "truncate"
    /\ file' = Empty
    /\ Goto(i, "dump")
    /\ UNCHANGED <<cmd, work, told, count>>

(***************************************************************************)
(* json.dump and the close of the file: the text is written at offset 0.   *)
(* If another instance has written since the truncation, the end of its    *)
(* text remains when it is longer.                                         *)
(***************************************************************************)
Dump(i) ==
    /\ pc[i] = "dump"
    /\ \/ file' = work[i]
       \/ file \notin {Empty, work[i]} /\ file' = Garbled
    /\ told' = CASE cmd[i].kind = "setBase"    -> told \cup {cmd[i].path}
                 [] cmd[i].kind = "removeBase" -> told \ {cmd[i].path}
                 [] OTHER                      -> told
    /\ Goto(i, "idle")
    /\ Forget(i)
    /\ UNCHANGED count

(* _get_files with a file it can read: the table is only looked at. *)
LookUp(i, p) ==
    /\ Begin(i)
    /\ p \in Lookups
    /\ file \notin Unreadable
    /\ UNCHANGED <<file, pc, cmd, work, told>>

(* _get_files with a file it cannot read *)
LookUpFails(i, p) ==
    /\ Begin(i)
    /\ p \in Lookups
    /\ file \in Unreadable
    /\ Goto(i, "reset")
    /\ UNCHANGED <<file, cmd, work, told>>

(* _get_files: 'Just reset the projects file' *)
Reset(i) ==
    /\ pc[i] = "reset"
    /\ file' = Empty
    /\ Goto(i, "idle")
    /\ UNCHANGED <<cmd, work, told, count>>

(* The host is killed, and started again with the next nvim. *)
Crash(i) ==
    /\ ~ turns
    /\ pc[i] # "idle"
    /\ Goto(i, "idle")
    /\ Forget(i)
    /\ UNCHANGED <<file, told, count>>

Done == AtRest /\ UNCHANGED vars

Step(i) ==
    /\ \/ \E c \in Commands : Refuse(i, c) \/ Load(i, c)
       \/ \E p \in Lookups : LookUp(i, p) \/ LookUpFails(i, p)
       \/ Truncate(i) \/ Dump(i) \/ Reset(i) \/ Crash(i)
    /\ UNCHANGED turns

Next == (\E i \in Instances : Step(i)) \/ Done

Spec == Init /\ [][Next]_vars

-----------------------------------------------------------------------------
(* Properties.                                                              *)

(***************************************************************************)
(* The type invariant: what the file holds, if it can be read, and what a  *)
(* host is about to write, is a table in which a directory occurs once,    *)
(* however the writes of several instances overlap (utils.py:16, 45).      *)
(***************************************************************************)
TypeOK ==
    /\ turns \in BOOLEAN
    /\ file \in Table \cup Unreadable
    /\ pc \in [Instances -> {"idle", "truncate", "dump", "reset"}]
    /\ cmd \in [Instances -> Commands \cup {NoCommand}]
    /\ work \in [Instances -> Table]
    /\ \A i \in Instances : pc[i] \in {"truncate", "dump"} => cmd[i] \in Commands
    /\ told \subseteq Paths
    /\ count \in 0..MaxCommands

(***************************************************************************)
(* Of commands one after the other, from whatever instances: when none is  *)
(* under way, every base the user was told is saved and has not removed is *)
(* in the file (utils.py:21-23, 40-43).                                    *)
(***************************************************************************)
SavedStays == turns /\ AtRest => \A p \in told : Has(Parsed(file), p)

(***************************************************************************)
(* Of commands one after the other, a lookup changes no project: what      *)
(* _get_files resets, it resets because the file cannot be read            *)
(* (neotags.py:838-842).                                                   *)
(***************************************************************************)
LookupsOnlyRead ==
    [][turns => \A i \in Instances :
          pc[i] = "reset" /\ pc'[i] = "idle" => Parsed(file') = Parsed(file)]_vars

(***************************************************************************)
(* The table as the user sees it: between the truncation and the write it  *)
(* is what the host is about to write.                                     *)
(***************************************************************************)
Seen ==
    IF \E i \in Instances : pc[i] = "dump"
    THEN work[CHOOSE i \in Instances : pc[i] = "dump"]
    ELSE Parsed(file)

(***************************************************************************)
(* One after the other, the commands of any number of instances are the    *)
(* atomic commands of ProjectRegistry: the steps of reading, truncating    *)
(* and writing (utils.py:7-102) cannot be told apart.  Nothing is promised *)
(* when they overlap.                                                      *)
(***************************************************************************)
Promised == IF turns THEN Seen ELSE <<>>
Registry == INSTANCE ProjectRegistry WITH registry <- Promised
ImplementsRegistry == Registry!RegistrySpec

ProjectOf(t, p) == t[First(t, p)].path

(***************************************************************************)
(* A directory keeps the project it belongs to as long as that project is  *)
(* registered: no new base takes it over, because get_project_path takes   *)
(* the first match and new bases go to the end (utils.py:17, 48-53).       *)
(***************************************************************************)
NoTakeover ==
    [][\A p \in Paths :
          Covering(Promised, p) # {} /\ Has(Promised', ProjectOf(Promised, p)) =>
              ProjectOf(Promised', p) = ProjectOf(Promised, p)]_vars

=============================================================================
