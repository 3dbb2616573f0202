--------------------------- MODULE ProjectsProofs ---------------------------
(***************************************************************************)
(* Proofs about Projects, for any directories, commands and instances.     *)
(***************************************************************************)
EXTENDS Projects, WellFoundedInduction, TLAPS

(* The new base is the last record of a table without its directory. *)
LEMMA AddBaseTable ==
  ASSUME NEW t \in Table, NEW p \in Paths, NEW run \in {0, 1}
  PROVE  AddBase(t, p, run) \in Table
  <1> DEFINE r == [path |-> p, run |-> run, dirs |-> {}]
             u == Append(t, r)
  <1>1. r \in Project /\ r.path = p
    BY DEF Project
  <1>2. t \in Seq(Project)
    BY DEF Table
  <1>3. CASE ~Has(t, p)
    <2>1. /\ u \in Seq(Project) /\ Len(u) = Len(t) + 1
          /\ \A m \in 1..Len(t) : u[m] = t[m]
          /\ u[Len(t) + 1] = r
      BY <1>1, <1>2
    <2>2. ASSUME NEW m \in DOMAIN u, NEW n \in DOMAIN u, u[m].path = u[n].path
          PROVE  m = n
      BY <1>1, <1>2, <1>3, <2>1, <2>2 DEF Has, Table
    <2> QED
      BY <1>3, <2>1, <2>2 DEF AddBase, Table
  <1> QED
    BY <1>3 DEF AddBase

(* The record in front of which k others remain when record k is taken out. *)
From(m, k) == IF m < k THEN m ELSE m + 1

(* The records that remain, in their order, when a base is removed. *)
LEMMA RemoveBaseRecords ==
  ASSUME NEW t \in Table, NEW p \in Paths, Has(t, p)
  PROVE  \E k \in DOMAIN t :
            /\ t[k].path = p
            /\ RemoveBase(t, p) \in Seq(Project)
            /\ Len(RemoveBase(t, p)) = Len(t) - 1
            /\ \A m \in 1..(Len(t) - 1) : RemoveBase(t, p)[m] = t[From(m, k)]
  <1> DEFINE k == CHOOSE k \in DOMAIN t : t[k].path = p
             a == SubSeq(t, 1, k - 1)
             b == SubSeq(t, k + 1, Len(t))
  <1>1. k \in DOMAIN t /\ t[k].path = p /\ t \in Seq(Project)
    BY DEF Has, Table
  <1>2. RemoveBase(t, p) = a \o b
    BY DEF RemoveBase
  <1> HIDE DEF k
  <1>3. /\ a \in Seq(Project) /\ Len(a) = k - 1
        /\ \A m \in 1..(k - 1) : a[m] = t[m]
    BY <1>1
  <1>4. /\ b \in Seq(Project) /\ Len(b) = Len(t) - k
        /\ \A m \in 1..(Len(t) - k) : b[m] = t[m + k]
    BY <1>1
  <1> HIDE DEF a, b
  <1>5. /\ a \o b \in Seq(Project) /\ Len(a \o b) = Len(t) - 1
        /\ \A m \in 1..(Len(t) - 1) : (a \o b)[m] = t[From(m, k)]
    BY <1>1, <1>3, <1>4 DEF From
  <1> QED
    BY <1>1, <1>2, <1>5

(* Without one of its records a table is a table. *)
LEMMA RemoveBaseTable ==
  ASSUME NEW t \in Table, NEW p \in Paths
  PROVE  RemoveBase(t, p) \in Table
  <1> DEFINE u == RemoveBase(t, p)
  <1>1. CASE Has(t, p)
    <2>1. PICK k \in DOMAIN t :
            /\ u \in Seq(Project) /\ Len(u) = Len(t) - 1
            /\ \A m \in 1..(Len(t) - 1) : u[m] = t[From(m, k)]
      BY <1>1, RemoveBaseRecords
    <2> HIDE DEF u
    <2>2. ASSUME NEW m \in DOMAIN u, NEW n \in DOMAIN u, u[m].path = u[n].path
          PROVE  m = n
      <3>1. /\ m \in 1..(Len(t) - 1) /\ n \in 1..(Len(t) - 1)
            /\ Len(t) \in Nat /\ k \in 1..Len(t)
        BY <2>1 DEF Table
      <3>2. From(m, k) \in DOMAIN t /\ From(n, k) \in DOMAIN t
        BY <3>1 DEF From, Table
      <3>3. From(m, k) = From(n, k)
        BY <2>1, <2>2, <3>1, <3>2 DEF Table
      <3> QED
        BY <3>1, <3>3 DEF From
    <2> QED
      BY <2>1, <2>2 DEF Table, u
  <1>2. CASE ~Has(t, p)
    BY <1>2 DEF RemoveBase
  <1> QED
    BY <1>1, <1>2

(* A set of numbers that is not empty has a least member. *)
LEMMA LeastMember ==
  ASSUME NEW S, S \subseteq Nat, S # {}
  PROVE  \E i \in S : \A j \in S : i <= j
  <1> DEFINE R == {ss \in Nat \X Nat : ss[1] < ss[2]}
  <1>1. IsWellFoundedOn(R, Nat)
    BY NatLessThanWellFounded DEF OpToRel
  <1>2. PICK i \in S : \A j \in S : ~ (<<j, i>> \in R)
    BY <1>1, WFMin
  <1>3. \A j \in S : <<j, i>> \in R <=> j < i
    OBVIOUS
  <1> HIDE DEF R
  <1>4. \A j \in S : j \in Nat /\ i \in Nat /\ ~ (j < i)
    BY <1>2, <1>3
  <1>5. \A j \in S : i <= j
    BY <1>4
  <1> QED
    BY <1>5

(* The first project above a directory is one of the records. *)
LEMMA FirstCovers ==
  ASSUME NEW t \in Table, NEW p \in Paths, Covering(t, p) # {}
  PROVE  First(t, p) \in DOMAIN t /\ t[First(t, p)].path \in Above[p]
  <1>1. Covering(t, p) \subseteq Nat /\ Covering(t, p) \subseteq DOMAIN t
    BY DEF Covering, Table
  <1>2. \E i \in Covering(t, p) : \A j \in Covering(t, p) : i <= j
    BY <1>1, LeastMember
  <1>3. First(t, p) \in Covering(t, p)
    BY <1>2 DEF First
  <1> QED
    BY <1>3 DEF Covering

(* A record changed in its extra directories only leaves a table a table.   *)
LEMMA DirsTable ==
  ASSUME NEW t \in Table, NEW i \in DOMAIN t, NEW ds \in SUBSET Dirs
  PROVE  [t EXCEPT ![i].dirs = ds] \in Table
  <1> DEFINE r == [t[i] EXCEPT !.dirs = ds]
             u == [t EXCEPT ![i] = r]
  <1>1. t \in Seq(Project) /\ t[i] \in Project
    BY DEF Table
  <1>2. r \in Project /\ r.path = t[i].path
    BY <1>1 DEF Project
  <1> HIDE DEF r
  <1>3. u \in Seq(Project) /\ DOMAIN u = DOMAIN t
    BY <1>1, <1>2
  <1>4. \A m \in DOMAIN t : u[m].path = t[m].path
    BY <1>1, <1>2
  <1>5. u \in Table
    BY <1>3, <1>4 DEF Table
  <1> QED
    BY <1>5 DEF r

(* A command makes a table of a table. *)
LEMMA ResultTable ==
  ASSUME NEW t \in Table, NEW c \in Command
  PROVE  Result(t, c) \in Table
  <1> USE TableAssumption
  <1>1. CASE c.kind = "setBase"
    <2>1. c.path \in Paths /\ c.run \in {0, 1}
      BY <1>1 DEF Command
    <2> QED
      BY <1>1, <2>1, AddBaseTable DEF Result
  <1>2. CASE c.kind = "removeBase"
    <2>1. c.path \in Paths
      BY <1>2 DEF Command
    <2> QED
      BY <1>2, <2>1, RemoveBaseTable DEF Result
  <1>3. CASE c.kind \in {"addExtraDir", "removeExtraDir"}
    <2>1. c.path \in Paths /\ c.dir \in Dirs
      BY <1>3 DEF Command
    <2>2. CASE Covering(t, c.path) = {}
      BY <1>3, <2>2 DEF Result, AddExtraDir, RemoveExtraDir
    <2>3. CASE Covering(t, c.path) # {}
      <3> DEFINE i == First(t, c.path)
      <3>1. i \in DOMAIN t
        BY <2>1, <2>3, FirstCovers
      <3> HIDE DEF i
      <3>2. t[i].dirs \subseteq Dirs
        <4>1. t[i] \in Project
          BY <3>1 DEF Table
        <4> QED
          BY <4>1 DEF Project
      <3>3. [t EXCEPT ![i].dirs = t[i].dirs \cup {c.dir}] \in Table
        BY <2>1, <3>1, <3>2, DirsTable
      <3>4. [t EXCEPT ![i].dirs = t[i].dirs \ {c.dir}] \in Table
        BY <2>1, <3>1, <3>2, DirsTable
      <3> QED
        BY <1>3, <2>3, <3>3, <3>4 DEF Result, AddExtraDir, RemoveExtraDir, i
    <2> QED
      BY <2>2, <2>3
  <1> QED
    BY <1>1, <1>2, <1>3 DEF Command

-----------------------------------------------------------------------------
(* What the file holds after the handler of the two exceptions is a table.  *)
LEMMA ParsedTable ==
  ASSUME file \in Table \cup Unreadable
  PROVE  Parsed(file) \in Table
  <1>1. <<>> \in Table
    BY DEF Table
  <1> QED
    BY <1>1 DEF Parsed

(* The type invariant, and so that every directory occurs once in the file, *)
(* for any number of instances, with hosts that are killed at any moment.   *)
THEOREM TypeCorrect == Spec => []TypeOK
  <1> USE ProjectsAssumption
  <1>1. Init => TypeOK
    <2>1. <<>> \in Table
      BY DEF Table
    <2> QED
      BY <2>1 DEF Init, TypeOK, Unreadable
  <1>2. ASSUME TypeOK, [Next]_vars
        PROVE  TypeOK'
    <2> USE <1>2 DEF TypeOK
    <2>1. ASSUME NEW i \in Instances, NEW c \in Commands, Load(i, c), turns' = turns
          PROVE  TypeOK'
      <3>1. Result(Parsed(file), c) \in Table
        BY ParsedTable, ResultTable
      <3> QED
        BY <2>1, <3>1 DEF Load, Begin, Goto
    <2>2. ASSUME NEW i \in Instances, Truncate(i), turns' = turns
          PROVE  TypeOK'
      BY <2>2 DEF Truncate, Goto, Unreadable
    <2>3. ASSUME NEW i \in Instances, Dump(i), turns' = turns
          PROVE  TypeOK'
      <3>1. work[i] \in Table /\ cmd[i] \in Command
        BY <2>3 DEF Dump
      <3>2. file' \in Table \cup Unreadable
        BY <2>3, <3>1 DEF Dump, Unreadable
      <3>3. told' \subseteq Paths
        <4>1. CASE cmd[i].kind = "setBase"
          BY <2>3, <3>1, <4>1 DEF Dump, Command
        <4>2. CASE cmd[i].kind = "removeBase"
          BY <2>3, <3>1, <4>2 DEF Dump, Command
        <4>3. CASE cmd[i].kind \notin {"setBase", "removeBase"}
          BY <2>3, <4>3 DEF Dump
        <4> QED
          BY <4>1, <4>2, <4>3
      <3>4. <<>> \in Table
        BY DEF Table
      <3>5. /\ pc' \in [Instances -> {"idle", "truncate", "dump", "reset"}]
            /\ cmd' \in [Instances -> Commands \cup {NoCommand}]
            /\ work' \in [Instances -> Table]
            /\ \A j \in Instances :
                  pc'[j] \in {"truncate", "dump"} => cmd'[j] \in Commands
            /\ count' = count
        BY <2>3, <3>4 DEF Dump, Goto, Forget
      <3> QED
        BY <2>3, <3>2, <3>3, <3>5
    <2>4. ASSUME NEW i \in Instances, NEW p \in Lookups, LookUpFails(i, p), turns' = turns
          PROVE  TypeOK'
      BY <2>4 DEF LookUpFails, Begin, Goto
    <2>5. ASSUME NEW i \in Instances, Reset(i), turns' = turns
          PROVE  TypeOK'
      BY <2>5 DEF Reset, Goto, Unreadable
    <2>6. ASSUME NEW i \in Instances, Crash(i), turns' = turns
          PROVE  TypeOK'
      <3>1. <<>> \in Table
        BY DEF Table
      <3> QED
        BY <2>6, <3>1 DEF Crash, Goto, Forget
    <2>7. ASSUME NEW i \in Instances, NEW c \in Commands, Refuse(i, c), turns' = turns
          PROVE  TypeOK'
      BY <2>7 DEF Refuse, Begin
    <2>8. ASSUME NEW i \in Instances, NEW p \in Lookups, LookUp(i, p), turns' = turns
          PROVE  TypeOK'
      BY <2>8 DEF LookUp, Begin
    <2>9. CASE UNCHANGED vars
      BY <2>9 DEF vars
    <2> QED
      BY <2>1, <2>2, <2>3, <2>4, <2>5, <2>6, <2>7, <2>8, <2>9
      DEF Next, Step, Done
  <1> QED
    BY <1>1, <1>2, PTL DEF Spec

-----------------------------------------------------------------------------
(* One command at a time, and no host is killed.                            *)

(* A single instance is at work. *)
OneAtWork ==
    turns => \A i, j \in Instances : pc[i] # "idle" /\ pc[j] # "idle" => i = j

(* While one is, the others are idle. *)
LEMMA OthersIdle ==
  ASSUME turns, TypeOK, OneAtWork, NEW i \in Instances, Step(i)
  PROVE  /\ turns' /\ ~ Crash(i)
         /\ \A j \in Instances \ {i} : pc[j] = "idle" /\ pc'[j] = "idle"
  <1>1. pc \in [Instances -> {"idle", "truncate", "dump", "reset"}]
    BY DEF TypeOK
  <1>2. turns' /\ ~ Crash(i)
    BY DEF Step, Crash
  <1>3. \A j \in Instances \ {i} : pc[j] = "idle"
    <2>1. CASE pc[i] = "idle"
      <3>1. ~ Truncate(i) /\ ~ Dump(i) /\ ~ Reset(i)
        BY <2>1 DEF Truncate, Dump, Reset
      <3>2. Begin(i)
        BY <1>2, <3>1 DEF Step, Refuse, Load, LookUp, LookUpFails
      <3>. QED
        BY <3>2 DEF Begin, AtRest
    <2>2. CASE pc[i] # "idle"
      BY <2>2 DEF OneAtWork
    <2>. QED
      BY <2>1, <2>2
  <1>4. \A j \in Instances \ {i} : pc'[j] = pc[j]
    BY <1>1, <1>2 DEF Step, Refuse, Load, LookUp, LookUpFails, Truncate, Dump,
                      Reset, Goto
  <1>. QED
    BY <1>2, <1>3, <1>4

(* The command that was read is about to change something. *)
Changes(i) ==
    cmd[i].kind = "setBase" => Has(work[i], cmd[i].path)

(* What the file holds at each step of the one that is at work. *)
FileOK ==
    turns => \A i \in Instances :
        /\ pc[i] = "truncate" => work[i] = Result(Parsed(file), cmd[i])
        /\ pc[i] \in {"truncate", "dump"} => Changes(i)
        /\ pc[i] = "dump" => file = Empty
        /\ pc[i] = "reset" => file \in Unreadable

LEMMA WorkStep ==
  ASSUME TypeOK, OneAtWork, [Next]_vars
  PROVE  OneAtWork'
  <1>1. ASSUME NEW i \in Instances, Step(i), turns'
        PROVE  \A j, k \in Instances : pc'[j] # "idle" /\ pc'[k] # "idle" => j = k
    <2>1. turns
      BY <1>1 DEF Step
    <2>2. \A j \in Instances \ {i} : pc'[j] = "idle"
      BY <1>1, <2>1, OthersIdle
    <2>. QED
      BY <2>2
  <1>2. CASE UNCHANGED vars
    BY <1>2 DEF vars, OneAtWork
  <1>. QED
    BY <1>1, <1>2 DEF Next, Done, OneAtWork

(* A base is in the table once the command that adds it changes the table. *)
LEMMA AddedBase ==
  ASSUME NEW t \in Table, NEW c \in Command, c.kind = "setBase",
         Result(t, c) # t
  PROVE  Has(Result(t, c), c.path)
  <1>. DEFINE r == [path |-> c.path, run |-> c.run, dirs |-> {}]
  <1>1. Result(t, c) = Append(t, r)
    BY DEF Result, AddBase
  <1>2. t \in Seq(Project)
    BY DEF Table
  <1>3. Len(t) + 1 \in DOMAIN Append(t, r) /\ Append(t, r)[Len(t) + 1] = r
    BY <1>2
  <1>4. r.path = c.path
    OBVIOUS
  <1>. HIDE DEF r
  <1>. QED
    BY <1>1, <1>3, <1>4 DEF Has

LEMMA FileStep ==
  ASSUME TypeOK, OneAtWork, FileOK, [Next]_vars
  PROVE  FileOK'
  <1>1. ASSUME NEW i \in Instances, Step(i), turns'
        PROVE  FileOK'
    <2>1. turns
      BY <1>1 DEF Step
    <2>2. /\ ~ Crash(i)
          /\ \A j \in Instances \ {i} : pc'[j] = "idle"
      BY <1>1, <2>1, OthersIdle
    <2>3. /\ pc \in [Instances -> {"idle", "truncate", "dump", "reset"}]
          /\ cmd \in [Instances -> Commands \cup {NoCommand}]
          /\ work \in [Instances -> Table]
      BY DEF TypeOK
    <2>. DEFINE Good ==
                  /\ pc'[i] = "truncate" => work'[i] = Result(Parsed(file'), cmd'[i])
                  /\ pc'[i] \in {"truncate", "dump"} => Changes(i)'
                  /\ pc'[i] = "dump" => file' = Empty
                  /\ pc'[i] = "reset" => file' \in Unreadable
    <2>4. Good => FileOK'
      <3>. HAVE Good
      <3>1. ASSUME NEW j \in Instances, pc'[j] # "idle"
            PROVE  j = i
        BY <2>2, <3>1
      <3>. HIDE DEF Changes
      <3>. QED
        BY <3>1 DEF FileOK
    <2>5. ASSUME NEW c \in Commands, Load(i, c)
          PROVE  Good
      <3>1. /\ pc'[i] = "truncate" /\ cmd'[i] = c /\ file' = file
            /\ work'[i] = Result(Parsed(file), c)
        BY <2>3, <2>5 DEF Load, Begin, Goto
      <3>2. Parsed(file) \in Table /\ c \in Command
        BY ParsedTable, ProjectsAssumption DEF TypeOK
      <3>3. c.kind = "setBase" => Has(Result(Parsed(file), c), c.path)
        BY <2>5, <3>2, AddedBase DEF Load
      <3>. QED
        BY <3>1, <3>3 DEF Changes
    <2>6. ASSUME Truncate(i)
          PROVE  Good
      BY <2>1, <2>3, <2>6 DEF FileOK, Truncate, Goto, Changes
    <2>7. ASSUME Dump(i)
          PROVE  Good
      BY <2>3, <2>7 DEF Dump, Goto
    <2>8. ASSUME NEW p \in Lookups, LookUpFails(i, p)
          PROVE  Good
      BY <2>3, <2>8 DEF LookUpFails, Begin, Goto
    <2>9. ASSUME Reset(i)
          PROVE  Good
      BY <2>3, <2>9 DEF Reset, Goto
    <2>10. ASSUME NEW c \in Commands, Refuse(i, c)
          PROVE  Good
      BY <2>1, <2>10 DEF FileOK, Refuse, Begin, Changes
    <2>11. ASSUME NEW p \in Lookups, LookUp(i, p)
          PROVE  Good
      BY <2>1, <2>11 DEF FileOK, LookUp, Begin, Changes
    <2>. QED
      BY <1>1, <2>2, <2>4, <2>5, <2>6, <2>7, <2>8, <2>9, <2>10, <2>11 DEF Step
  <1>2. CASE UNCHANGED vars
    BY <1>2 DEF vars, FileOK, Parsed, Changes
  <1>3. turns' = FALSE => FileOK'
    BY DEF FileOK
  <1>. QED
    BY <1>1, <1>2, <1>3 DEF Next, Done, FileOK

(* What the user sees, with i at work. *)
LEMMA SeenIs ==
  ASSUME NEW i \in Instances, \A j \in Instances \ {i} : pc[j] = "idle"
  PROVE  Seen = IF pc[i] = "dump" THEN work[i] ELSE Parsed(file)
  <1>1. \A j \in Instances : pc[j] = "dump" => j = i
    OBVIOUS
  <1>. QED
    BY <1>1 DEF Seen

(***************************************************************************)
(* A step changes what the user sees at the truncation, by a whole         *)
(* command, or not at all.                                                 *)
(***************************************************************************)
LEMMA SeenStep ==
  ASSUME turns, TypeOK, OneAtWork, FileOK, NEW i \in Instances, Step(i)
  PROVE  /\ turns' = turns
         /\ Truncate(i) => Seen' = Result(Seen, cmd[i]) /\ cmd[i] \in Command
         /\ ~ Truncate(i) => UNCHANGED Seen
  <1>1. /\ turns' /\ ~ Crash(i)
        /\ \A j \in Instances \ {i} : pc[j] = "idle" /\ pc'[j] = "idle"
    BY OthersIdle
  <1>2. Seen = IF pc[i] = "dump" THEN work[i] ELSE Parsed(file)
    BY <1>1, SeenIs
  <1>3. Seen' = IF pc'[i] = "dump" THEN work'[i] ELSE Parsed(file')
    <2>1. \A j \in Instances : pc'[j] = "dump" => j = i
      BY <1>1
    <2>. QED
      BY <2>1 DEF Seen, Parsed
  <1>4. /\ pc \in [Instances -> {"idle", "truncate", "dump", "reset"}]
        /\ work \in [Instances -> Table]
    BY DEF TypeOK
  <1>. HIDE DEF Seen
  <1>5. Truncate(i) => Seen' = Result(Seen, cmd[i]) /\ cmd[i] \in Command
    <2>. HAVE Truncate(i)
    <2>1. cmd[i] \in Command
      BY ProjectsAssumption DEF Truncate, TypeOK
    <2>2. work[i] = Result(Parsed(file), cmd[i])
      BY DEF FileOK, Truncate
    <2>3. Seen = Parsed(file) /\ Seen' = work[i]
      BY <1>2, <1>3, <1>4 DEF Truncate, Goto
    <2>. QED
      BY <2>1, <2>2, <2>3
  <1>6. ASSUME NEW c \in Commands, Load(i, c)
        PROVE  UNCHANGED Seen
    BY <1>2, <1>3, <1>4, <1>6 DEF Load, Begin, Goto
  <1>7. ASSUME Dump(i)
        PROVE  UNCHANGED Seen
    <2>1. file' = work[i]
      BY <1>7 DEF Dump, FileOK
    <2>2. Parsed(file') = work[i]
      BY <1>4, <2>1, ProjectsAssumption DEF Parsed
    <2>. QED
      BY <1>2, <1>3, <1>4, <1>7, <2>2 DEF Dump, Goto
  <1>8. ASSUME NEW p \in Lookups, LookUpFails(i, p)
        PROVE  UNCHANGED Seen
    BY <1>2, <1>3, <1>4, <1>8 DEF LookUpFails, Begin, Goto
  <1>9. ASSUME Reset(i)
        PROVE  UNCHANGED Seen
    <2>1. Parsed(file) = <<>> /\ Parsed(file') = <<>>
      BY <1>9 DEF Reset, FileOK, Parsed, Unreadable
    <2>. QED
      BY <1>2, <1>3, <1>4, <1>9, <2>1 DEF Reset, Goto
  <1>10. ASSUME NEW c \in Commands, Refuse(i, c)
         PROVE  UNCHANGED Seen
    BY <1>2, <1>3, <1>10 DEF Refuse
  <1>11. ASSUME NEW p \in Lookups, LookUp(i, p)
         PROVE  UNCHANGED Seen
    BY <1>2, <1>3, <1>11 DEF LookUp
  <1>. QED
    BY <1>1, <1>5, <1>6, <1>7, <1>8, <1>9, <1>10, <1>11 DEF Step

(* What is promised changes by whole commands. *)
LEMMA PromisedStep ==
  ASSUME TypeOK, OneAtWork, FileOK, [Next]_vars
  PROVE  \/ UNCHANGED Promised
         \/ \E c \in Command : Promised' = Result(Promised, c)
  <1>1. ASSUME NEW i \in Instances, Step(i), turns
        PROVE  \/ UNCHANGED Promised
               \/ \E c \in Command : Promised' = Result(Promised, c)
    BY <1>1, SeenStep DEF Promised
  <1>2. ASSUME NEW i \in Instances, Step(i), ~ turns
        PROVE  UNCHANGED Promised
    BY <1>2 DEF Promised, Step
  <1>3. CASE UNCHANGED vars
    BY <1>3 DEF vars, Promised, Seen, Parsed
  <1>. QED
    BY <1>1, <1>2, <1>3 DEF Next, Done

LEMMA RegistryResult ==
  ASSUME NEW t, NEW c
  PROVE  Registry!Result(t, c) = Result(t, c)
  BY DEF Result, AddBase, RemoveBase, AddExtraDir, RemoveExtraDir, First,
         Covering, Has, Registry!Result, Registry!AddBase,
         Registry!RemoveBase, Registry!AddExtraDir, Registry!RemoveExtraDir,
         Registry!First, Registry!Covering, Registry!Has

(* The three parts of the invariant, and what they give for one command at a time. *)
LEMMA InTurns == Spec => [](TypeOK /\ OneAtWork /\ FileOK)
  <1>1. Init => OneAtWork /\ FileOK
    BY DEF Init, OneAtWork, FileOK
  <1>2. TypeOK /\ OneAtWork /\ FileOK /\ [Next]_vars => OneAtWork' /\ FileOK'
    BY WorkStep, FileStep
  <1>. QED
    BY <1>1, <1>2, TypeCorrect, PTL DEF Spec

(***************************************************************************)
(* Reading, truncating and writing the settings file implement the atomic  *)
(* commands of ProjectRegistry, for any directories, commands and          *)
(* instances, when one command is given after the other.                   *)
(***************************************************************************)
THEOREM CommandsAtomic == Spec => ImplementsRegistry
  <1>1. Init => Promised = <<>>
    BY DEF Init, Promised, Seen, Parsed, Unreadable
  <1>2. Promised = <<>> => Registry!RegistryInit
    BY DEF Registry!RegistryInit
  <1>3. TypeOK /\ OneAtWork /\ FileOK /\ [Next]_vars
          => [Registry!RegistryNext]_Promised
    BY PromisedStep, RegistryResult
    DEF Registry!RegistryNext, Registry!Execute, Registry!Command, Command
  <1>. QED
    BY <1>1, <1>2, <1>3, InTurns, PTL
    DEF Spec, ImplementsRegistry, Registry!RegistrySpec

-----------------------------------------------------------------------------
(* Which project a directory belongs to.                                    *)

LEMMA FirstIs ==
  ASSUME NEW t \in Table, NEW p \in Paths, NEW i \in Covering(t, p),
         \A j \in Covering(t, p) : i <= j
  PROVE  First(t, p) = i
  <1>1. Covering(t, p) \subseteq Nat
    BY DEF Covering, Table
  <1>2. /\ First(t, p) \in Covering(t, p)
        /\ \A j \in Covering(t, p) : First(t, p) <= j
    BY DEF First
  <1> HIDE DEF First
  <1>3. /\ First(t, p) \in Nat /\ i \in Nat
        /\ First(t, p) <= i /\ i <= First(t, p)
    BY <1>1, <1>2
  <1> QED
    BY <1>3

(* The first covering record is the first of all of them. *)
LEMMA FirstLeast ==
  ASSUME NEW t \in Table, NEW p \in Paths, Covering(t, p) # {}
  PROVE  /\ First(t, p) \in Covering(t, p)
         /\ \A j \in Covering(t, p) : First(t, p) <= j
  <1>1. Covering(t, p) \subseteq Nat
    BY DEF Covering, Table
  <1> QED
    BY <1>1, LeastMember DEF First

(* A new base is behind the project a directory belongs to. *)
LEMMA AddBaseKeeps ==
  ASSUME NEW t \in Table, NEW q \in Paths, NEW run \in {0, 1},
         NEW p \in Paths, Covering(t, p) # {}
  PROVE  ProjectOf(AddBase(t, q, run), p) = ProjectOf(t, p)
  <1> DEFINE u == AddBase(t, q, run)
             i == First(t, p)
  <1>1. i \in Covering(t, p) /\ \A j \in Covering(t, p) : i <= j
    BY FirstLeast
  <1>2. u \in Table
    BY AddBaseTable
  <1>3. CASE u = t
    BY <1>3
  <1>4. CASE u = Append(t, [path |-> q, run |-> run, dirs |-> {}])
    <2>1. /\ DOMAIN t = 1..Len(t) /\ Len(t) \in Nat
          /\ DOMAIN u = 1..(Len(t) + 1)
          /\ \A m \in 1..Len(t) : u[m] = t[m]
      BY <1>4 DEF Table
    <2> HIDE DEF u, i
    <2>2. i \in Covering(u, p) /\ u[i] = t[i] /\ i \in 1..Len(t)
      BY <1>1, <2>1 DEF Covering
    <2>3. \A j \in Covering(u, p) : i <= j
      <3> TAKE j \in Covering(u, p)
      <3>1. CASE j \in 1..Len(t)
        BY <1>1, <2>1, <3>1 DEF Covering
      <3>2. CASE j = Len(t) + 1
        BY <2>1, <2>2, <3>2
      <3> QED
        BY <2>1, <3>1, <3>2 DEF Covering
    <2>4. First(u, p) = i
      BY <1>2, <2>2, <2>3, FirstIs
    <2> QED
      BY <2>2, <2>4 DEF ProjectOf, u, i
  <1> QED
    BY <1>3, <1>4 DEF AddBase

(* The removal of another base keeps the order of the others. *)
LEMMA RemoveBaseKeeps ==
  ASSUME NEW t \in Table, NEW q \in Paths, NEW p \in Paths,
         Covering(t, p) # {},
         Has(RemoveBase(t, q), ProjectOf(t, p))
  PROVE  ProjectOf(RemoveBase(t, q), p) = ProjectOf(t, p)
  <1> DEFINE u == RemoveBase(t, q)
             i == First(t, p)
  <1>1. i \in Covering(t, p) /\ \A j \in Covering(t, p) : i <= j
    BY FirstLeast
  <1>2. u \in Table
    BY RemoveBaseTable
  <1>3. CASE ~Has(t, q)
    BY <1>3 DEF RemoveBase
  <1>4. CASE Has(t, q)
    <2>1. PICK k \in DOMAIN t :
            /\ u \in Seq(Project) /\ Len(u) = Len(t) - 1
            /\ \A m \in 1..(Len(t) - 1) : u[m] = t[From(m, k)]
      BY <1>4, RemoveBaseRecords
    <2>2. Has(u, t[i].path)
      BY DEF ProjectOf
    <2> HIDE DEF u, i
    <2>3. /\ DOMAIN t = 1..Len(t) /\ Len(t) \in Nat /\ k \in 1..Len(t)
          /\ DOMAIN u = 1..(Len(t) - 1) /\ i \in 1..Len(t)
          /\ \A m, n \in 1..Len(t) : t[m].path = t[n].path => m = n
      BY <1>1, <2>1 DEF Table, Covering
    <2>4. PICK n \in DOMAIN u : u[n].path = t[i].path
      BY <2>2 DEF Has
    <2>5. From(n, k) = i
      <3>1. From(n, k) \in 1..Len(t)
        BY <2>3, <2>4 DEF From
      <3>2. t[From(n, k)].path = t[i].path
        BY <2>1, <2>3, <2>4
      <3> QED
        BY <2>3, <3>1, <3>2
    <2>6. n \in Covering(u, p)
      BY <1>1, <2>4 DEF Covering
    <2>7. \A j \in Covering(u, p) : n <= j
      <3> TAKE j \in Covering(u, p)
      <3>1. j \in 1..(Len(t) - 1) /\ u[j] = t[From(j, k)]
        BY <2>1, <2>3 DEF Covering
      <3>2. From(j, k) \in Covering(t, p)
        BY <2>3, <3>1 DEF Covering, From
      <3>3. i <= From(j, k)
        BY <1>1, <3>2
      <3> QED
        BY <2>3, <2>4, <2>5, <3>1, <3>3 DEF From
    <2>8. First(u, p) = n
      BY <1>2, <2>6, <2>7, FirstIs
    <2> QED
      BY <2>4, <2>8 DEF ProjectOf, u, i
  <1> QED
    BY <1>3, <1>4

(* A table with the same directories has the same projects. *)
LEMMA SameProject ==
  ASSUME NEW t \in Table, NEW i \in DOMAIN t, NEW ds \in SUBSET Dirs,
         NEW p \in Paths, Covering(t, p) # {}
  PROVE  ProjectOf([t EXCEPT ![i].dirs = ds], p) = ProjectOf(t, p)
  <1> DEFINE u == [t EXCEPT ![i].dirs = ds]
  <1>1. /\ DOMAIN u = DOMAIN t
        /\ \A m \in DOMAIN t : u[m].path = t[m].path
    <2>1. \A m \in DOMAIN t : t[m] \in Project
      BY DEF Table
    <2> QED
      BY <2>1 DEF Project
  <1> HIDE DEF u
  <1>2. Covering(u, p) = Covering(t, p)
    BY <1>1 DEF Covering
  <1>3. First(u, p) = First(t, p)
    BY <1>2 DEF First
  <1>4. First(t, p) \in DOMAIN t
    BY FirstCovers
  <1> QED
    BY <1>1, <1>3, <1>4 DEF ProjectOf, u

LEMMA ResultKeeps ==
  ASSUME NEW t \in Table, NEW c \in Command, NEW p \in Paths,
         Covering(t, p) # {},
         Has(Result(t, c), ProjectOf(t, p))
  PROVE  ProjectOf(Result(t, c), p) = ProjectOf(t, p)
  <1>1. CASE c.kind = "setBase"
    <2>1. c.path \in Paths /\ c.run \in {0, 1}
      BY <1>1 DEF Command
    <2> QED
      BY <1>1, <2>1, AddBaseKeeps DEF Result
  <1>2. CASE c.kind = "removeBase"
    <2>1. c.path \in Paths
      BY <1>2 DEF Command
    <2> QED
      BY <1>2, <2>1, RemoveBaseKeeps DEF Result
  <1>3. CASE c.kind \in {"addExtraDir", "removeExtraDir"}
    <2>1. c.path \in Paths /\ c.dir \in Dirs
      BY <1>3 DEF Command
    <2>2. CASE Covering(t, c.path) = {}
      BY <1>3, <2>2 DEF Result, AddExtraDir, RemoveExtraDir
    <2>3. CASE Covering(t, c.path) # {}
      <3> DEFINE i == First(t, c.path)
      <3>1. i \in DOMAIN t
        BY <2>1, <2>3, FirstCovers
      <3> HIDE DEF i
      <3>2. t[i].dirs \subseteq Dirs
        <4>1. t[i] \in Project
          BY <3>1 DEF Table
        <4> QED
          BY <4>1 DEF Project
      <3>3. /\ t[i].dirs \cup {c.dir} \in SUBSET Dirs
            /\ t[i].dirs \ {c.dir} \in SUBSET Dirs
        BY <2>1, <3>2
      <3>4. \A ds \in SUBSET Dirs :
              ProjectOf([t EXCEPT ![i].dirs = ds], p) = ProjectOf(t, p)
        BY <3>1, SameProject
      <3>5. ProjectOf([t EXCEPT ![i].dirs = t[i].dirs \cup {c.dir}], p)
              = ProjectOf(t, p)
        BY <3>3, <3>4
      <3>6. ProjectOf([t EXCEPT ![i].dirs = t[i].dirs \ {c.dir}], p)
              = ProjectOf(t, p)
        BY <3>3, <3>4
      <3> QED
        BY <1>3, <2>3, <3>5, <3>6 DEF Result, AddExtraDir, RemoveExtraDir, i
    <2> QED
      BY <2>2, <2>3
  <1> QED
    BY <1>1, <1>2, <1>3 DEF Command

(***************************************************************************)
(* A directory keeps its project as long as that project is registered,    *)
(* whatever the other directories, the commands and the instances, when    *)
(* one command is given after the other.                                   *)
(***************************************************************************)
THEOREM ProjectsKept == Spec => NoTakeover
  <1>. DEFINE Kept == \A p \in Paths :
          Covering(Promised, p) # {} /\ Has(Promised', ProjectOf(Promised, p)) =>
              ProjectOf(Promised', p) = ProjectOf(Promised, p)
  <1>1. TypeOK /\ OneAtWork /\ FileOK /\ [Next]_vars => [Kept]_vars
    <2>. SUFFICES ASSUME TypeOK, OneAtWork, FileOK, [Next]_vars
                  PROVE  Kept
      OBVIOUS
    <2>1. Promised \in Table
      <3>1. <<>> \in Table
        BY DEF Table
      <3>. QED
        BY <3>1, ParsedTable DEF TypeOK, Promised, Seen
    <2>2. CASE UNCHANGED Promised
      BY <2>2
    <2>3. ASSUME NEW c \in Command, Promised' = Result(Promised, c)
          PROVE  Kept
      BY <2>1, <2>3, ResultKeeps
    <2>. QED
      BY <2>2, <2>3, PromisedStep
  <1>. QED
    BY <1>1, InTurns, PTL DEF Spec, NoTakeover

(***************************************************************************)
(* Of commands one after the other, a lookup resets only a settings file   *)
(* that it could not read: at the reset the file is still unreadable.      *)
(***************************************************************************)
THEOREM LookupsRead == Spec => LookupsOnlyRead
  <1>. DEFINE Kept == turns => \A i \in Instances :
          pc[i] = "reset" /\ pc'[i] = "idle" => Parsed(file') = Parsed(file)
  <1>1. TypeOK /\ OneAtWork /\ FileOK /\ [Next]_vars => [Kept]_vars
    <2>. SUFFICES ASSUME turns, TypeOK, OneAtWork, FileOK, [Next]_vars,
                         NEW i \in Instances, pc[i] = "reset", pc'[i] = "idle"
                  PROVE  Parsed(file') = Parsed(file)
      OBVIOUS
    <2>1. PICK j \in Instances : Step(j)
      BY DEF Next, Done, vars
    <2>2. j = i
      BY <2>1, OthersIdle
    <2>3. Reset(i)
      BY <2>1, <2>2 DEF Step, Refuse, Load, LookUp, LookUpFails, Begin, Truncate,
                        Dump, Crash
    <2>. QED
      BY <2>3 DEF Reset, FileOK, Parsed, Unreadable
  <1>. QED
    BY <1>1, InTurns, PTL DEF Spec, LookupsOnlyRead

-----------------------------------------------------------------------------
(* What was saved stays saved.                                              *)

(* A command leaves every base but the one it removes. *)
LEMMA ResultHas ==
  ASSUME NEW t \in Table, NEW c \in Command, NEW p \in Paths, Has(t, p),
         ~ (c.kind = "removeBase" /\ c.path = p)
  PROVE  Has(Result(t, c), p)
  <1>. PICK n \in DOMAIN t : t[n].path = p
    BY DEF Has
  <1>1. t \in Seq(Project) /\ DOMAIN t = 1..Len(t) /\ Len(t) \in Nat
    BY DEF Table
  <1>2. CASE c.kind = "setBase"
    <2>. DEFINE r == [path |-> c.path, run |-> c.run, dirs |-> {}]
    <2>1. Result(t, c) \in {t, Append(t, r)}
      BY <1>2 DEF Result, AddBase
    <2>2. n \in DOMAIN Append(t, r) /\ Append(t, r)[n] = t[n]
      BY <1>1
    <2>. HIDE DEF r
    <2>. QED
      BY <2>1, <2>2 DEF Has
  <1>3. CASE c.kind = "removeBase" /\ Has(t, c.path)
    <2>1. Result(t, c) = RemoveBase(t, c.path) /\ c.path \in Paths /\ c.path # p
      BY <1>3 DEF Result, Command
    <2>2. PICK k \in DOMAIN t :
            /\ t[k].path = c.path
            /\ RemoveBase(t, c.path) \in Seq(Project)
            /\ Len(RemoveBase(t, c.path)) = Len(t) - 1
            /\ \A m \in 1..(Len(t) - 1) : RemoveBase(t, c.path)[m] = t[From(m, k)]
      BY <1>3, <2>1, RemoveBaseRecords
    <2>. DEFINE u == RemoveBase(t, c.path)
               m == IF n < k THEN n ELSE n - 1
    <2>3. n # k
      BY <2>1, <2>2
    <2>4. m \in 1..(Len(t) - 1) /\ From(m, k) = n
      BY <1>1, <2>3 DEF From
    <2>5. DOMAIN u = 1..(Len(t) - 1)
      BY <1>1, <2>2
    <2>. HIDE DEF u, m
    <2>6. m \in DOMAIN u /\ u[m].path = p
      BY <2>2, <2>4, <2>5 DEF u
    <2>. QED
      BY <2>1, <2>6 DEF Has, u
  <1>4. CASE c.kind = "removeBase" /\ ~ Has(t, c.path)
    BY <1>4 DEF Result, RemoveBase
  <1>5. CASE c.kind \in {"addExtraDir", "removeExtraDir"}
    <2>1. \A i, ds : /\ DOMAIN [t EXCEPT ![i].dirs = ds] = DOMAIN t
                    /\ [t EXCEPT ![i].dirs = ds][n].path = t[n].path
      <3>. TAKE i, ds
      <3>1. t[n] \in Project
        BY <1>1
      <3>. QED
        BY <3>1 DEF Project
    <2>2. \/ Result(t, c) = t
          \/ \E i, ds : Result(t, c) = [t EXCEPT ![i].dirs = ds]
      BY <1>5 DEF Result, AddExtraDir, RemoveExtraDir
    <2>3. CASE Result(t, c) = t
      BY <2>3
    <2>4. CASE \E i, ds : Result(t, c) = [t EXCEPT ![i].dirs = ds]
      <3>. PICK i, ds : Result(t, c) = [t EXCEPT ![i].dirs = ds]
        BY <2>4
      <3>1. n \in DOMAIN Result(t, c) /\ Result(t, c)[n].path = p
        BY <2>1
      <3>. QED
        BY <3>1 DEF Has
    <2>. QED
      BY <2>2, <2>3, <2>4
  <1>. QED
    BY <1>2, <1>3, <1>4, <1>5 DEF Command

(* The base that is being removed while the file is truncated. *)
Removing(p) ==
    \E i \in Instances :
        pc[i] = "dump" /\ cmd[i].kind = "removeBase" /\ cmd[i].path = p

(* What the user was told is in what the user sees, unless it is being removed. *)
ToldSeen == turns => \A p \in told : Has(Seen, p) \/ Removing(p)

LEMMA ToldStep ==
  ASSUME TypeOK, OneAtWork, FileOK, ToldSeen, [Next]_vars
  PROVE  ToldSeen'
  <1>1. ASSUME NEW i \in Instances, Step(i), turns, NEW p \in told'
        PROVE  Has(Seen', p) \/ Removing(p)'
    <2>1. /\ ~ Crash(i)
          /\ \A j \in Instances \ {i} : pc[j] = "idle" /\ pc'[j] = "idle"
      BY <1>1, OthersIdle
    <2>2. /\ Truncate(i) => Seen' = Result(Seen, cmd[i]) /\ cmd[i] \in Command
          /\ ~ Truncate(i) => UNCHANGED Seen
      BY <1>1, SeenStep
    <2>3. Seen = IF pc[i] = "dump" THEN work[i] ELSE Parsed(file)
      BY <2>1, SeenIs
    <2>4. /\ pc \in [Instances -> {"idle", "truncate", "dump", "reset"}]
          /\ told \subseteq Paths /\ Seen \in Table
      BY <2>3, ParsedTable DEF TypeOK
    <2>. HIDE DEF Seen
    <2>5. CASE Truncate(i)
      <3>1. p \in told /\ pc[i] = "truncate" /\ pc'[i] = "dump" /\ cmd' = cmd
        BY <1>1, <2>4, <2>5 DEF Truncate, Goto
      <3>2. ~ Removing(p)
        BY <2>1, <3>1 DEF Removing
      <3>3. Has(Seen, p) /\ p \in Paths
        BY <1>1, <2>4, <3>1, <3>2 DEF ToldSeen
      <3>4. CASE cmd[i].kind = "removeBase" /\ cmd[i].path = p
        BY <3>1, <3>4 DEF Removing
      <3>. QED
        BY <2>2, <2>4, <2>5, <3>3, <3>4, ResultHas
    <2>6. CASE Dump(i)
      <3>1. Seen' = Seen /\ Seen = work[i] /\ pc[i] = "dump"
        BY <2>2, <2>3, <2>6 DEF Dump, Truncate
      <3>2. CASE cmd[i].kind = "setBase" /\ p = cmd[i].path
        BY <1>1, <3>1, <3>2 DEF FileOK, Changes
      <3>3. CASE p \in told /\ ~ (cmd[i].kind = "removeBase" /\ p = cmd[i].path)
        <4>1. ~ Removing(p)
          BY <2>1, <3>3 DEF Removing
        <4>. QED
          BY <1>1, <3>1, <3>3, <4>1 DEF ToldSeen
      <3>4. told' = CASE cmd[i].kind = "setBase"    -> told \cup {cmd[i].path}
                      [] cmd[i].kind = "removeBase" -> told \ {cmd[i].path}
                      [] OTHER                      -> told
        BY <2>6 DEF Dump
      <3>5. CASE cmd[i].kind = "setBase"
        BY <1>1, <3>2, <3>3, <3>4, <3>5
      <3>6. CASE cmd[i].kind = "removeBase"
        BY <1>1, <3>3, <3>4, <3>6
      <3>7. CASE cmd[i].kind \notin {"setBase", "removeBase"}
        BY <1>1, <3>3, <3>4, <3>7
      <3>. QED
        BY <3>5, <3>6, <3>7
    <2>7. CASE ~ Truncate(i) /\ ~ Dump(i)
      <3>1. told' = told /\ pc[i] # "dump"
        BY <1>1, <2>1, <2>4, <2>7 DEF Step, Refuse, Load, LookUp, LookUpFails, Begin,
                                      Reset
      <3>2. ~ Removing(p)
        BY <2>1, <3>1 DEF Removing
      <3>. QED
        BY <1>1, <2>2, <2>7, <3>1, <3>2 DEF ToldSeen
    <2>. QED
      BY <2>5, <2>6, <2>7
  <1>2. ASSUME NEW i \in Instances, Step(i), ~ turns
        PROVE  ToldSeen'
    BY <1>2 DEF Step, ToldSeen
  <1>3. CASE UNCHANGED vars
    BY <1>3 DEF vars, ToldSeen, Seen, Removing, Parsed
  <1>4. ASSUME NEW i \in Instances, Step(i), turns
        PROVE  ToldSeen'
    BY <1>1, <1>4 DEF ToldSeen
  <1>. QED
    BY <1>2, <1>3, <1>4 DEF Next, Done

(***************************************************************************)
(* Of commands one after the other, whatever they are and from however     *)
(* many instances: a base the user was told is saved is in the file until  *)
(* it is removed.                                                          *)
(***************************************************************************)
THEOREM ProjectsSaved == Spec => []SavedStays
  <1>1. Init => ToldSeen
    BY DEF Init, ToldSeen
  <1>2. TypeOK /\ OneAtWork /\ FileOK /\ ToldSeen /\ [Next]_vars => ToldSeen'
    BY ToldStep
  <1>3. ToldSeen => SavedStays
    BY DEF ToldSeen, SavedStays, AtRest, Seen, Removing
  <1>. QED
    BY <1>1, <1>2, <1>3, InTurns, PTL DEF Spec

=============================================================================
