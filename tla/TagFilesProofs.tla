--------------------------- MODULE TagFilesProofs ---------------------------
(***************************************************************************)
(* Proofs about TagFiles, for any number of instances and any bounds.      *)
(***************************************************************************)
EXTENDS TagFiles, TLAPS

-----------------------------------------------------------------------------
(* The inductive invariant.                                                *)

(* The update of i is the only one, or was while it ran. *)
Solo(i) == up[i].alone \/ ~ disturbed

Sole == \A i, j \in Instances : Active(i) /\ Active(j) /\ Solo(i) => i = j

(***************************************************************************)
(* ctags writes while somebody waits for it; an update reads the tags file *)
(* while it has it open, and then there is a compressed file; one that is  *)
(* alone has no orphan beside it.                                          *)
(***************************************************************************)
Links ==
    \A i \in Instances :
        /\ i \in linked => pc[i] = "ctags"
        /\ i \in opened => pc[i] \in {"write", "copy"}
        /\ pc[i] \in {"write", "copy", "unlink"} => gzFile # Missing
        /\ up[i].alone /\ Active(i) => orphans = 0

(* A forced update that was alone, and had its tags from ctags. *)
Clean(i) == generates /\ up[i].force /\ up[i].alone /\ ~ up[i].missed

(* The new tags on their way from ctags to the screen. *)
Progress ==
    \A i \in Instances : Clean(i) =>
        /\ up[i].base <= src
        /\ pc[i] = "ctags" => i \in linked /\ ~ mixedTags /\ data[i] >= up[i].base
        /\ pc[i] = "open" => tagFile \in up[i].base..src
        /\ pc[i] = "write" => i \in opened /\ ~ mixedGz /\ tagFile \in up[i].base..src
        /\ pc[i] \in {"copy", "unlink", "parse", "read"} => gzFile \in up[i].base..src
        /\ pc[i] # "dead"
        /\ pc[i] = "idle" => shown[i] \in up[i].base..src

(* The copy in &tags is made of the file that is read, or of what that is made of. *)
Copies ==
    /\ gzFile = Missing => \A i \in Instances : tmp[i] = Missing
    /\ \A i \in Instances : up[i].alone =>
          /\ pc[i] \in {"spawn", "ctags", "open"} /\ back[i] = "read" => gzFile = Missing
          /\ pc[i] = "write" => i \in opened /\ ~ mixedGz
          /\ pc[i] = "copy" => i \in opened /\ gzFile = tagFile
          /\ pc[i] = "unlink" => tmp[i] \in {gzFile, Lost}
          /\ pc[i] = "read" => tmp[i] \in {IF gzFile = Torn THEN Part ELSE gzFile, Lost}
          /\ pc[i] = "idle" => tmp[i] \in {shown[i], Lost}
    /\ \A i \in Instances : pc[i] \in {"idle", "parse"} => back[i] = "parse"

(* Without a disturbance only whole tags files are compressed. *)
Whole ==
    ~ disturbed =>
        /\ orphans = 0
        /\ gzFile # Part
        /\ gzFile = Torn => \E i \in Instances : pc[i] = "write"
        /\ \A i \in Instances :
              /\ pc[i] # "dead"
              /\ pc[i] = "ctags" => i \in linked /\ ~ mixedTags
              /\ pc[i] = "open" => tagFile \in Versions
              /\ pc[i] = "write" => i \in opened /\ ~ mixedGz /\ tagFile \in Versions

IInv == TypeOK /\ Sole /\ Links /\ Progress /\ Copies /\ Whole

USE TagFilesAssumption
    DEF Versions, Content, settings, tags, gz, files, local, history

(* Nothing has been highlighted when the instances start. *)
LEMMA InitInv == Init => IInv
<1>. SUFFICES ASSUME Init PROVE IInv
  OBVIOUS
<1>. USE DEF Init, Disregarded
<1>1. TypeOK
  <2>1. 0 \in Versions /\ 0 \in 0..MaxOrphans /\ 0 \in 0..MaxCrashes
    OBVIOUS
  <2>2. up \in [Instances ->
                 [force : BOOLEAN, base : Versions, alone : BOOLEAN, missed : BOOLEAN]]
    BY <2>1
  <2>3. data \in [Instances -> Content] /\ pc \in [Instances -> Labels]
    BY <2>1 DEF Labels
  <2>. QED  BY <2>1, <2>2, <2>3 DEF TypeOK
<1>2. Sole /\ Links
  BY DEF Sole, Links, Active
<1>3. Progress
  BY DEF Progress, Clean
<1>4. Copies
  BY DEF Copies
<1>5. Whole
  BY DEF Whole
<1>. QED  BY <1>1, <1>2, <1>3, <1>4, <1>5 DEF IInv

(* The tags file is emptied: of a clean update only its own ctags writes it. *)
LEMMA SpawnInv == ASSUME IInv, NEW k \in Instances, Spawn(k) PROVE IInv'
<1>. USE DEF Spawn, Goto
<1>1. TypeOK'
  BY DEF IInv, TypeOK, Labels, Links, Active
<1>2. Sole'
  BY DEF IInv, TypeOK, Sole, Solo, Active, Links
<1>3. Links'
  BY DEF IInv, TypeOK, Links, Active
<1>4. Progress'
  BY DEF IInv, TypeOK, Sole, Solo, Links, Progress, Clean, Active
<1>5. Copies'
  BY DEF IInv, TypeOK, Sole, Solo, Links, Copies, Active
<1>6. Whole'
  BY DEF IInv, TypeOK, Sole, Solo, Links, Whole, Active
<1>. QED  BY <1>1, <1>2, <1>3, <1>4, <1>5, <1>6 DEF IInv

(* A failure is a disturbance, and the update is no longer clean. *)
LEMMA SpawnFailsInv == ASSUME IInv, NEW k \in Instances, SpawnFails(k) PROVE IInv'
<1>. USE DEF SpawnFails, Goto, Miss, Disturb
<1>1. TypeOK'
  BY DEF IInv, TypeOK, Labels, Links, Active
<1>2. Sole'
  BY DEF IInv, TypeOK, Sole, Solo, Active, Links
<1>3. Links'
  BY DEF IInv, TypeOK, Links, Active
<1>4. Progress'
  BY DEF IInv, TypeOK, Sole, Solo, Links, Progress, Clean, Active
<1>5. Copies'
  BY DEF IInv, TypeOK, Sole, Solo, Links, Copies, Active
<1>6. Whole'
  BY DEF IInv, TypeOK, Sole, Solo, Links, Whole, Active
<1>. QED  BY <1>1, <1>2, <1>3, <1>4, <1>5, <1>6 DEF IInv

(* What ctags has written without company is whole, and as new as its start. *)
LEMMA CtagsEndsInv == ASSUME IInv, NEW k \in Instances, CtagsEnds(k) PROVE IInv'
<1>. USE DEF CtagsEnds, Written, Goto
<1>1. TypeOK'
  BY DEF IInv, TypeOK, Labels, Links, Active
<1>2. Sole'
  BY DEF IInv, TypeOK, Sole, Solo, Active, Links
<1>3. Links'
  BY DEF IInv, TypeOK, Links, Active
<1>4. Progress'
  BY DEF IInv, TypeOK, Sole, Solo, Links, Progress, Clean, Active
<1>5. Copies'
  BY DEF IInv, TypeOK, Sole, Solo, Links, Copies, Active
<1>6. Whole'
  BY DEF IInv, TypeOK, Sole, Solo, Links, Whole, Active
<1>. QED  BY <1>1, <1>2, <1>3, <1>4, <1>5, <1>6 DEF IInv

(* Tags nobody waits for any more. *)
LEMMA CtagsBreaksInv == ASSUME IInv, NEW k \in Instances, CtagsBreaks(k) PROVE IInv'
<1>. USE DEF CtagsBreaks, Goto, Written, Miss, Disturb
<1>1. TypeOK'
  BY DEF IInv, TypeOK, Labels, Links, Active
<1>2. Sole'
  BY DEF IInv, TypeOK, Sole, Solo, Active, Links
<1>3. Links'
  BY DEF IInv, TypeOK, Links, Active
<1>4. Progress'
  BY DEF IInv, TypeOK, Sole, Solo, Links, Progress, Clean, Active
<1>5. Copies'
  BY DEF IInv, TypeOK, Sole, Solo, Links, Copies, Active
<1>6. Whole'
  BY DEF IInv, TypeOK, Sole, Solo, Links, Whole, Active
<1>. QED  BY <1>1, <1>2, <1>3, <1>4, <1>5, <1>6 DEF IInv

(* After a timeout the partial tags file is there, but not looked at. *)
LEMMA TimeoutInv == ASSUME IInv, NEW k \in Instances, Timeout(k) PROVE IInv'
<1>. USE DEF Timeout, Goto, Miss, Disturb, Disregard, Disregarded
<1>1. TypeOK'
  <2>1. up' \in [Instances ->
                  [force : BOOLEAN, base : Versions, alone : BOOLEAN, missed : BOOLEAN]]
    <3>1. 0 \in Versions
      OBVIOUS
    <3>2. CASE up' = [up EXCEPT ![k].missed = up[k].alone]
      BY <3>2 DEF IInv, TypeOK
    <3>3. CASE up' = [up EXCEPT ![k] = Disregarded]
      BY <3>1, <3>3 DEF IInv, TypeOK
    <3>. QED  BY <3>2, <3>3
  <2>2. data' \in [Instances -> Versions] /\ pc' \in [Instances -> Labels]
    BY DEF IInv, TypeOK, Labels
  <2>3. orphans' \in 0..MaxOrphans
    BY DEF IInv, TypeOK
  <2>4. disturbed' \in BOOLEAN
    BY DEF IInv, TypeOK
  <2>. QED  BY <2>1, <2>2, <2>3, <2>4 DEF IInv, TypeOK
<1>2. Sole'
  BY DEF IInv, TypeOK, Sole, Solo, Active, Links
<1>3. Links'
  BY DEF IInv, TypeOK, Sole, Solo, Links, Active
<1>4. Progress'
  BY DEF IInv, TypeOK, Sole, Solo, Links, Progress, Clean, Active
<1>5. Copies'
  BY DEF IInv, TypeOK, Sole, Solo, Links, Copies, Active
<1>6. Whole'
  <2>. SUFFICES ASSUME ~ disturbed' PROVE Whole'
    BY DEF Whole
  <2>1. ~ disturbed /\ orphans' = 0 /\ pc' = [pc EXCEPT ![k] = back[k]] /\ pc[k] = "ctags"
    BY DEF IInv, TypeOK, Whole
  <2>2. back[k] \in {"parse", "read"} /\ UNCHANGED <<gzFile, mixedGz, tagFile, mixedTags>>
    BY DEF IInv, TypeOK
  <2>3. gzFile' # Part /\ (gzFile' = Torn => \E i \in Instances : pc'[i] = "write")
    BY <2>1, <2>2 DEF IInv, TypeOK, Whole
  <2>4. ASSUME NEW i \in Instances
        PROVE  /\ pc'[i] # "dead"
               /\ pc'[i] = "ctags" => i \in linked' /\ ~ mixedTags'
               /\ pc'[i] = "open" => tagFile' \in Versions
               /\ pc'[i] = "write" => i \in opened' /\ ~ mixedGz' /\ tagFile' \in Versions
    BY <2>1, <2>2 DEF IInv, TypeOK, Whole
  <2>. QED  BY <2>1, <2>3, <2>4 DEF Whole
<1>. QED  BY <1>1, <1>2, <1>3, <1>4, <1>5, <1>6 DEF IInv

(* Without a tags file the update goes on with the old compressed file. *)
LEMMA NoTagFileInv == ASSUME IInv, NEW k \in Instances, NoTagFile(k) PROVE IInv'
<1>. USE DEF NoTagFile, Goto, Miss
<1>1. TypeOK'
  BY DEF IInv, TypeOK, Labels, Links, Active
<1>2. Sole'
  BY DEF IInv, TypeOK, Sole, Solo, Active, Links
<1>3. Links'
  BY DEF IInv, TypeOK, Links, Active
<1>4. Progress'
  BY DEF IInv, TypeOK, Sole, Solo, Links, Progress, Clean, Active
<1>5. Copies'
  BY DEF IInv, TypeOK, Sole, Solo, Links, Copies, Active
<1>6. Whole'
  BY DEF IInv, TypeOK, Sole, Solo, Links, Whole, Active
<1>. QED  BY <1>1, <1>2, <1>3, <1>4, <1>5, <1>6 DEF IInv

(* The compressed file is torn while the update that writes it is at write. *)
LEMMA TruncateInv == ASSUME IInv, NEW k \in Instances, Truncate(k) PROVE IInv'
<1>. USE DEF Truncate, Goto
<1>1. TypeOK'
  BY DEF IInv, TypeOK, Labels, Links, Active
<1>2. Sole'
  BY DEF IInv, TypeOK, Sole, Solo, Active, Links
<1>3. Links'
  BY DEF IInv, TypeOK, Links, Active
<1>4. Progress'
  BY DEF IInv, TypeOK, Sole, Solo, Links, Progress, Clean, Active
<1>5. Copies'
  BY DEF IInv, TypeOK, Sole, Solo, Links, Copies, Active
<1>6. Whole'
  BY DEF IInv, TypeOK, Sole, Solo, Links, Whole, Active
<1>. QED  BY <1>1, <1>2, <1>3, <1>4, <1>5, <1>6 DEF IInv

(* The compressed file is made of the tags file. *)
LEMMA WriteInv == ASSUME IInv, NEW k \in Instances, Write(k) PROVE IInv'
<1>. USE DEF Write, Goto, Contents
<1>1. TypeOK'
  BY DEF IInv, TypeOK, Labels, Links, Active
<1>2. Sole'
  BY DEF IInv, TypeOK, Sole, Solo, Active, Links
<1>3. Links'
  BY DEF IInv, TypeOK, Links, Active
<1>4. Progress'
  BY DEF IInv, TypeOK, Sole, Solo, Links, Progress, Clean, Active
<1>5. Copies'
  BY DEF IInv, TypeOK, Sole, Solo, Links, Copies, Active
<1>6. Whole'
  BY DEF IInv, TypeOK, Sole, Solo, Links, Whole, Active
<1>. QED  BY <1>1, <1>2, <1>3, <1>4, <1>5, <1>6 DEF IInv

(* A write that fails is a disturbance. *)
LEMMA WriteFailsInv == ASSUME IInv, NEW k \in Instances, WriteFails(k) PROVE IInv'
<1>. USE DEF WriteFails, Goto, Disregard, Disregarded, Disturb
<1>1. TypeOK'
  BY DEF IInv, TypeOK, Labels, Links, Active
<1>2. Sole'
  BY DEF IInv, TypeOK, Sole, Solo, Active, Links
<1>3. Links'
  BY DEF IInv, TypeOK, Links, Active
<1>4. Progress'
  BY DEF IInv, TypeOK, Sole, Solo, Links, Progress, Clean, Active
<1>5. Copies'
  BY DEF IInv, TypeOK, Sole, Solo, Links, Copies, Active
<1>6. Whole'
  BY DEF IInv, TypeOK, Sole, Solo, Links, Whole, Active
<1>. QED  BY <1>1, <1>2, <1>3, <1>4, <1>5, <1>6 DEF IInv

(* The tags file has not changed since it was compressed. *)
LEMMA CopyTagsInv == ASSUME IInv, NEW k \in Instances, CopyTags(k) PROVE IInv'
<1>. USE DEF CopyTags, Goto, Contents, CopyInto
<1>1. TypeOK'
  BY DEF IInv, TypeOK, Labels, Links, Active
<1>2. Sole'
  BY DEF IInv, TypeOK, Sole, Solo, Active, Links
<1>3. Links'
  BY DEF IInv, TypeOK, Links, Active
<1>4. Progress'
  BY DEF IInv, TypeOK, Sole, Solo, Links, Progress, Clean, Active
<1>5. Copies'
  BY DEF IInv, TypeOK, Sole, Solo, Links, Copies, Active
<1>6. Whole'
  BY DEF IInv, TypeOK, Sole, Solo, Links, Whole, Active
<1>. QED  BY <1>1, <1>2, <1>3, <1>4, <1>5, <1>6 DEF IInv

(* What was not copied is disregarded. *)
LEMMA CopyFailsInv == ASSUME IInv, NEW k \in Instances, CopyFails(k) PROVE IInv'
<1>. USE DEF CopyFails, Goto, CopyInto, Disregard, Disregarded
<1>1. TypeOK'
  BY DEF IInv, TypeOK, Labels, Links, Active
<1>2. Sole'
  BY DEF IInv, TypeOK, Sole, Solo, Active, Links
<1>3. Links'
  BY DEF IInv, TypeOK, Links, Active
<1>4. Progress'
  BY DEF IInv, TypeOK, Sole, Solo, Links, Progress, Clean, Active
<1>5. Copies'
  BY DEF IInv, TypeOK, Sole, Solo, Links, Copies, Active
<1>6. Whole'
  BY DEF IInv, TypeOK, Sole, Solo, Links, Whole, Active
<1>. QED  BY <1>1, <1>2, <1>3, <1>4, <1>5, <1>6 DEF IInv

(* The tags file is gone; its content is in the compressed file. *)
LEMMA UnlinkInv == ASSUME IInv, NEW k \in Instances, Unlink(k) PROVE IInv'
<1>. USE DEF Unlink, Goto
<1>1. TypeOK'
  <2>1. 0 \in Versions /\ 0 \in 0..MaxOrphans
    OBVIOUS
  <2>2. data' \in [Instances -> Content] /\ pc' \in [Instances -> Labels]
    BY <2>1 DEF IInv, TypeOK, Labels
  <2>. QED  BY <2>1, <2>2 DEF IInv, TypeOK
<1>2. Sole'
  BY DEF IInv, TypeOK, Sole, Solo, Active, Links
<1>3. Links'
  BY DEF IInv, TypeOK, Links, Active
<1>4. Progress'
  BY DEF IInv, TypeOK, Sole, Solo, Links, Progress, Clean, Active
<1>5. Copies'
  BY DEF IInv, TypeOK, Sole, Solo, Links, Copies, Active
<1>6. Whole'
  BY DEF IInv, TypeOK, Sole, Solo, Links, Whole, Active
<1>. QED  BY <1>1, <1>2, <1>3, <1>4, <1>5, <1>6 DEF IInv

(* The compressed file is there, and that is what is read. *)
LEMMA UnlinkFailsInv == ASSUME IInv, NEW k \in Instances, UnlinkFails(k) PROVE IInv'
<1>. USE DEF UnlinkFails, Goto
<1>1. TypeOK'
  BY DEF IInv, TypeOK, Labels, Links, Active
<1>2. Sole'
  BY DEF IInv, TypeOK, Sole, Solo, Active, Links
<1>3. Links'
  BY DEF IInv, TypeOK, Links, Active
<1>4. Progress'
  BY DEF IInv, TypeOK, Sole, Solo, Links, Progress, Clean, Active
<1>5. Copies'
  BY DEF IInv, TypeOK, Sole, Solo, Links, Copies, Active
<1>6. Whole'
  BY DEF IInv, TypeOK, Sole, Solo, Links, Whole, Active
<1>. QED  BY <1>1, <1>2, <1>3, <1>4, <1>5, <1>6 DEF IInv

(* There is nothing to copy yet, so the copy in &tags is missing too. *)
LEMMA GenerateInv == ASSUME IInv, NEW k \in Instances, Generate(k) PROVE IInv'
<1>. USE DEF Generate, Goto
<1>1. TypeOK'
  BY DEF IInv, TypeOK, Labels, Links, Active
<1>2. Sole'
  BY DEF IInv, TypeOK, Sole, Solo, Active, Links
<1>3. Links'
  BY DEF IInv, TypeOK, Links, Active
<1>4. Progress'
  BY DEF IInv, TypeOK, Sole, Solo, Links, Progress, Clean, Active
<1>5. Copies'
  BY DEF IInv, TypeOK, Sole, Solo, Links, Copies, Active
<1>6. Whole'
  BY DEF IInv, TypeOK, Sole, Solo, Links, Whole, Active
<1>. QED  BY <1>1, <1>2, <1>3, <1>4, <1>5, <1>6 DEF IInv

(* Nothing is highlighted, and there is no copy. *)
LEMMA NoTagFilesInv == ASSUME IInv, NEW k \in Instances, NoTagFiles(k) PROVE IInv'
<1>. USE DEF NoTagFiles, Goto
<1>1. TypeOK'
  BY DEF IInv, TypeOK, Labels, Links, Active
<1>2. Sole'
  BY DEF IInv, TypeOK, Sole, Solo, Active, Links
<1>3. Links'
  BY DEF IInv, TypeOK, Links, Active
<1>4. Progress'
  BY DEF IInv, TypeOK, Sole, Solo, Links, Progress, Clean, Active
<1>5. Copies'
  BY DEF IInv, TypeOK, Sole, Solo, Links, Copies, Active
<1>6. Whole'
  BY DEF IInv, TypeOK, Sole, Solo, Links, Whole, Active
<1>. QED  BY <1>1, <1>2, <1>3, <1>4, <1>5, <1>6 DEF IInv

(* The copy is made of the file that is read next. *)
LEMMA CopyInv == ASSUME IInv, NEW k \in Instances, Copy(k) PROVE IInv'
<1>. USE DEF Copy, CopyInto, Goto
<1>1. TypeOK'
  BY DEF IInv, TypeOK, Labels, Links, Active
<1>2. Sole'
  BY DEF IInv, TypeOK, Sole, Solo, Active, Links
<1>3. Links'
  BY DEF IInv, TypeOK, Links, Active
<1>4. Progress'
  BY DEF IInv, TypeOK, Sole, Solo, Links, Progress, Clean, Active
<1>5. Copies'
  BY DEF IInv, TypeOK, Sole, Solo, Links, Copies, Active
<1>6. Whole'
  BY DEF IInv, TypeOK, Sole, Solo, Links, Whole, Active
<1>. QED  BY <1>1, <1>2, <1>3, <1>4, <1>5, <1>6 DEF IInv

(* What is highlighted is what the copy was made of. *)
LEMMA ReadInv == ASSUME IInv, NEW k \in Instances, Read(k) PROVE IInv'
<1>. USE DEF Read, Goto
<1>1. TypeOK'
  BY DEF IInv, TypeOK, Labels, Links, Active
<1>2. Sole'
  BY DEF IInv, TypeOK, Sole, Solo, Active, Links
<1>3. Links'
  BY DEF IInv, TypeOK, Links, Active
<1>4. Progress'
  BY DEF IInv, TypeOK, Sole, Solo, Links, Progress, Clean, Active
<1>5. Copies'
  BY DEF IInv, TypeOK, Sole, Solo, Links, Copies, Active
<1>6. Whole'
  BY DEF IInv, TypeOK, Sole, Solo, Links, Whole, Active
<1>. QED  BY <1>1, <1>2, <1>3, <1>4, <1>5, <1>6 DEF IInv

(* Only a torn file ends an update, and it is another one that tears it. *)
LEMMA EndOfFileInv == ASSUME IInv, NEW k \in Instances, EndOfFile(k) PROVE IInv'
<1>. USE DEF EndOfFile, Goto
<1>1. TypeOK'
  BY DEF IInv, TypeOK, Labels, Links, Active
<1>2. Sole'
  BY DEF IInv, TypeOK, Sole, Solo, Active, Links
<1>3. Links'
  BY DEF IInv, TypeOK, Links, Active
<1>4. Progress'
  BY DEF IInv, TypeOK, Sole, Solo, Links, Progress, Clean, Active
<1>5. Copies'
  BY DEF IInv, TypeOK, Sole, Solo, Links, Copies, Active
<1>6. Whole'
  BY DEF IInv, TypeOK, Sole, Solo, Links, Whole, Active
<1>. QED  BY <1>1, <1>2, <1>3, <1>4, <1>5, <1>6 DEF IInv

(* A file that cannot be read is a disturbance. *)
LEMMA UnreadableInv == ASSUME IInv, NEW k \in Instances, Unreadable(k) PROVE IInv'
<1>. USE DEF Unreadable, Goto, Disregard, Disregarded, Disturb
<1>1. TypeOK'
  BY DEF IInv, TypeOK, Labels, Links, Active
<1>2. Sole'
  BY DEF IInv, TypeOK, Sole, Solo, Active, Links
<1>3. Links'
  BY DEF IInv, TypeOK, Links, Active
<1>4. Progress'
  BY DEF IInv, TypeOK, Sole, Solo, Links, Progress, Clean, Active
<1>5. Copies'
  BY DEF IInv, TypeOK, Sole, Solo, Links, Copies, Active
<1>6. Whole'
  BY DEF IInv, TypeOK, Sole, Solo, Links, Whole, Active
<1>. QED  BY <1>1, <1>2, <1>3, <1>4, <1>5, <1>6 DEF IInv

(* A new nvim has no copy, highlights nothing, and has no clean update. *)
LEMMA RestartInv == ASSUME IInv, NEW k \in Instances, Restart(k) PROVE IInv'
<1>. USE DEF Restart, Goto, Disturb, Disregard, Disregarded
<1>1. TypeOK'
  BY DEF IInv, TypeOK, Labels, Links, Active
<1>2. Sole'
  BY DEF IInv, TypeOK, Sole, Solo, Active, Links
<1>3. Links'
  BY DEF IInv, TypeOK, Sole, Solo, Links, Active
<1>4. Progress'
  BY DEF IInv, TypeOK, Sole, Solo, Links, Progress, Clean, Active
<1>5. Copies'
  BY DEF IInv, TypeOK, Sole, Solo, Links, Copies, Active
<1>6. Whole'
  BY DEF IInv, TypeOK, Sole, Solo, Links, Whole, Active
<1>. QED  BY <1>1, <1>2, <1>3, <1>4, <1>5, <1>6 DEF IInv

(* An update that begins beside another one is disregarded, and so is that. *)
LEMMA StartInv ==
  ASSUME IInv, NEW k \in Instances, NEW force \in BOOLEAN, Start(k, force)
  PROVE  IInv'
<1>. USE DEF Start, Overlap, Goto, Disturb, Began, Disregarded
<1>1. TypeOK'
  BY DEF IInv, TypeOK, Labels
<1>2. Sole'
  BY DEF IInv, TypeOK, Sole, Solo, Active
<1>3. Links'
  BY DEF IInv, TypeOK, Links, Active
<1>4. Progress'
  BY DEF IInv, TypeOK, Progress, Clean, Active
<1>5. Copies'
  BY DEF IInv, TypeOK, Copies, Active
<1>6. Whole'
  BY DEF IInv, TypeOK, Whole, Active
<1>. QED  BY <1>1, <1>2, <1>3, <1>4, <1>5, <1>6 DEF IInv

(* The sources get newer; an orphan disturbs no clean update. *)
LEMMA OthersInv ==
  ASSUME IInv, Save \/ OrphanEnds \/ UNCHANGED vars
  PROVE  IInv'
<1>. USE DEF Save, OrphanEnds, vars
<1>1. TypeOK'
  BY DEF IInv, TypeOK
<1>2. Sole' /\ Links'
  BY DEF IInv, TypeOK, Sole, Solo, Active, Links
<1>3. Progress'
  <2>1. CASE Save
    BY <2>1 DEF IInv, TypeOK, Progress, Clean, Active
  <2>2. CASE OrphanEnds
    <3>1. \A i \in Instances : Clean(i) => ~ Active(i)
      BY <2>2 DEF IInv, TypeOK, Links, Clean
    <3>. QED  BY <2>2, <3>1 DEF IInv, TypeOK, Progress, Clean, Active
  <2>3. CASE UNCHANGED vars
    BY <2>3 DEF IInv, Progress, Clean, Active
  <2>. QED  BY <2>1, <2>2, <2>3
<1>4. Copies'
  BY DEF IInv, TypeOK, Links, Copies, Active
<1>5. Whole'
  BY DEF IInv, TypeOK, Whole
<1>. QED  BY <1>1, <1>2, <1>3, <1>4, <1>5 DEF IInv

LEMMA NextInv == IInv /\ [Next]_vars => IInv'
  BY StartInv, SpawnInv, SpawnFailsInv, CtagsEndsInv, CtagsBreaksInv, TimeoutInv,
     NoTagFileInv, TruncateInv, WriteInv, WriteFailsInv, CopyTagsInv, CopyFailsInv,
     UnlinkInv, UnlinkFailsInv, GenerateInv, NoTagFilesInv, CopyInv, ReadInv,
     EndOfFileInv, UnreadableInv, RestartInv, OthersInv
  DEF Next

(* Every reachable state satisfies the inductive invariant. *)
LEMMA Inductive == Spec => []IInv
  BY InitInv, NextInv, PTL DEF Spec

-----------------------------------------------------------------------------
(***************************************************************************)
(* Type correctness, for any number of instances (neotags.py:635-688).     *)
(***************************************************************************)
THEOREM TypeCorrect == Spec => []TypeOK
  BY Inductive, PTL DEF IInv

(***************************************************************************)
(* A forced update that no other process interferes with, whose ctags ends *)
(* and whose files can be written, shows tags of its own time, whatever    *)
(* files it finds (neotags.py:183-186).                                    *)
(***************************************************************************)
THEOREM SavingRepairs == Spec => []ForcedFresh
<1>1. IInv => ForcedFresh
  BY DEF IInv, Progress, Clean, Active, ForcedFresh
<1>. QED  BY <1>1, Inductive, PTL

(***************************************************************************)
(* After an update that no other process interferes with and in which no   *)
(* write fails, the copy in &tags is what is highlighted, unless it never  *)
(* got into &tags (neotags.py:379, 660-664).                               *)
(***************************************************************************)
THEOREM CopyMatches == Spec => []JumpsMatch
<1>1. IInv => JumpsMatch
  BY DEF IInv, Copies, JumpsMatch
<1>. QED  BY <1>1, Inductive, PTL

(***************************************************************************)
(* While no two updates overlap, no nvim is killed, no ctags fails or is   *)
(* left alone, and the compressed file can be written and read, timeouts   *)
(* leave nothing behind that kills an update or gets into the compressed   *)
(* file (neotags.py:657-666, 677-685).                                     *)
(***************************************************************************)
THEOREM TimeoutsHarmless == Spec => []Undisturbed
<1>1. IInv => Undisturbed
  BY DEF IInv, Whole, Undisturbed
<1>. QED  BY <1>1, Inductive, PTL

=============================================================================
