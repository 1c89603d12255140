--------------------------- MODULE InstallerProofs ---------------------------
(***************************************************************************)
(* Proofs about Installer, for any number of attempts, mirrors and data    *)
(* files: the finish page is earned, one download and one payload are      *)
(* alive at a time, a cancelled installation starts no payload, and the    *)
(* import loses no file of the user but one that it cannot set aside.      *)
(***************************************************************************)
EXTENDS Installer, FiniteSetTheorems, SequenceTheorems, TLAPS

Before == {"call", "connect", "stream", "check", "verify", "run"}
After == {"backup", "copy", "finish"}
Pcs == {"idle", "over", "poll", "wait"} \cup Before \cup After
Dirs == {"placeholder", "default", "picked", " picked", "relative"}
Attempt == [pc : Pcs, urls : Nat, dir : Dirs, real : BOOLEAN, import : BOOLEAN, file : Nat]

TypeOK ==
  /\ att \in [Attempts -> Attempt] /\ dir \in Dirs
  /\ tauri \in BOOLEAN /\ source \in BOOLEAN /\ cancelled \in BOOLEAN
  /\ payload \in {"none", "good", "bad"}
  /\ proc \in [Attempts -> {"none", "running", "zero", "failed"}]
  /\ ran \in [Attempts -> {"none", "good", "bad"}]
  /\ data \in [Names -> {"none", "old", "new"}]
  /\ bak \in [Attempts -> [Names -> {"none", "old", "new"}]]

Busy(a) == Live(a) \/ proc[a] = "running"
(* Part of the user's files are moved away.                                *)
Mid(a) == att[a].pc = "copy" \/ (att[a].pc = "backup" /\ att[a].file > 1)

(* What the place of an attempt says of its payload's process.             *)
ProcInv == \A a \in Attempts :
  /\ att[a].pc \in Before \cup {"idle"} => proc[a] = "none"
  /\ att[a].pc \in After => proc[a] = "zero"
  /\ att[a].pc \in After \cup {"poll", "wait"} => IsAbsolute(att[a].dir)
  /\ proc[a] = "zero" => att[a].dir \in okFile
  /\ Live(a) \/ proc[a] # "none" => tauri
PreviewInv == tauri => mock = "off"

(* Unless two attempts overlapped, one is alive, and none once it is over. *)
LoneInv == ~spoiled =>
  /\ \A a, b \in Attempts : Busy(a) /\ Busy(b) => a = b
  /\ page = "finish" => \A a \in Attempts : ~Live(a)

(* Until a cancellation or a payload that overruns its time, the page is   *)
(* held by the attempt.                                                    *)
PageInv == ~excused =>
  /\ ~spoiled /\ cancelling = "no"
  /\ \A a \in Attempts :
       /\ Live(a) => page = "progress" /\ phase \in Active /\ dir = Trim(att[a].dir)
       /\ proc[a] = "running" => Live(a) \/ page = "closed"
       /\ ran[a] # "bad"
       /\ att[a].pc = "run" => payload = "good"

(* Past its check, an attempt can no longer be cancelled.                  *)
CancelInv == ~spoiled => \A a \in Attempts :
  att[a].pc \in {"verify", "run"} => ~cancelled /\ phase # "download"

(* One import at a time is under way.  It has replaced the files before    *)
(* the current one, and has no backup yet of those that follow.            *)
Placed(a) ==
  /\ att[a].pc = "idle" => att[a].file = 0
  /\ att[a].pc \in Before \cup {"poll", "wait"} => att[a].file = 1
  /\ att[a].pc \in {"backup", "copy"} => att[a].file \in 1 .. Len(Files)
Ahead(a) == att[a].pc # "over" => \A i \in 1 .. Len(Files) :
  i > att[a].file \/ (i = att[a].file /\ att[a].pc # "copy") => bak[a][Files[i]] = "none"
Behind(a) ==
  /\ Mid(a) => \A i \in 1 .. Len(Files) : i < att[a].file => data[Files[i]] = "new"
  /\ att[a].pc = "copy" => data[Files[att[a].file]] = "none"
AllNew(a) == ~spoiled /\ att[a].pc = "finish" /\ att[a].import => \A f \in Names : data[f] = "new"
FilesInv ==
  /\ \A a \in Attempts : Placed(a) /\ Ahead(a) /\ Behind(a) /\ AllNew(a)
  /\ \A a, b \in Attempts : Mid(a) /\ Mid(b) => a = b

Inv == /\ TypeOK /\ ProcInv /\ PreviewInv /\ LoneInv /\ PageInv /\ CancelInv /\ FilesInv
       /\ FinishIsEarned /\ OldDataSurvives

-----------------------------------------------------------------------------
(* What a step of an attempt does.                                         *)

Goes(a, from, to) ==
  /\ att[a].pc = from /\ att'[a].pc = to
  /\ att'[a].dir = att[a].dir /\ att'[a].import = att[a].import
Falls(a) ==
  /\ Live(a) /\ att[a].pc \notin {"call", "finish"} /\ att'[a].pc = "over"
  /\ att[a].pc = "wait" => proc[a] # "running"
  /\ att[a].pc = "poll" => excused'
  /\ att'[a].dir = att[a].dir /\ ~att'[a].import
  /\ phase' = "error" /\ page' = page
(* The steps that touch neither the disk nor the process.                  *)
Works(a) ==
  \/ Falls(a) /\ payload' = payload
  \/ UNCHANGED <<ui, payload>> /\ (\/ Goes(a, "call", "connect") \/ Goes(a, "connect", "call")
                                   \/ Goes(a, "stream", "call") \/ Goes(a, "connect", "stream")
                                   \/ Goes(a, "poll", "wait"))
  \/ Goes(a, "stream", "check") /\ UNCHANGED ui
  \/ Goes(a, "check", "verify") /\ ~cancelled /\ phase' = "verify" /\ UNCHANGED <<page, payload>>
  \/ Goes(a, "verify", "run") /\ payload = "good" /\ phase' = "install" /\ UNCHANGED <<page, payload>>
  \/ /\ proc[a] = "zero" /\ UNCHANGED <<ui, payload>>
     /\ (att[a].import /\ Goes(a, "wait", "backup")) \/ (~att[a].import /\ Goes(a, "wait", "finish"))
  \/ Goes(a, "finish", "over") /\ page' = "finish" /\ phase' = "done" /\ payload' = payload
Launches(a) ==
  /\ Goes(a, "run", "poll") /\ IsAbsolute(att[a].dir)
  /\ proc' = [proc EXCEPT ![a] = "running"] /\ ran' = [ran EXCEPT ![a] = payload]
  /\ UNCHANGED <<ui, payload>>

Working(a) == \/ CallDownload(a) \/ Connected(a) \/ Downloaded(a) \/ DownloadFails(a)
              \/ CheckCancelled(a) \/ Verified(a) \/ RunPayload(a)
              \/ PollFinds(a) \/ PollTimesOut(a) \/ InstallSettles(a) \/ Finish(a)

(* The steps of an import, with the file they are about.                   *)
Now(a) == Files[att[a].file]
SetsAside(a) ==
  /\ Goes(a, "backup", "copy") /\ att'[a].file = att[a].file /\ UNCHANGED <<ui, unsaved>>
  /\ data'[Now(a)] = "none" /\ bak'[a][Now(a)] = data[Now(a)]
  /\ \A f \in Names \ {Now(a)} : data'[f] = data[f] /\ bak'[a][f] = bak[a][f]
Copies(a) ==
  /\ Goes(a, "copy", IF att[a].file = Len(Files) THEN "finish" ELSE "backup")
  /\ att'[a].file = att[a].file + 1 /\ UNCHANGED <<ui, bak, unsaved>>
  /\ data'[Now(a)] = "new" /\ \A f \in Names \ {Now(a)} : data'[f] = data[f]
Blames(a) ==
  /\ att[a].pc = "backup" => unsaved' = unsaved \cup {Now(a)}
  /\ att[a].pc = "copy" => unsaved' = unsaved
Touched(a) == {Files[i] : i \in 1 .. att[a].file}
RollsBack(a) ==
  /\ Falls(a) /\ att[a].pc \in {"backup", "copy"}
  /\ Blames(a)
  /\ \A f \in Names : \/ data'[f] = data[f] /\ bak'[a][f] = bak[a][f]
                      \/ f \in Touched(a) /\ data'[f] = "none" /\ bak'[a][f] = bak[a][f]
                      \/ f \in Touched(a) /\ data'[f] = bak[a][f] /\ bak'[a][f] = "none"

LEMMA Records ==
  ASSUME NEW x \in Attempt, NEW p \in Pcs
  PROVE  /\ LET r == [x EXCEPT !.pc = p] IN
              r \in Attempt /\ r.pc = p /\ r.dir = x.dir /\ r.import = x.import /\ r.file = x.file
         /\ LET r == [x EXCEPT !.file = @ + 1, !.pc = p] IN
              r \in Attempt /\ r.pc = p /\ r.dir = x.dir /\ r.import = x.import /\ r.file = x.file + 1
         /\ x.urls > 1 => LET r == [x EXCEPT !.urls = @ - 1, !.pc = p] IN
              r \in Attempt /\ r.pc = p /\ r.dir = x.dir /\ r.import = x.import /\ r.file = x.file
<1>1. x.file + 1 \in Nat /\ (x.urls > 1 => x.urls - 1 \in Nat)
  BY DEF Attempt
<1>2. LET r == [x EXCEPT !.pc = p] IN
        r \in Attempt /\ r.pc = p /\ r.dir = x.dir /\ r.import = x.import /\ r.file = x.file
  BY DEF Attempt
<1>3. LET r == [x EXCEPT !.file = @ + 1, !.pc = p] IN
        r.pc = p /\ r.dir = x.dir /\ r.import = x.import /\ r.file = x.file + 1
  BY DEF Attempt
<1>4. LET r == [x EXCEPT !.file = @ + 1, !.pc = p] IN r \in Attempt
  BY <1>1 DEF Attempt
<1>5. x.urls > 1 => LET r == [x EXCEPT !.urls = @ - 1, !.pc = p] IN
        r \in Attempt /\ r.pc = p /\ r.dir = x.dir /\ r.import = x.import /\ r.file = x.file
  BY <1>1 DEF Attempt
<1> QED BY <1>2, <1>3, <1>4, <1>5

LEMMA Sets ==
  ASSUME TypeOK, NEW a \in Attempts, NEW r \in Attempt, att' = [att EXCEPT ![a] = r]
  PROVE  att' \in [Attempts -> Attempt] /\ att'[a] = r /\ \A b \in Attempts \ {a} : att'[b] = att[b]
BY DEF TypeOK

LEMMA SetPc ==
  ASSUME TypeOK, NEW a \in Attempts, NEW p \in Pcs, att' = [att EXCEPT ![a].pc = p]
  PROVE  /\ att' \in [Attempts -> Attempt]
         /\ Goes(a, att[a].pc, p) /\ att'[a].file = att[a].file
         /\ \A b \in Attempts \ {a} : att'[b] = att[b]
<1> DEFINE r == [att[a] EXCEPT !.pc = p]
<1>1. att[a] \in Attempt
  BY DEF TypeOK
<1>2. r \in Attempt /\ r.pc = p /\ r.dir = att[a].dir /\ r.import = att[a].import /\ r.file = att[a].file
  BY <1>1, Records
<1>3. att' = [att EXCEPT ![a] = r]
  OBVIOUS
<1> HIDE DEF r
<1> QED BY <1>2, <1>3, Sets DEF Goes

LEMMA OverTyped ==
  ASSUME TypeOK, NEW a \in Attempts
  PROVE  Over(a) \in Attempt /\ Over(a).pc = "over" /\ Over(a).dir = att[a].dir /\ Over(a).import = att[a].import
BY DEF TypeOK, Attempt, Over, Idle, Pcs

LEMMA FailMoves ==
  ASSUME TypeOK, NEW a \in Attempts, Fail(a)
  PROVE  /\ att' \in [Attempts -> Attempt]
         /\ att'[a].pc = "over" /\ att'[a].dir = att[a].dir /\ ~att'[a].import
         /\ \A b \in Attempts \ {a} : att'[b] = att[b]
         /\ phase' = "error" /\ page' = page
<1> DEFINE r == [Over(a) EXCEPT !.import = FALSE]
<1>1. r \in Attempt /\ r.pc = "over" /\ r.dir = att[a].dir /\ ~r.import
  BY OverTyped DEF Attempt
<1>2. att' = [att EXCEPT ![a] = r] /\ phase' = "error" /\ page' = page
  BY DEF Fail
<1> HIDE DEF r
<1> QED BY <1>1, <1>2, Sets

LEMMA NextUrlMoves ==
  ASSUME TypeOK, NEW a \in Attempts, NextUrl(a)
  PROVE  \/ Fail(a)
         \/ /\ att' \in [Attempts -> Attempt] /\ UNCHANGED ui
            /\ Goes(a, att[a].pc, "call") /\ att'[a].file = att[a].file
            /\ \A b \in Attempts \ {a} : att'[b] = att[b]
<1> DEFINE r == [att[a] EXCEPT !.urls = @ - 1, !.pc = "call"]
<1>1. CASE att[a].urls > 1
  <2>1. att[a] \in Attempt /\ "call" \in Pcs
    BY DEF TypeOK, Pcs, Before
  <2>2. r \in Attempt /\ r.pc = "call" /\ r.dir = att[a].dir /\ r.import = att[a].import /\ r.file = att[a].file
    BY <1>1, <2>1, Records
  <2>3. att' = [att EXCEPT ![a] = r] /\ UNCHANGED ui
    BY <1>1 DEF NextUrl
  <2> HIDE DEF r
  <2> QED BY <2>2, <2>3, Sets DEF Goes
<1>2. CASE ~(att[a].urls > 1)
  BY <1>2 DEF NextUrl
<1> QED BY <1>1, <1>2

LEMMA WorkingFrame ==
  ASSUME TypeOK, NEW a \in Attempts, Working(a)
  PROVE  /\ UNCHANGED <<tauri, dir, manifest, source, cancelled, boot, mock, cancelling, okFile, disk, spoiled>>
         /\ excused => excused'
         /\ Live(a) /\ (\A b \in Attempts \ {a} : proc'[b] = proc[b] /\ ran'[b] = ran[b])
         /\ payload' \in {"none", "good", "bad"}
<1>1. UNCHANGED <<tauri, dir, manifest, source, cancelled, boot, mock, cancelling, okFile, disk, spoiled>>
      /\ (excused => excused') /\ Live(a)
  BY DEF Working, CallDownload, Connected, Downloaded, DownloadFails, CheckCancelled, Verified, RunPayload,
     PollFinds, PollTimesOut, InstallSettles, Finish, rust, disk, Live
<1>2. \A b \in Attempts \ {a} : proc'[b] = proc[b] /\ ran'[b] = ran[b]
  BY DEF Working, CallDownload, Connected, Downloaded, DownloadFails, CheckCancelled, Verified, RunPayload,
     PollFinds, PollTimesOut, InstallSettles, Finish, rust, TypeOK
<1>3. payload' \in {"none", "good", "bad"}
  BY DEF Working, CallDownload, Connected, Downloaded, DownloadFails, CheckCancelled, Verified, RunPayload,
     PollFinds, PollTimesOut, InstallSettles, Finish, rust, TypeOK
<1> QED BY <1>1, <1>2, <1>3

LEMMA Worked ==
  ASSUME TypeOK, NEW a \in Attempts, Working(a)
  PROVE  /\ att' \in [Attempts -> Attempt]
         /\ \A b \in Attempts \ {a} : att'[b] = att[b]
         /\ att'[a].file = att[a].file \/ att'[a].pc = "over"
         /\ Launches(a) \/ (Works(a) /\ UNCHANGED <<proc, ran>>)
<1>1. {"call", "connect", "stream", "check", "verify", "run", "poll", "wait", "backup", "finish"} \subseteq Pcs
  BY DEF Pcs, Before, After
<1>2. CASE DownloadFails(a)
  <2>1. NextUrl(a) /\ att[a].pc \in {"connect", "stream"} /\ UNCHANGED <<proc, ran, payload>>
    BY <1>2 DEF DownloadFails
  <2>2. CASE Fail(a)
    BY <2>1, <2>2, FailMoves DEF Works, Falls, Live
  <2>3. CASE ~Fail(a)
    BY <2>1, <2>3, NextUrlMoves DEF Works, Goes
  <2> QED BY <2>2, <2>3
<1>3. CASE CallDownload(a)
  <2>1. att[a].pc = "call" /\ att' = [att EXCEPT ![a].pc = "connect"] /\ UNCHANGED <<ui, proc, ran, payload>>
    BY <1>3 DEF CallDownload
  <2> QED BY <1>1, <2>1, SetPc DEF Works
<1>4. CASE Connected(a) \/ PollFinds(a)
  <2>1. /\ UNCHANGED <<ui, proc, ran, payload>>
        /\ \/ att[a].pc = "connect" /\ att' = [att EXCEPT ![a].pc = "stream"]
           \/ att[a].pc = "poll" /\ att' = [att EXCEPT ![a].pc = "wait"]
    BY <1>4 DEF Connected, PollFinds, rust
  <2> QED BY <1>1, <2>1, SetPc DEF Works
<1>5. CASE Downloaded(a)
  <2>1. att[a].pc = "stream" /\ att' = [att EXCEPT ![a].pc = "check"] /\ UNCHANGED <<ui, proc, ran>>
    BY <1>5 DEF Downloaded
  <2>2. /\ att' \in [Attempts -> Attempt] /\ Goes(a, "stream", "check") /\ att'[a].file = att[a].file
        /\ \A b \in Attempts \ {a} : att'[b] = att[b]
    <3>1. "check" \in Pcs
      BY <1>1
    <3> QED BY <2>1, <3>1, SetPc DEF Goes
  <2> QED BY <2>1, <2>2 DEF Works
<1>6. CASE CheckCancelled(a) \/ Verified(a)
  <2>1. /\ UNCHANGED <<proc, ran, payload>> /\ att[a].pc \in {"check", "verify"}
        /\ \/ Fail(a)
           \/ /\ att[a].pc = "check" /\ att' = [att EXCEPT ![a].pc = "verify"]
              /\ ~cancelled /\ phase' = "verify" /\ page' = page
           \/ /\ att[a].pc = "verify" /\ att' = [att EXCEPT ![a].pc = "run"]
              /\ payload = "good" /\ phase' = "install" /\ page' = page
    BY <1>6 DEF CheckCancelled, Verified, rust
  <2>2. CASE Fail(a)
    BY <2>1, <2>2, FailMoves DEF Works, Falls, Live
  <2>3. CASE ~Fail(a)
    BY <1>1, <2>1, <2>3, SetPc DEF Works
  <2> QED BY <2>2, <2>3
<1>7. CASE RunPayload(a) \/ PollTimesOut(a)
  <2>1. \/ Fail(a) /\ UNCHANGED <<proc, ran, payload>>
        \/ /\ att[a].pc = "run" /\ att' = [att EXCEPT ![a].pc = "poll"] /\ IsAbsolute(att[a].dir)
           /\ proc' = [proc EXCEPT ![a] = "running"] /\ ran' = [ran EXCEPT ![a] = payload]
           /\ UNCHANGED <<ui, payload>>
    BY <1>7 DEF RunPayload, PollTimesOut, rust
  <2>2. CASE Fail(a) /\ UNCHANGED <<proc, ran, payload>>
    <3>1. att[a].pc \in {"run", "poll"} /\ (att[a].pc = "poll" => excused')
      BY <1>7 DEF RunPayload, PollTimesOut
    <3> QED BY <2>2, <3>1, FailMoves DEF Works, Falls, Live
  <2>3. CASE ~(Fail(a) /\ UNCHANGED <<proc, ran, payload>>)
    BY <1>1, <2>1, <2>3, SetPc DEF Launches
  <2> QED BY <2>2, <2>3
<1>8. CASE InstallSettles(a)
  <2>1. UNCHANGED <<proc, ran, payload>> /\ att[a].pc = "wait" /\ proc[a] # "running"
    BY <1>8 DEF InstallSettles, rust
  <2>2. CASE proc[a] # "zero"
    BY <1>8, <2>1, <2>2, FailMoves DEF InstallSettles, Works, Falls, Live
  <2>3. CASE proc[a] = "zero"
    <3>1. UNCHANGED ui /\ att' = [att EXCEPT ![a].pc = IF att[a].import THEN "backup" ELSE "finish"]
      BY <1>8, <2>3 DEF InstallSettles
    <3>2. CASE att[a].import
      <4>1. att' = [att EXCEPT ![a].pc = "backup"]
        BY <3>1, <3>2
      <4> QED BY <1>1, <2>1, <2>3, <3>1, <3>2, <4>1, SetPc DEF Works
    <3>3. CASE ~att[a].import
      <4>1. att' = [att EXCEPT ![a].pc = "finish"]
        BY <3>1, <3>3
      <4> QED BY <1>1, <2>1, <2>3, <3>1, <3>3, <4>1, SetPc DEF Works
    <3> QED BY <3>2, <3>3
  <2> QED BY <2>2, <2>3
<1>9. CASE Finish(a)
  <2>1. /\ att[a].pc = "finish" /\ att' = [att EXCEPT ![a] = Over(a)] /\ phase' = "done" /\ page' = "finish"
        /\ UNCHANGED <<proc, ran, payload>>
    BY <1>9 DEF Finish, rust
  <2>2. att' \in [Attempts -> Attempt] /\ att'[a] = Over(a) /\ \A b \in Attempts \ {a} : att'[b] = att[b]
    BY <2>1, OverTyped, Sets
  <2> QED BY <2>1, <2>2, OverTyped DEF Works, Goes
<1> QED BY <1>2, <1>3, <1>4, <1>5, <1>6, <1>7, <1>8, <1>9 DEF Working

LEMMA NowIsAName ==
  ASSUME NEW a \in Attempts, Placed(a), att[a].pc \in {"backup", "copy"}
  PROVE  Now(a) \in Names /\ att[a].file \in 1 .. Len(Files) /\ Len(Files) \in Nat
BY ConstantsAssumption, LenProperties DEF Placed, Now, Names

LEMMA Imported ==
  ASSUME TypeOK, NEW a \in Attempts, Placed(a), ImportBackup(a) \/ ImportCopy(a)
  PROVE  /\ att' \in [Attempts -> Attempt] /\ Importing(a) /\ Live(a) /\ proc[a] = proc'[a]
         /\ \A b \in Attempts \ {a} : att'[b] = att[b] /\ bak'[b] = bak[b]
         /\ UNCHANGED <<tauri, dir, manifest, source, cancelled, boot, mock, cancelling, rust, spoiled, excused>>
         /\ data' \in [Names -> {"none", "old", "new"}]
         /\ bak' \in [Attempts -> [Names -> {"none", "old", "new"}]]
         /\ SetsAside(a) \/ Copies(a) \/ RollsBack(a)
<1>1. /\ UNCHANGED <<tauri, dir, manifest, source, cancelled, boot, mock, cancelling, rust, spoiled, excused>>
      /\ Importing(a) /\ att[a].pc \in {"backup", "copy"} /\ Live(a)
  BY DEF ImportBackup, ImportCopy, Live
<1>2. /\ {"copy", "backup", "finish"} \subseteq Pcs /\ Now(a) \in Names /\ data[Now(a)] \in {"none", "old", "new"}
      /\ att[a].file \in 1 .. Len(Files) /\ Len(Files) \in Nat /\ att[a] \in Attempt
      /\ data \in [Names -> {"none", "old", "new"}] /\ bak \in [Attempts -> [Names -> {"none", "old", "new"}]]
      /\ bak[a] \in [Names -> {"none", "old", "new"}]
  BY <1>1, NowIsAName DEF Pcs, After, TypeOK
<1>3. ASSUME Rollback(a), Fail(a), Blames(a)
      PROVE  /\ RollsBack(a) /\ data' \in [Names -> {"none", "old", "new"}]
             /\ bak' \in [Attempts -> [Names -> {"none", "old", "new"}]]
             /\ att' \in [Attempts -> Attempt] /\ \A b \in Attempts \ {a} : att'[b] = att[b] /\ bak'[b] = bak[b]
  <2>1. Falls(a) /\ att' \in [Attempts -> Attempt] /\ \A b \in Attempts \ {a} : att'[b] = att[b]
    BY <1>1, <1>3, FailMoves DEF Falls
  <2>2. PICK stuck \in SUBSET Touched(a), removed \in SUBSET Touched(a) :
          /\ data' = [f \in Names |-> IF f \notin Touched(a) \/ f \in stuck \ removed THEN data[f]
                                      ELSE IF f \in stuck THEN "none" ELSE bak[a][f]]
          /\ bak' = [bak EXCEPT ![a] = [f \in Names |-> IF f \in Touched(a) \ stuck THEN "none" ELSE bak[a][f]]]
    BY <1>3 DEF Rollback, Touched
  <2>3. /\ data' \in [Names -> {"none", "old", "new"}]
        /\ bak' \in [Attempts -> [Names -> {"none", "old", "new"}]]
        /\ \A b \in Attempts \ {a} : bak'[b] = bak[b]
    BY <1>2, <2>2
  <2>4. \A f \in Names : \/ data'[f] = data[f] /\ bak'[a][f] = bak[a][f]
                         \/ f \in Touched(a) /\ data'[f] = "none" /\ bak'[a][f] = bak[a][f]
                         \/ f \in Touched(a) /\ data'[f] = bak[a][f] /\ bak'[a][f] = "none"
    BY <1>2, <2>2
  <2> QED BY <1>1, <1>3, <2>1, <2>3, <2>4 DEF RollsBack
<1>4. CASE ImportBackup(a)
  <2>1. att[a].pc = "backup"
    BY <1>4 DEF ImportBackup
  <2>2. CASE Rollback(a) /\ Fail(a) /\ unsaved' = unsaved \cup {Now(a)}
    BY <1>1, <1>3, <2>1, <2>2 DEF rust, Blames
  <2>3. CASE ~(Rollback(a) /\ Fail(a) /\ unsaved' = unsaved \cup {Now(a)})
    <3>1. /\ data' = [data EXCEPT ![Now(a)] = "none"] /\ bak' = [bak EXCEPT ![a][Now(a)] = data[Now(a)]]
          /\ att' = [att EXCEPT ![a].pc = "copy"] /\ UNCHANGED <<ui, unsaved>>
      BY <1>4, <2>3 DEF ImportBackup, Now
    <3>2. /\ att' \in [Attempts -> Attempt] /\ Goes(a, "backup", "copy") /\ att'[a].file = att[a].file
          /\ \A b \in Attempts \ {a} : att'[b] = att[b]
      <4>1. "copy" \in Pcs
        BY <1>2
      <4> QED BY <2>1, <3>1, <4>1, SetPc DEF Goes
    <3>3. /\ data' \in [Names -> {"none", "old", "new"}] /\ data'[Now(a)] = "none"
          /\ \A f \in Names \ {Now(a)} : data'[f] = data[f]
      BY <1>2, <3>1
    <3>4. /\ bak' \in [Attempts -> [Names -> {"none", "old", "new"}]] /\ bak'[a][Now(a)] = data[Now(a)]
          /\ (\A b \in Attempts \ {a} : bak'[b] = bak[b]) /\ (\A f \in Names \ {Now(a)} : bak'[a][f] = bak[a][f])
      <4> DEFINE r == [bak[a] EXCEPT ![Now(a)] = data[Now(a)]]
      <4>1. /\ r \in [Names -> {"none", "old", "new"}] /\ r[Now(a)] = data[Now(a)]
            /\ \A f \in Names \ {Now(a)} : r[f] = bak[a][f]
        BY <1>2
      <4>2. bak' = [bak EXCEPT ![a] = r]
        BY <3>1
      <4> HIDE DEF r
      <4> QED BY <1>2, <4>1, <4>2
    <3> QED BY <1>1, <3>1, <3>2, <3>3, <3>4 DEF SetsAside, rust
  <2> QED BY <2>2, <2>3
<1>5. CASE ImportCopy(a)
  <2>1. att[a].pc = "copy" /\ unsaved' = unsaved
    BY <1>5 DEF ImportCopy
  <2>2. CASE Rollback(a) /\ Fail(a)
    BY <1>1, <1>3, <2>1, <2>2 DEF rust, Blames
  <2>3. CASE ~(Rollback(a) /\ Fail(a))
    <3> DEFINE p == IF att[a].file = Len(Files) THEN "finish" ELSE "backup"
               r == [att[a] EXCEPT !.file = @ + 1, !.pc = p]
    <3>1. /\ data' = [data EXCEPT ![Now(a)] = "new"] /\ UNCHANGED <<ui, bak>> /\ att' = [att EXCEPT ![a] = r]
      BY <1>5, <2>3 DEF ImportCopy, Now
    <3>2. p \in Pcs
      BY <1>2
    <3>3. r \in Attempt /\ r.pc = p /\ r.dir = att[a].dir /\ r.import = att[a].import /\ r.file = att[a].file + 1
      <4>1. att[a] \in Attempt
        BY <1>2
      <4> HIDE DEF p
      <4> QED BY <3>2, <4>1, Records
    <3>4. /\ att' \in [Attempts -> Attempt] /\ att'[a] = r /\ \A b \in Attempts \ {a} : att'[b] = att[b]
      <4> HIDE DEF r
      <4> QED BY <3>1, <3>3, Sets
    <3>5. Goes(a, "copy", p) /\ att'[a].file = att[a].file + 1
      <4> HIDE DEF r, p
      <4> QED BY <2>1, <3>3, <3>4 DEF Goes
    <3>6. /\ data' \in [Names -> {"none", "old", "new"}] /\ data'[Now(a)] = "new"
          /\ \A f \in Names \ {Now(a)} : data'[f] = data[f]
      BY <1>2, <3>1
    <3>7. Copies(a)
      BY <2>1, <3>1, <3>5, <3>6 DEF Copies
    <3> QED BY <1>1, <1>2, <3>1, <3>4, <3>6, <3>7 DEF rust
  <2> QED BY <2>2, <2>3
<1> QED BY <1>4, <1>5

(* The page's own steps, beginInstall's first part, and the closed window. *)
Outside ==
  \/ Boot \/ Turn \/ ChooseDir \/ PickSource \/ MockTick \/ CancelClick \/ Cancelling \/ UNCHANGED vars
ImportStep(a) == ImportBackup(a) \/ ImportCopy(a)

LEMMA Steps ==
  ASSUME [Next]_vars
  PROVE  \/ Outside \/ Close
         \/ \E a \in Attempts : BeginInstall(a) \/ PayloadEnds(a) \/ Working(a) \/ ImportStep(a)
BY DEF Next, Step, Outside, Working, ImportStep

LEMMA OutsideFrame ==
  ASSUME Outside
  PROVE  /\ UNCHANGED <<tauri, att, payload, proc, ran, okFile, disk, spoiled>>
         /\ excused => excused'
<1>1. UNCHANGED <<tauri, att, payload, proc, ran, okFile, disk, spoiled>>
  BY DEF Outside, Boot, ManifestAnswers, DirAnswers, Turn, ChooseDir, PickSource, MockTick, CancelClick,
     Cancelling, CancelServed, CancelAnswered, rust, vars
<1>2. excused => excused'
  BY DEF Outside, Boot, ManifestAnswers, DirAnswers, Turn, ChooseDir, PickSource, MockTick, CancelClick,
     Cancelling, CancelServed, CancelAnswered, vars
<1> QED BY <1>1, <1>2

LEMMA Begun ==
  ASSUME TypeOK, NEW a \in Attempts, BeginInstall(a)
  PROVE  /\ page = "options" /\ att[a].pc = "idle" /\ page' = "progress" /\ phase' = "download" /\ ~cancelled'
         /\ att' \in [Attempts -> Attempt] /\ \A b \in Attempts \ {a} : att'[b] = att[b]
         /\ tauri => /\ att'[a].pc = "call" /\ att'[a].dir = dir /\ att'[a].import = source /\ att'[a].file = 1
                     /\ mock' = "off"
         /\ ~tauri => att'[a].pc = "over"
         /\ dir' = Trim(dir) /\ spoiled' = (spoiled \/ \E b \in Attempts : Busy(b))
         /\ UNCHANGED <<tauri, source, cancelling, rust, disk, excused>>
<1>1. /\ page = "options" /\ att[a].pc = "idle" /\ page' = "progress" /\ phase' = "download" /\ ~cancelled'
      /\ dir' = Trim(dir) /\ spoiled' = (spoiled \/ \E b \in Attempts : Busy(b))
      /\ UNCHANGED <<tauri, source, cancelling, rust, disk, excused>>
  BY DEF BeginInstall, Offers, OffersWelcome, OffersProgress, OffersFinish, Busy
<1>2. CASE tauri
  <2> DEFINE r == [pc |-> "call", urls |-> UrlCount(manifest), dir |-> dir,
                   real |-> Reachable(manifest), import |-> source, file |-> 1]
  <2>1. UrlCount(manifest) \in Nat /\ Reachable(manifest) \in BOOLEAN
    BY ConstantsAssumption DEF UrlCount, Reachable
  <2>2. r \in Attempt
    BY <2>1 DEF TypeOK, Attempt, Pcs, Before
  <2>3. att' = [att EXCEPT ![a] = r] /\ mock' = "off"
    BY <1>2 DEF BeginInstall
  <2>4. r.pc = "call" /\ r.dir = dir /\ r.import = source /\ r.file = 1
    OBVIOUS
  <2> HIDE DEF r
  <2> QED BY <1>1, <1>2, <2>2, <2>3, <2>4, Sets
<1>3. CASE ~tauri
  <2>1. att' = [att EXCEPT ![a] = Over(a)]
    BY <1>3 DEF BeginInstall
  <2> QED BY <1>1, <1>3, <2>1, OverTyped, Sets
<1> QED BY <1>2, <1>3 DEF TypeOK

LEMMA Closed ==
  ASSUME TypeOK, Close
  PROVE  /\ att' \in [Attempts -> Attempt]
         /\ \A a \in Attempts : att'[a].pc = "over" /\ att'[a].dir = att[a].dir /\ att'[a].import = att[a].import
         /\ page' = "closed" /\ tauri /\ ~cancelled' /\ cancelling' = "no" /\ ~source' /\ dir' = "placeholder"
         /\ UNCHANGED <<tauri, mock, rust, disk, spoiled, excused>>
<1>1. att' = [a \in Attempts |-> Over(a)]
  BY DEF Close
<1>2. \A a \in Attempts : Over(a) \in Attempt /\ Over(a).pc = "over" /\ Over(a).dir = att[a].dir
                          /\ Over(a).import = att[a].import
  BY OverTyped
<1> QED BY <1>1, <1>2 DEF Close

-----------------------------------------------------------------------------
(* Each part of the invariant.                                             *)

LEMMA TypesPreserved == ASSUME TypeOK, FilesInv, [Next]_vars PROVE TypeOK'
<1>1. CASE Outside
  <2>1. UNCHANGED <<tauri, att, payload, proc, ran, data, bak>>
    BY <1>1, OutsideFrame DEF disk
  <2>2. dir' \in Dirs
    BY <1>1 DEF Outside, Boot, ManifestAnswers, DirAnswers, Turn, ChooseDir, PickSource, MockTick, CancelClick,
       Cancelling, CancelServed, CancelAnswered, vars, TypeOK, Dirs
  <2>3. source' \in BOOLEAN /\ cancelled' \in BOOLEAN
    BY <1>1 DEF Outside, Boot, ManifestAnswers, DirAnswers, Turn, ChooseDir, PickSource, MockTick, CancelClick,
       Cancelling, CancelServed, CancelAnswered, vars, TypeOK
  <2> QED BY <2>1, <2>2, <2>3 DEF TypeOK
<1>2. CASE Close
  <2>1. cancelled' \in BOOLEAN /\ source' \in BOOLEAN /\ dir' \in Dirs
    BY <1>2 DEF Close, Dirs
  <2> QED BY <1>2, <2>1, Closed DEF TypeOK, rust, disk
<1>3. ASSUME NEW a \in Attempts, BeginInstall(a) PROVE TypeOK'
  <2>1. dir' \in Dirs /\ cancelled' \in BOOLEAN
    BY <1>3 DEF Trim, TypeOK, BeginInstall, Dirs
  <2> QED BY <1>3, <2>1, Begun DEF TypeOK, rust, disk
<1>4. ASSUME NEW a \in Attempts, PayloadEnds(a) PROVE TypeOK'
  BY <1>4 DEF PayloadEnds, TypeOK, disk
<1>5. ASSUME NEW a \in Attempts, Working(a) PROVE TypeOK'
  <2>1. att' \in [Attempts -> Attempt] /\ payload' \in {"none", "good", "bad"}
        /\ UNCHANGED <<tauri, dir, source, cancelled, data, bak>>
    BY <1>5, Worked, WorkingFrame DEF disk
  <2>2. /\ proc' \in [Attempts -> {"none", "running", "zero", "failed"}]
        /\ ran' \in [Attempts -> {"none", "good", "bad"}]
    <3>1. CASE Launches(a)
      <4>1. /\ proc' = [proc EXCEPT ![a] = "running"] /\ ran' = [ran EXCEPT ![a] = payload]
            /\ payload \in {"none", "good", "bad"}
        BY <3>1 DEF Launches, TypeOK
      <4> QED BY <4>1 DEF TypeOK
    <3>2. CASE UNCHANGED <<proc, ran>>
      BY <3>2 DEF TypeOK
    <3> QED BY <1>5, <3>1, <3>2, Worked
  <2> QED BY <2>1, <2>2 DEF TypeOK
<1>6. ASSUME NEW a \in Attempts, ImportStep(a) PROVE TypeOK'
  BY <1>6, Imported DEF ImportStep, FilesInv, TypeOK, rust
<1> QED BY <1>1, <1>2, <1>3, <1>4, <1>5, <1>6, Steps

LEMMA ProcPreserved == ASSUME TypeOK, ProcInv, FilesInv, [Next]_vars PROVE ProcInv'
<1>1. CASE Outside
  BY <1>1, OutsideFrame DEF ProcInv, Live
<1>2. CASE Close
  BY <1>2, Closed DEF ProcInv, Live, rust, Before, After
<1>3. ASSUME NEW a \in Attempts, BeginInstall(a) PROVE ProcInv'
  <2>1. /\ tauri => att'[a].pc = "call"
        /\ ~tauri => att'[a].pc = "over"
        /\ att[a].pc = "idle" /\ \A b \in Attempts \ {a} : att'[b] = att[b]
        /\ tauri' = tauri /\ proc' = proc /\ okFile' = okFile
    BY <1>3, Begun DEF rust
  <2>2. proc'[a] = "none"
    <3>1. att[a].pc \in Before \cup {"idle"}
      BY <2>1
    <3> QED BY <2>1, <3>1 DEF ProcInv
  <2>3. CASE tauri
    BY <2>1, <2>2, <2>3 DEF ProcInv, Live, Before, After
  <2>4. CASE ~tauri
    BY <2>1, <2>2, <2>4 DEF ProcInv, Live, Before, After
  <2> QED BY <2>3, <2>4
<1>4. ASSUME NEW a \in Attempts, PayloadEnds(a) PROVE ProcInv'
  <2>1. /\ att' = att /\ tauri' = tauri /\ proc[a] = "running" /\ proc'[a] \in {"zero", "failed"}
        /\ \A b \in Attempts \ {a} : proc'[b] = proc[b]
        /\ okFile \subseteq okFile' /\ (proc'[a] = "zero" => att[a].dir \in okFile')
    BY <1>4 DEF PayloadEnds, TypeOK
  <2> QED BY <2>1 DEF ProcInv, Live, Before, After
<1>5. ASSUME NEW a \in Attempts, Working(a) PROVE ProcInv'
  <2>1. /\ \A b \in Attempts \ {a} : att'[b] = att[b] /\ proc'[b] = proc[b]
        /\ UNCHANGED <<tauri, okFile>> /\ Live(a)
    BY <1>5, Worked, WorkingFrame
  <2>2. CASE Launches(a)
    BY <2>1, <2>2 DEF Launches, Goes, ProcInv, TypeOK, Live, Before, After
  <2>3. CASE Works(a) /\ UNCHANGED <<proc, ran>>
    BY <2>1, <2>3 DEF Works, Goes, Falls, ProcInv, Live, Before, After
  <2> QED BY <1>5, <2>2, <2>3, Worked
<1>6. ASSUME NEW a \in Attempts, ImportStep(a) PROVE ProcInv'
  <2>1. /\ \A b \in Attempts \ {a} : att'[b] = att[b]
        /\ UNCHANGED <<tauri, proc, okFile>> /\ Live(a)
        /\ SetsAside(a) \/ Copies(a) \/ RollsBack(a)
    BY <1>6, Imported DEF ImportStep, FilesInv, rust
  <2>2. att[a].pc \in {"backup", "copy"} /\ att'[a].pc \in {"backup", "copy", "finish", "over"}
        /\ att'[a].dir = att[a].dir
    BY <2>1 DEF SetsAside, Copies, RollsBack, Goes, Falls
  <2> QED BY <2>1, <2>2 DEF ProcInv, Live, Before, After
<1> QED BY <1>1, <1>2, <1>3, <1>4, <1>5, <1>6, Steps

LEMMA PreviewPreserved == ASSUME TypeOK, PreviewInv, FilesInv, [Next]_vars PROVE PreviewInv'
<1>1. CASE Outside
  BY <1>1 DEF Outside, Boot, ManifestAnswers, DirAnswers, Turn, ChooseDir, PickSource, MockTick, CancelClick,
     Cancelling, CancelServed, CancelAnswered, vars, PreviewInv
<1>2. CASE Close
  BY <1>2, Closed DEF PreviewInv
<1>3. ASSUME NEW a \in Attempts, BeginInstall(a) PROVE PreviewInv'
  BY <1>3, Begun DEF PreviewInv
<1>4. ASSUME NEW a \in Attempts, PayloadEnds(a) PROVE PreviewInv'
  BY <1>4 DEF PayloadEnds, PreviewInv
<1>5. ASSUME NEW a \in Attempts, Working(a) PROVE PreviewInv'
  BY <1>5, WorkingFrame DEF PreviewInv
<1>6. ASSUME NEW a \in Attempts, ImportStep(a) PROVE PreviewInv'
  BY <1>6, Imported DEF ImportStep, FilesInv, PreviewInv
<1> QED BY <1>1, <1>2, <1>3, <1>4, <1>5, <1>6, Steps

(* An attempt that works on was busy before, and the others are as before. *)
LEMMA BusyOnes ==
  ASSUME TypeOK, ProcInv, FilesInv, NEW a \in Attempts, PayloadEnds(a) \/ Working(a) \/ ImportStep(a)
  PROVE  /\ Busy(a) /\ \A b \in Attempts \ {a} : (Busy(b)' <=> Busy(b)) /\ (Live(b)' <=> Live(b))
         /\ Live(a)' => Live(a)
         /\ spoiled' = spoiled
<1>1. CASE PayloadEnds(a)
  BY <1>1 DEF PayloadEnds, Busy, Live, TypeOK
<1>2. CASE Working(a)
  BY <1>2, Worked, WorkingFrame DEF Busy, Live
<1>3. CASE ImportStep(a)
  BY <1>3, Imported DEF ImportStep, FilesInv, Busy, Live, rust
<1> QED BY <1>1, <1>2, <1>3

LEMMA LonePreserved ==
  ASSUME TypeOK, ProcInv, PreviewInv, LoneInv, FilesInv, [Next]_vars
  PROVE  LoneInv'
<1> SUFFICES ASSUME ~spoiled' PROVE LoneInv'
  BY DEF LoneInv
<1>1. CASE Outside
  <2>1. ~spoiled /\ \A b \in Attempts : (Busy(b)' <=> Busy(b)) /\ (Live(b)' <=> Live(b))
    BY <1>1, OutsideFrame DEF Busy, Live
  <2>2. CASE page' = "finish" => page = "finish"
    BY <2>1, <2>2 DEF LoneInv
  <2>3. CASE page' = "finish" /\ page # "finish"
    <3>1. mock # "off"
      BY <1>1, <2>3 DEF Outside, Boot, ManifestAnswers, DirAnswers, Turn, ChooseDir, PickSource, MockTick, CancelClick,
         Cancelling, CancelServed, CancelAnswered, vars, ui
    <3> QED BY <2>1, <3>1 DEF LoneInv, PreviewInv, ProcInv
  <2> QED BY <2>2, <2>3
<1>2. CASE Close
  <2>1. ~spoiled /\ page' # "finish" /\ proc' = proc /\ \A b \in Attempts : ~Live(b)'
    BY <1>2, Closed DEF Live, rust
  <2> QED BY <2>1 DEF LoneInv, Busy
<1>3. ASSUME NEW a \in Attempts, BeginInstall(a) PROVE LoneInv'
  <2>1. ~spoiled /\ page' # "finish" /\ proc' = proc /\ \A b \in Attempts : ~Busy(b)
    BY <1>3, Begun DEF rust
  <2>2. \A b \in Attempts \ {a} : ~Busy(b)'
    BY <1>3, <2>1, Begun DEF Busy, Live
  <2> QED BY <2>1, <2>2 DEF LoneInv
<1>4. ASSUME NEW a \in Attempts, PayloadEnds(a) \/ Working(a) \/ ImportStep(a) PROVE LoneInv'
  <2>1. /\ Busy(a) /\ ~spoiled /\ \A b \in Attempts \ {a} : (Busy(b)' <=> Busy(b)) /\ (Live(b)' <=> Live(b))
        /\ Live(a)' => Live(a)
    BY <1>4, BusyOnes
  <2>2. \A b \in Attempts \ {a} : ~Busy(b) /\ ~Busy(b)' /\ ~Live(b)'
    BY <2>1 DEF LoneInv, Busy
  <2>3. page' = "finish" => page = "finish" \/ ~Live(a)'
    <3>1. CASE PayloadEnds(a)
      BY <3>1 DEF PayloadEnds, ui
    <3>2. CASE Working(a)
      BY <3>2, Worked DEF Works, Launches, Falls, Goes, Live, ui
    <3>3. CASE ImportStep(a)
      BY <3>3, Imported DEF ImportStep, FilesInv, SetsAside, Copies, RollsBack, Falls, ui
    <3> QED BY <1>4, <3>1, <3>2, <3>3
  <2> QED BY <2>1, <2>2, <2>3 DEF LoneInv
<1> QED BY <1>1, <1>2, <1>3, <1>4, Steps

LEMMA Offered ==
  /\ "start" \in Offers => page = "welcome"
  /\ "next" \in Offers \/ "browse" \in Offers \/ "source" \in Offers => page = "options"
  /\ "back" \in Offers => page = "options" \/ (page = "progress" /\ phase = "error")
  /\ "cancel" \in Offers => page = "progress" /\ phase = "download"
BY DEF Offers, OffersWelcome, OffersOptions, OffersProgress, OffersFinish

(* Nobody else is alive while an attempt works on, unless two overlapped.  *)
LEMMA OthersRest ==
  ASSUME TypeOK, ProcInv, LoneInv, FilesInv, ~spoiled,
         NEW a \in Attempts, PayloadEnds(a) \/ Working(a) \/ ImportStep(a)
  PROVE  \A b \in Attempts \ {a} : ~Busy(b) /\ ~Live(b)' /\ ~Busy(b)'
BY BusyOnes DEF LoneInv, Busy

LEMMA PagePreserved ==
  ASSUME TypeOK, ProcInv, PreviewInv, LoneInv, PageInv, FilesInv, [Next]_vars
  PROVE  PageInv'
<1> SUFFICES ASSUME ~excused' PROVE PageInv'
  BY DEF PageInv
<1> DEFINE Good(a) ==
             /\ Live(a) => page = "progress" /\ phase \in Active /\ dir = Trim(att[a].dir)
             /\ proc[a] = "running" => Live(a) \/ page = "closed"
             /\ ran[a] # "bad"
             /\ att[a].pc = "run" => payload = "good"
<1>1. ASSUME ~excused PROVE ~spoiled /\ cancelling = "no" /\ \A a \in Attempts : Good(a)
  BY <1>1 DEF PageInv
<1>2. ASSUME ~spoiled', cancelling' = "no", \A a \in Attempts : Good(a)' PROVE PageInv'
  BY <1>2 DEF PageInv
<1>3. CASE Outside
  <2>1. /\ UNCHANGED <<tauri, att, payload, proc, ran, spoiled>> /\ ~excused
        /\ \A a \in Attempts : (Live(a)' <=> Live(a))
    BY <1>3, OutsideFrame DEF Live
  <2>2. cancelling' = "no" /\ (UNCHANGED <<page, phase, dir>> \/ \A a \in Attempts : ~Busy(a))
    <3>1. CASE UNCHANGED <<page, phase, dir, cancelling>>
      BY <1>1, <2>1, <3>1
    <3>2. CASE Boot
      BY <1>1, <2>1, <3>2 DEF Boot, ManifestAnswers, DirAnswers, ui, Live, Busy, ProcInv
    <3>3. CASE Turn
      BY <1>1, <2>1, <3>3, Offered DEF Turn, Busy, Active
    <3>4. CASE ChooseDir
      BY <1>1, <2>1, <3>4, Offered DEF ChooseDir, Busy
    <3>5. CASE MockTick
      BY <1>1, <2>1, <3>5 DEF MockTick, PreviewInv, ProcInv, Busy
    <3>6. CASE CancelClick \/ Cancelling
      BY <1>1, <2>1, <3>6 DEF CancelClick, Cancelling, CancelServed, CancelAnswered
    <3>7. CASE PickSource \/ UNCHANGED vars
      BY <3>1, <3>7 DEF PickSource, vars, ui
    <3> QED BY <1>3, <3>2, <3>3, <3>4, <3>5, <3>6, <3>7 DEF Outside
  <2>3. ASSUME NEW a \in Attempts PROVE Good(a)'
    <3>1. Good(a)
      BY <1>1, <2>1
    <3>2. CASE UNCHANGED <<page, phase, dir>>
      BY <2>1, <3>1, <3>2
    <3>3. CASE ~Busy(a)
      BY <2>1, <3>1, <3>3 DEF Busy, Live
    <3> QED BY <2>2, <3>2, <3>3
  <2> HIDE DEF Good
  <2> QED BY <1>1, <1>2, <2>1, <2>2, <2>3
<1>4. CASE Close
  <2>1. /\ page' = "closed" /\ cancelling' = "no" /\ spoiled' = spoiled /\ excused' = excused /\ ran' = ran
        /\ \A a \in Attempts : att'[a].pc = "over"
    BY <1>4, Closed DEF rust
  <2>2. ASSUME NEW a \in Attempts PROVE Good(a)'
    BY <1>1, <2>1 DEF Live
  <2> HIDE DEF Good
  <2> QED BY <1>1, <1>2, <2>1, <2>2
<1>5. ASSUME NEW a \in Attempts, BeginInstall(a) PROVE PageInv'
  <2>1. /\ page = "options" /\ page' = "progress" /\ phase' = "download" /\ dir' = Trim(dir)
        /\ \A b \in Attempts \ {a} : att'[b] = att[b]
        /\ att'[a].pc \in {"call", "over"} /\ (att'[a].pc = "call" => att'[a].dir = dir)
        /\ spoiled' = (spoiled \/ \E b \in Attempts : Busy(b))
        /\ cancelling' = cancelling /\ proc' = proc /\ ran' = ran /\ excused' = excused
    BY <1>5, Begun DEF rust
  <2>2. ~spoiled /\ cancelling = "no" /\ \A b \in Attempts : ~Busy(b) /\ ran[b] # "bad"
    BY <1>1, <2>1 DEF Busy
  <2>3. ASSUME NEW b \in Attempts PROVE Good(b)'
    BY <2>1, <2>2, <2>3 DEF Busy, Live, Active
  <2> HIDE DEF Good
  <2> QED BY <1>2, <2>1, <2>2, <2>3
<1>6. ASSUME NEW a \in Attempts, PayloadEnds(a) \/ Working(a) \/ ImportStep(a) PROVE PageInv'
  <2>1. ~excused /\ cancelling' = cancelling /\ dir' = dir
    BY <1>6, WorkingFrame, Imported DEF PayloadEnds, ImportStep, FilesInv
  <2>2. ~spoiled /\ ~spoiled' /\ cancelling' = "no" /\ Good(a)
    BY <1>1, <1>6, <2>1, BusyOnes
  <2>3. \A b \in Attempts \ {a} : ~Live(b)' /\ ~Busy(b)'
    BY <1>6, <2>2, OthersRest
  <2>4. \A b \in Attempts \ {a} : ran'[b] = ran[b]
    BY <1>6, WorkingFrame, Imported DEF PayloadEnds, ImportStep, FilesInv, rust
  <2>5. Good(a)'
    <3>1. CASE PayloadEnds(a)
      <4>1. UNCHANGED <<page, phase, dir, att, ran, payload>> /\ proc'[a] # "running"
        BY <3>1 DEF PayloadEnds, ui, TypeOK
      <4> QED BY <2>2, <4>1 DEF Live
    <3>2. CASE ImportStep(a)
      <4>1. /\ proc'[a] = "zero" /\ UNCHANGED <<ran, payload>> /\ att'[a].pc # "run"
            /\ Live(a) /\ (Live(a)' => UNCHANGED ui) /\ (Live(a)' => att'[a].dir = att[a].dir)
        BY <3>2, Imported DEF ImportStep, FilesInv, ProcInv, After, SetsAside, Copies, RollsBack, Goes, Falls, Live, rust
      <4> QED BY <2>1, <2>2, <4>1 DEF ui
    <3>3. CASE Working(a)
      <4>1. Live(a) /\ (att[a].pc \in Before => proc[a] = "none") /\ (att[a].pc \in After => proc[a] = "zero")
        BY <3>3, WorkingFrame DEF ProcInv
      <4>2. CASE Launches(a)
        <5>1. proc'[a] = "running" /\ ran'[a] = payload /\ att[a].pc = "run" /\ att'[a].pc = "poll"
              /\ att'[a].dir = att[a].dir /\ page' = page /\ phase' = phase
          BY <4>2 DEF Launches, Goes, TypeOK, ui
        <5> QED BY <2>1, <2>2, <4>1, <5>1 DEF Live
      <4>3. CASE Works(a) /\ UNCHANGED <<proc, ran>>
        <5>1. CASE Falls(a)
          <6>1. proc[a] # "running"
            BY <3>3, <4>1, <5>1 DEF Falls, Live, Before, After, TypeOK, Attempt, Pcs
          <6> QED BY <2>2, <4>3, <5>1, <6>1 DEF Falls, Live
        <5>2. CASE ~Falls(a)
          <6>1. page' = page \/ att'[a].pc = "over"
            BY <4>3, <5>2 DEF Works, Goes, ui
          <6>2. phase' \in Active \/ att'[a].pc = "over"
            BY <2>2, <4>1, <4>3, <5>2 DEF Works, Goes, ui, Active
          <6>3. att'[a].pc = "run" => payload' = "good"
            BY <4>3, <5>2 DEF Works, Goes
          <6>4. att'[a].dir = att[a].dir /\ (att'[a].pc = "over" => proc[a] = "zero")
            BY <4>1, <4>3, <5>2 DEF Works, Goes, After
          <6>5. page = "progress" /\ dir = Trim(att[a].dir) /\ (proc[a] = "running" => att'[a].pc # "over")
            BY <2>2, <4>1, <6>4
          <6>6. Live(a)' <=> att'[a].pc # "over"
            BY <4>1, <4>3, <5>2 DEF Works, Goes, Live
          <6>7. dir' = Trim(att'[a].dir) /\ ran'[a] # "bad" /\ proc'[a] = proc[a]
            BY <2>1, <2>2, <4>3, <6>4, <6>5
          <6> QED BY <6>1, <6>2, <6>3, <6>5, <6>6, <6>7
        <5> QED BY <5>1, <5>2
      <4> QED BY <3>3, <4>2, <4>3, Worked
    <3> QED BY <1>6, <3>1, <3>2, <3>3
  <2>6. ASSUME NEW b \in Attempts \ {a} PROVE Good(b)'
    <3>1. ~Live(b)' /\ proc'[b] # "running" /\ ran'[b] = ran[b] /\ ran[b] # "bad"
      BY <1>1, <2>1, <2>3, <2>4 DEF Busy
    <3> QED BY <3>1 DEF Live
  <2> HIDE DEF Good
  <2> QED BY <1>2, <2>2, <2>5, <2>6
<1> HIDE DEF Good
<1> QED BY <1>3, <1>4, <1>5, <1>6, Steps

LEMMA CancelPreserved ==
  ASSUME TypeOK, ProcInv, PreviewInv, LoneInv, CancelInv, FilesInv, [Next]_vars
  PROVE  CancelInv'
<1> SUFFICES ASSUME ~spoiled', NEW a \in Attempts, att'[a].pc \in {"verify", "run"}
             PROVE  ~cancelled' /\ phase' # "download"
  BY DEF CancelInv
<1>1. CASE Outside
  <2>1. ~spoiled /\ att[a].pc \in {"verify", "run"} /\ mock = "off"
    BY <1>1, OutsideFrame DEF ProcInv, Live, PreviewInv
  <2>2. ~cancelled /\ phase # "download"
    BY <2>1 DEF CancelInv
  <2>3. cancelled' = cancelled \/ CancelClick
    BY <1>1 DEF Outside, Boot, ManifestAnswers, DirAnswers, Turn, ChooseDir, PickSource, MockTick,
       Cancelling, CancelServed, CancelAnswered, vars
  <2>4. phase' \in {phase, "error"}
    BY <1>1, <2>1 DEF Outside, Boot, ManifestAnswers, DirAnswers, Turn, ChooseDir, PickSource, MockTick,
       CancelClick, Cancelling, CancelServed, CancelAnswered, vars, ui
  <2>5. ~CancelClick
    BY <2>2, Offered DEF CancelClick
  <2> QED BY <2>2, <2>3, <2>4, <2>5
<1>2. CASE Close
  BY <1>2, Closed
<1>3. ASSUME NEW b \in Attempts, BeginInstall(b) PROVE FALSE
  <2>1. ~Busy(a) /\ att'[b].pc \in {"call", "over"} /\ (a # b => att'[a] = att[a])
    BY <1>3, Begun
  <2> QED BY <2>1 DEF Busy, Live
<1>4. ASSUME NEW b \in Attempts, PayloadEnds(b) \/ Working(b) \/ ImportStep(b) PROVE ~cancelled' /\ phase' # "download"
  <2>1. ~spoiled /\ a = b
    BY <1>4, BusyOnes, OthersRest DEF Live
  <2>2. CASE PayloadEnds(b)
    BY <2>1, <2>2 DEF PayloadEnds, ui, CancelInv
  <2>3. CASE ImportStep(b)
    BY <2>1, <2>3, Imported DEF ImportStep, FilesInv, SetsAside, Copies, RollsBack, Falls, Goes
  <2>4. CASE Working(b)
    <3>1. cancelled' = cancelled /\ (att[b].pc = "verify" => ~cancelled)
      BY <2>1, <2>4, WorkingFrame DEF CancelInv
    <3> QED BY <2>1, <2>4, <3>1, Worked DEF Works, Launches, Falls, Goes
  <2> QED BY <1>4, <2>2, <2>3, <2>4
<1> QED BY <1>1, <1>2, <1>3, <1>4, Steps

LEMMA FilesDistinct ==
  /\ Len(Files) \in Nat /\ (\A f : f \in Names <=> \E i \in 1 .. Len(Files) : f = Files[i])
  /\ \A i, j \in 1 .. Len(Files) : Files[i] = Files[j] => i = j
  /\ Had \subseteq Names /\ 1 \in 1 .. Len(Files)
<1>1. Len(Files) \in Nat /\ Len(Files) # 0
  BY ConstantsAssumption, EmptySeq, LenProperties
<1> QED BY <1>1, ConstantsAssumption DEF Names

LEMMA FilesPreserved ==
  ASSUME TypeOK, ProcInv, LoneInv, FilesInv, [Next]_vars
  PROVE  FilesInv'
<1> DEFINE Good(a) == Placed(a) /\ Ahead(a) /\ Behind(a) /\ AllNew(a)
<1>1. /\ \A a \in Attempts : Good(a)
      /\ \A a, b \in Attempts : Mid(a) /\ Mid(b) => a = b
  BY DEF FilesInv
<1>2. ASSUME NEW a \in Attempts, att'[a] = att[a], bak'[a] = bak[a],
             data' = data \/ (~Mid(a) /\ (spoiled \/ ~Live(a))), spoiled => spoiled'
      PROVE  Good(a)' /\ (Mid(a)' <=> Mid(a))
  <2>1. Mid(a)' <=> Mid(a)
    BY <1>2 DEF Mid
  <2>2. Placed(a)' /\ Ahead(a)'
    BY <1>1, <1>2 DEF Placed, Ahead
  <2>3. Behind(a)'
    BY <1>1, <1>2, <2>1 DEF Behind, Mid
  <2>4. AllNew(a)'
    BY <1>1, <1>2 DEF AllNew, Live
  <2> QED BY <2>1, <2>2, <2>3, <2>4
<1>3. CASE Outside
  <2>1. ASSUME NEW a \in Attempts PROVE Good(a)' /\ (Mid(a)' <=> Mid(a))
    BY <1>2, <1>3, OutsideFrame DEF disk
  <2> HIDE DEF Good
  <2> QED BY <1>1, <2>1 DEF FilesInv, Good
<1>4. CASE Close
  <2>1. ASSUME NEW a \in Attempts PROVE Good(a)' /\ ~Mid(a)'
    BY <1>4, Closed DEF Placed, Ahead, Behind, AllNew, Mid, Before
  <2> QED BY <2>1 DEF FilesInv
<1>5. ASSUME NEW a \in Attempts, BeginInstall(a) PROVE FilesInv'
  <2>1. /\ \A b \in Attempts \ {a} : att'[b] = att[b]
        /\ att[a].pc = "idle" /\ data' = data /\ bak' = bak /\ (spoiled => spoiled')
        /\ \/ att'[a].pc = "call" /\ att'[a].file = 1
           \/ att'[a].pc = "over"
    BY <1>5, Begun DEF disk
  <2>2. ASSUME NEW b \in Attempts \ {a} PROVE Good(b)' /\ (Mid(b)' <=> Mid(b))
    BY <1>2, <2>1
  <2>3. \A i \in 1 .. Len(Files) : bak[a][Files[i]] = "none"
    BY <1>1, <2>1 DEF Placed, Ahead
  <2>4. Good(a)' /\ ~Mid(a)'
    BY <2>1, <2>3 DEF Placed, Ahead, Behind, AllNew, Mid, Before
  <2> HIDE DEF Good
  <2> QED BY <1>1, <2>2, <2>4 DEF FilesInv, Good
<1>6. ASSUME NEW a \in Attempts, PayloadEnds(a) PROVE FilesInv'
  <2>1. UNCHANGED <<att, data, bak, spoiled>>
    BY <1>6 DEF PayloadEnds, disk
  <2>2. ASSUME NEW b \in Attempts PROVE Good(b)' /\ (Mid(b)' <=> Mid(b))
    BY <1>2, <2>1
  <2> HIDE DEF Good
  <2> QED BY <1>1, <2>2 DEF FilesInv, Good
<1>7. ASSUME NEW a \in Attempts, Working(a) PROVE FilesInv'
  <2>1. /\ \A b \in Attempts \ {a} : att'[b] = att[b]
        /\ att'[a].file = att[a].file \/ att'[a].pc = "over"
        /\ Launches(a) \/ Works(a)
        /\ data' = data /\ bak' = bak /\ spoiled' = spoiled
    BY <1>7, Worked, WorkingFrame DEF disk
  <2>2. ASSUME NEW b \in Attempts \ {a} PROVE Good(b)' /\ (Mid(b)' <=> Mid(b))
    BY <1>2, <2>1
  <2>3. /\ att'[a].pc \in Before \cup {"poll", "wait", "backup", "finish", "over"}
        /\ att'[a].pc = "backup" => att[a].pc = "wait"
        /\ att'[a].pc = "finish" => ~att'[a].import
        /\ att'[a].pc # "over" => att[a].pc \in Before \cup {"poll", "wait"}
    BY <2>1 DEF Works, Launches, Goes, Falls, Before
  <2>4. att'[a].pc # "over" => att[a].file = 1 /\ att'[a].file = 1 /\ att[a].pc \notin {"over", "copy"}
    BY <1>1, <2>1, <2>3 DEF Placed, Before
  <2>5. Placed(a)' /\ Behind(a)' /\ AllNew(a)' /\ ~Mid(a)'
    BY <2>3, <2>4, FilesDistinct DEF Placed, Behind, AllNew, Mid, Before
  <2>6. Ahead(a)'
    BY <1>1, <2>1, <2>3, <2>4 DEF Ahead
  <2> HIDE DEF Good
  <2> QED BY <1>1, <2>2, <2>5, <2>6 DEF FilesInv, Good
<1>8. ASSUME NEW a \in Attempts, ImportStep(a) PROVE FilesInv'
  <2>1. /\ \A b \in Attempts \ {a} : att'[b] = att[b] /\ bak'[b] = bak[b]
        /\ Importing(a) /\ spoiled' = spoiled
        /\ SetsAside(a) \/ Copies(a) \/ RollsBack(a)
    BY <1>1, <1>8, Imported DEF ImportStep
  <2>2. \A b \in Attempts \ {a} : ~Mid(b)
    BY <2>1 DEF Importing, Mid
  <2>3. \A b \in Attempts \ {a} : spoiled \/ ~Live(b)
    BY <1>8, OthersRest DEF Busy
  <2>4. ASSUME NEW b \in Attempts \ {a} PROVE Good(b)' /\ ~Mid(b)'
    BY <1>2, <2>1, <2>2, <2>3
  <2>5. Good(a)'
    <3> DEFINE n == att[a].file
    <3>1. /\ n \in 1 .. Len(Files) /\ Now(a) = Files[n] /\ att[a].pc \in {"backup", "copy"}
          /\ Placed(a) /\ Ahead(a) /\ Behind(a)
      BY <1>1, <2>1 DEF Placed, SetsAside, Copies, RollsBack, Goes, Now
    <3>2. /\ \A i \in 1 .. Len(Files) : i # n => Files[i] # Now(a) /\ Files[i] \in Names
          /\ \A i \in 1 .. Len(Files) : i < n => data[Files[i]] = "new"
          /\ \A i \in 1 .. Len(Files) : i > n => bak[a][Files[i]] = "none"
      BY <3>1, FilesDistinct DEF Behind, Ahead, Mid
    <3>3. CASE SetsAside(a)
      <4>1. /\ att'[a].pc = "copy" /\ att'[a].file = n /\ data'[Files[n]] = "none"
            /\ \A f \in Names \ {Now(a)} : data'[f] = data[f] /\ bak'[a][f] = bak[a][f]
        BY <3>1, <3>3 DEF SetsAside, Goes
      <4>2. \A i \in 1 .. Len(Files) : (i < n => data'[Files[i]] = "new") /\ (i > n => bak'[a][Files[i]] = "none")
        BY <3>1, <3>2, <4>1
      <4> QED BY <3>1, <4>1, <4>2 DEF Placed, Ahead, Behind, AllNew, Before
    <3>4. CASE Copies(a)
      <4>1. /\ att'[a].pc = (IF n = Len(Files) THEN "finish" ELSE "backup") /\ att'[a].file = n + 1
            /\ bak' = bak /\ data'[Files[n]] = "new" /\ \A f \in Names \ {Now(a)} : data'[f] = data[f]
        BY <3>1, <3>4 DEF Copies, Goes
      <4>2. \A i \in 1 .. Len(Files) : i < n + 1 => data'[Files[i]] = "new"
        BY <3>1, <3>2, <4>1
      <4>3. Placed(a)'
        BY <3>1, <4>1, FilesDistinct DEF Placed, Before
      <4>4. Ahead(a)'
        BY <3>1, <3>2, <4>1, FilesDistinct DEF Ahead
      <4>5. Behind(a)'
        BY <4>1, <4>2 DEF Behind
      <4>6. AllNew(a)'
        BY <3>1, <4>1, <4>2, FilesDistinct DEF AllNew
      <4> QED BY <4>3, <4>4, <4>5, <4>6
    <3>5. CASE RollsBack(a)
      <4>1. att'[a].pc = "over"
        BY <3>5 DEF RollsBack, Falls
      <4> QED BY <4>1 DEF Placed, Ahead, Behind, AllNew, Mid, Before
    <3> QED BY <2>1, <3>3, <3>4, <3>5
  <2> HIDE DEF Good
  <2> QED BY <2>4, <2>5 DEF FilesInv, Good
<1> QED BY <1>3, <1>4, <1>5, <1>6, <1>7, <1>8, Steps

LEMMA FinishPreserved ==
  ASSUME TypeOK, ProcInv, PreviewInv, LoneInv, PageInv, FilesInv, FinishIsEarned, [Next]_vars
  PROVE  FinishIsEarned'
<1> DEFINE Earned(a) ==
             /\ att[a].pc = "over" /\ proc[a] = "zero" /\ att[a].dir \in okFile
             /\ att[a].import => \A f \in Names : data[f] = "new" \/ spoiled
             /\ dir = att[a].dir \/ excused
<1> SUFFICES ASSUME page' = "finish", tauri' PROVE \E a \in Attempts : Earned(a)'
  BY DEF FinishIsEarned
<1>1. ASSUME page = "finish", tauri PROVE \E a \in Attempts : Earned(a)
  BY <1>1 DEF FinishIsEarned
<1>2. CASE Outside
  <2>1. /\ UNCHANGED <<tauri, att, proc, okFile, data, spoiled>> /\ (excused => excused')
        /\ tauri /\ mock = "off"
    BY <1>2, OutsideFrame DEF disk, PreviewInv
  <2>2. page = "finish"
    BY <1>2, <2>1 DEF Outside, Boot, ManifestAnswers, DirAnswers, Turn, ChooseDir, PickSource, MockTick,
       CancelClick, Cancelling, CancelServed, CancelAnswered, vars, ui
  <2>3. PICK a \in Attempts : Earned(a)
    BY <1>1, <2>1, <2>2
  <2>4. dir' = dir \/ excused'
    BY <1>2, <2>1, <2>2, <2>3, Offered DEF Outside, Boot, ManifestAnswers, DirAnswers, Turn, ChooseDir, PickSource,
       MockTick, CancelClick, Cancelling, CancelServed, CancelAnswered, vars
  <2>5. Earned(a)'
    BY <2>1, <2>3, <2>4
  <2> QED BY <2>5
<1>3. CASE Close
  BY <1>3, Closed
<1>4. ASSUME NEW b \in Attempts, BeginInstall(b) PROVE FALSE
  BY <1>4, Begun
<1>5. ASSUME NEW b \in Attempts, PayloadEnds(b) PROVE \E a \in Attempts : Earned(a)'
  <2>1. /\ UNCHANGED <<att, page, tauri, data, spoiled, dir, excused>> /\ okFile \subseteq okFile'
        /\ proc[b] = "running" /\ \A a \in Attempts \ {b} : proc'[a] = proc[a]
    BY <1>5 DEF PayloadEnds, ui, disk, TypeOK
  <2>2. PICK a \in Attempts : Earned(a)
    BY <1>1, <2>1
  <2>3. Earned(a)'
    BY <2>1, <2>2
  <2> QED BY <2>3
<1>6. ASSUME NEW b \in Attempts, Working(b) \/ ImportStep(b), page' = page PROVE \E a \in Attempts : Earned(a)'
  <2>1. /\ UNCHANGED <<tauri, okFile, dir, spoiled>> /\ (excused => excused') /\ Live(b)
        /\ \A a \in Attempts \ {b} : att'[a] = att[a] /\ proc'[a] = proc[a]
        /\ Working(b) => data' = data
    BY <1>6, Worked, WorkingFrame, Imported DEF ImportStep, FilesInv, disk, rust
  <2>2. PICK a \in Attempts : Earned(a)
    BY <1>1, <1>6, <2>1
  <2>3. a # b
    BY <2>1, <2>2 DEF Live
  <2>4. data' = data \/ spoiled
    BY <1>6, <2>1 DEF LoneInv
  <2>5. Earned(a)'
    <3>1. att'[a].import => \A f \in Names : data'[f] = "new" \/ spoiled'
      BY <2>1, <2>2, <2>3, <2>4
    <3> QED BY <2>1, <2>2, <2>3, <3>1
  <2> QED BY <2>5
<1>7. ASSUME NEW b \in Attempts, Working(b), page' # page PROVE Earned(b)'
  <2>1. /\ UNCHANGED <<okFile, dir, spoiled, data>> /\ (excused => excused') /\ (Launches(b) \/ (Works(b) /\ proc' = proc))
    BY <1>7, Worked, WorkingFrame DEF disk
  <2>2. att[b].pc = "finish" /\ att'[b].pc = "over" /\ att'[b].dir = att[b].dir /\ att'[b].import = att[b].import
        /\ proc' = proc
    BY <1>7, <2>1 DEF Works, Launches, Falls, Goes, ui
  <2>3. proc[b] = "zero" /\ IsAbsolute(att[b].dir) /\ att[b].dir \in okFile
    BY <2>2 DEF ProcInv, After
  <2>4. dir = att[b].dir \/ excused
    BY <2>2, <2>3 DEF PageInv, Live, Trim, IsAbsolute
  <2>5. att[b].import => \A f \in Names : data[f] = "new" \/ spoiled
    BY <2>2 DEF FilesInv, AllNew
  <2> QED BY <2>1, <2>2, <2>3, <2>4, <2>5
<1>8. ASSUME NEW b \in Attempts, ImportStep(b) PROVE page' = page
  BY <1>8, Imported DEF ImportStep, FilesInv, SetsAside, Copies, RollsBack, Falls, ui
<1> HIDE DEF Earned
<1> QED BY <1>2, <1>3, <1>4, <1>5, <1>6, <1>7, <1>8, Steps

LEMMA OldDataPreserved ==
  ASSUME TypeOK, FilesInv, OldDataSurvives, [Next]_vars
  PROVE  OldDataSurvives'
<1>1. CASE UNCHANGED disk
  BY <1>1 DEF disk, OldDataSurvives
<1>2. ASSUME NEW a \in Attempts, ImportStep(a), NEW f \in Had \ unsaved'
      PROVE  data'[f] = "old" \/ \E b \in Attempts : bak'[b][f] = "old"
  <2> DEFINE n == att[a].file
  <2>1. /\ SetsAside(a) \/ Copies(a) \/ RollsBack(a)
        /\ \A b \in Attempts \ {a} : bak'[b] = bak[b]
    BY <1>2, Imported DEF ImportStep, FilesInv
  <2>2. /\ n \in 1 .. Len(Files) /\ Now(a) = Files[n] /\ f \in Names
        /\ att[a].pc \in {"backup", "copy"} /\ Ahead(a) /\ Behind(a)
    BY <2>1, FilesDistinct DEF FilesInv, Placed, SetsAside, Copies, RollsBack, Goes, Now
  <2>3. PICK j \in 1 .. Len(Files) : f = Files[j]
    BY <2>2, FilesDistinct
  <2>4. (j > n => bak[a][f] = "none") /\ (j = n => f = Now(a)) /\ (j # n => f # Now(a))
        /\ (att[a].pc = "backup" /\ j = n => bak[a][f] = "none")
        /\ (att[a].pc = "copy" /\ j < n => data[f] = "new") /\ (att[a].pc = "copy" /\ j = n => data[f] = "none")
    BY <2>2, <2>3, FilesDistinct DEF Ahead, Behind, Mid
  <2>5. CASE SetsAside(a)
    <3>1. /\ att[a].pc = "backup" /\ f \notin unsaved /\ bak'[a][Now(a)] = data[Now(a)]
          /\ \A g \in Names \ {Now(a)} : data'[g] = data[g] /\ bak'[a][g] = bak[a][g]
      BY <1>2, <2>5 DEF SetsAside, Goes
    <3>2. data[f] = "old" \/ \E b \in Attempts : bak[b][f] = "old"
      BY <3>1 DEF OldDataSurvives
    <3>3. CASE j = n
      BY <2>1, <2>4, <3>1, <3>2, <3>3
    <3>4. CASE j # n
      BY <2>1, <2>2, <2>4, <3>1, <3>2, <3>4
    <3> QED BY <3>3, <3>4
  <2>6. CASE Copies(a)
    <3>1. /\ att[a].pc = "copy" /\ f \notin unsaved /\ bak' = bak
          /\ \A g \in Names \ {Now(a)} : data'[g] = data[g]
      BY <1>2, <2>6 DEF Copies, Goes
    <3>2. data[f] = "old" \/ \E b \in Attempts : bak[b][f] = "old"
      BY <3>1 DEF OldDataSurvives
    <3> QED BY <2>2, <2>4, <3>1, <3>2
  <2>7. CASE RollsBack(a)
    <3>1. data[f] = "old" \/ \E b \in Attempts : bak[b][f] = "old"
      BY <1>2, <2>7 DEF RollsBack, Blames, OldDataSurvives
    <3>2. CASE data'[f] = data[f] /\ bak'[a][f] = bak[a][f]
      BY <2>1, <3>1, <3>2
    <3>3. CASE ~(data'[f] = data[f] /\ bak'[a][f] = bak[a][f])
      <4>1. /\ f \in Touched(a) /\ (data'[f] = bak[a][f] \/ bak'[a][f] = bak[a][f])
            /\ att[a].pc = "backup" => f # Now(a)
        BY <1>2, <2>2, <2>7, <3>3 DEF RollsBack, Blames
      <4>2. j <= n
        BY <2>2, <2>3, <4>1, FilesDistinct DEF Touched
      <4>3. j < n => data[f] = "new"
        BY <2>2, <2>3 DEF Behind, Mid
      <4>4. data[f] # "old"
        BY <2>2, <2>4, <4>1, <4>2, <4>3
      <4> QED BY <2>1, <3>1, <4>1, <4>4
    <3> QED BY <3>2, <3>3
  <2> QED BY <2>1, <2>5, <2>6, <2>7
<1>3. (\E a \in Attempts : ImportStep(a)) \/ UNCHANGED disk
  BY OutsideFrame, Closed, Begun, WorkingFrame, Steps DEF PayloadEnds
<1> QED BY <1>1, <1>2, <1>3 DEF OldDataSurvives

-----------------------------------------------------------------------------
LEMMA InvInitially == Init => Inv
<1> SUFFICES ASSUME Init PROVE Inv
  OBVIOUS
<1>1. \A a \in Attempts : att[a] = Idle /\ proc[a] = "none" /\ ran[a] = "none" /\ ~Live(a) /\ ~Busy(a) /\ ~Mid(a)
                          /\ att[a].pc = "idle" /\ att[a].file = 0
  BY DEF Init, Live, Busy, Mid, Idle
<1>2. TypeOK
  <2>1. Idle \in Attempt
    BY DEF Idle, Attempt, Pcs, Dirs
  <2>2. att \in [Attempts -> Attempt] /\ proc \in [Attempts -> {"none", "running", "zero", "failed"}]
        /\ ran \in [Attempts -> {"none", "good", "bad"}]
    BY <2>1 DEF Init
  <2>3. data \in [Names -> {"none", "old", "new"}]
        /\ bak \in [Attempts -> [Names -> {"none", "old", "new"}]]
    BY DEF Init
  <2> QED BY <2>2, <2>3 DEF Init, TypeOK, Dirs
<1>3. ProcInv /\ PreviewInv /\ LoneInv /\ CancelInv
  BY <1>1 DEF Init, ProcInv, PreviewInv, LoneInv, CancelInv, Before, After
<1>4. PageInv
  BY <1>1 DEF Init, PageInv, Live
<1>5. FilesInv
  <2>1. \A a \in Attempts : \A i \in 1 .. Len(Files) : bak[a][Files[i]] = "none"
    BY FilesDistinct DEF Init
  <2> QED BY <1>1, <2>1 DEF FilesInv, Placed, Ahead, Behind, AllNew, Before
<1>6. FinishIsEarned /\ OldDataSurvives
  BY FilesDistinct DEF Init, FinishIsEarned, OldDataSurvives
<1> QED BY <1>2, <1>3, <1>4, <1>5, <1>6 DEF Inv

LEMMA InvInvariant == Spec => []Inv
<1>1. Inv /\ [Next]_vars => Inv'
  BY TypesPreserved, ProcPreserved, PreviewPreserved, LonePreserved, PagePreserved, CancelPreserved, FilesPreserved,
     FinishPreserved, OldDataPreserved DEF Inv
<1> QED BY <1>1, InvInitially, PTL DEF Spec

(* The finish page is earned, and one download and one payload are alive   *)
(* at a time, with the bytes the manifest promises.                        *)
THEOREM InstallStaysEarned == Spec => []InstallIsEarned
<1>1. ASSUME Inv PROVE InstallIsEarned
  <2>1. CASE excused
    BY <1>1, <2>1 DEF Inv, InstallIsEarned, OneAtATime
  <2>2. CASE ~excused
    <3> DEFINE S == {a \in Attempts : Live(a) \/ proc[a] = "running"}
    <3>1. /\ \A a, b \in S : a = b
          /\ \A a \in Attempts : ran[a] # "bad"
      BY <1>1, <2>2 DEF Inv, PageInv, LoneInv, Busy
    <3> HIDE DEF S
    <3>2. Cardinality(S) <= 1
      <4>1. CASE S = {}
        BY <4>1, FS_EmptySet
      <4>2. CASE S # {}
        <5>1. PICK a : S = {a}
          BY <3>1, <4>2
        <5> QED BY <5>1, FS_Singleton
      <4> QED BY <4>1, <4>2
    <3> QED BY <1>1, <3>1, <3>2 DEF Inv, InstallIsEarned, OneAtATime, S
  <2> QED BY <2>1, <2>2
<1> QED BY <1>1, InvInvariant, PTL

(* The import keeps every file of the user that it could set aside, or has *)
(* not come to yet, in its place or in a backup, also when it fails on     *)
(* another file, when the rollback fails or when the window is closed in   *)
(* the middle of it.  Only the file whose rename to the backup failed may  *)
(* be lost: the rollback removes it (rollback of import.rs).               *)
THEOREM OldDataStays == Spec => []OldDataSurvives
BY InvInvariant, PTL DEF Inv

(* No payload starts after a cancellation, whichever await the click met.  *)
THEOREM CancelledNeverInstalls == Spec => CancelledStays
<1>1. ASSUME Inv, [Next]_vars, NEW a \in Attempts, proc[a] = "none", proc'[a] = "running"
      PROVE  ~cancelled \/ spoiled
  <2>1. PICK b \in Attempts : PayloadEnds(b) \/ Working(b)
    <3>1. UNCHANGED proc \/ \E b \in Attempts : PayloadEnds(b) \/ Working(b)
      BY <1>1, Steps, OutsideFrame, Closed, Begun, Imported DEF ImportStep, FilesInv, rust, Inv
    <3> QED BY <1>1, <3>1
  <2>2. Working(a) /\ TypeOK /\ CancelInv
    BY <1>1, <2>1, WorkingFrame DEF PayloadEnds, Inv, TypeOK
  <2>3. Launches(a)
    BY <1>1, <2>2, Worked
  <2> QED BY <2>2, <2>3 DEF Launches, Goes, CancelInv
<1>2. Inv /\ [Next]_vars => [\A a \in Attempts : proc[a] = "none" /\ proc'[a] = "running" => ~cancelled \/ spoiled]_vars
  BY <1>1
<1> QED BY <1>2, InvInvariant, PTL DEF Spec, CancelledStays
=============================================================================
