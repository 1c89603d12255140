---------------------------- MODULE Installer ----------------------------
(***************************************************************************)
(* The Windows installer: the wizard of installer/app/src/App.tsx, the     *)
(* calls of lib/tauri.ts it awaits, and the Rust commands that serve them. *)
(* A click on 下一步 starts an ATTEMPT, an async function that keeps the    *)
(* values its closure captured: the manifest, the directory and the        *)
(* import source of that moment.  The page stays usable while it awaits,   *)
(* so a cancelled attempt can still be alive when the next one begins.     *)
(* React state is applied at once: no await separates a setState of the    *)
(* page from the click handlers that read it.                              *)
(***************************************************************************)
EXTENDS Integers, Sequences, FiniteSets

CONSTANTS MaxAttempts, \* how often beginInstall may pass its check (a bound)
          Mirrors,    \* number of mirrors the released manifest names
          Files,      \* DATA_FILES of import.rs, in order
          Had         \* the data files an earlier version left in the directory

ASSUME ConstantsAssumption ==
    /\ MaxAttempts \in Nat \ {0}
    /\ Mirrors \in Nat
    /\ Files \in Seq(STRING) \ {<<>>}
    /\ \A i, j \in 1 .. Len(Files) : Files[i] = Files[j] => i = j
    /\ Had \subseteq {Files[i] : i \in 1 .. Len(Files)}

VARIABLES
    tauri,      \* the page runs in the bootstrapper, not in a plain browser
    page, phase, dir, manifest, source,     \* React state
    cancelled,  \* the ref `cancelled`
    boot,       \* what the start-up effect awaits
    mock,       \* the timer runMock has armed
    cancelling, \* the cancel_download call handleCancel awaits
    att,        \* the attempts
    flag, active,   \* InstallerState: the cancel flag, download_active
    payload,    \* the bytes at the payload path: none, good, bad
    proc, ran,  \* the NSIS process an attempt started and the bytes it runs
    okFile,     \* directories whose install.ok names the manifest's version
    data, bak,  \* the data files in the install directory, the backups of each import
    spoiled,    \* history: two attempts were alive at once
    excused,    \* history: a cancel was clicked, a payload overran its 120 s, or the
                \* default directory arrived after the first attempt began
    unsaved     \* history: the data files whose renaming to a backup failed

Attempts == 1 .. MaxAttempts
ui == <<page, phase>>
rust == <<flag, active, payload, proc, ran, okFile>>
disk == <<data, bak, unsaved>>
vars == <<tauri, ui, dir, manifest, source, cancelled, boot, mock, cancelling,
          att, rust, disk, spoiled, excused>>

Active == {"download", "verify", "install"}
Names == {Files[i] : i \in 1 .. Len(Files)}

\* String.prototype.trim on the directory: a leading blank makes the path
\* relative for Rust, the trimmed one is absolute.
Trim(d) == IF d = " picked" THEN "picked" ELSE d
IsAbsolute(d) == d \notin {" picked", "relative"}

\* The download addresses of a manifest: its url and its mirrors; those of the
\* built-in one lie under example.invalid.
UrlCount(m) == IF m = "released" THEN 1 + Mirrors ELSE 1
Reachable(m) == m = "released"

Idle == [pc |-> "idle", urls |-> 0, dir |-> "placeholder", real |-> FALSE,
         import |-> FALSE, file |-> 0]
\* An attempt that is over keeps what its payload's process and its files still need.
Over(a) == [Idle EXCEPT !.pc = "over", !.dir = att[a].dir, !.import = att[a].import]
Live(a) == att[a].pc \notin {"idle", "over"}

Init == /\ tauri \in BOOLEAN
        /\ page = "welcome" /\ phase = "download"
        /\ dir = "placeholder" /\ manifest = "built-in" /\ source = FALSE
        /\ cancelled = FALSE /\ mock = "off" /\ cancelling = "no"
        /\ boot = IF tauri THEN "manifest" ELSE "over"
        /\ att = [a \in Attempts |-> Idle]
        /\ flag = FALSE /\ active = FALSE /\ payload = "none"
        /\ proc = [a \in Attempts |-> "none"] /\ ran = [a \in Attempts |-> "none"]
        /\ okFile = {"default"}
        /\ data = [f \in Names |-> IF f \in Had THEN "old" ELSE "none"]
        /\ bak = [a \in Attempts |-> [f \in Names |-> "none"]]
        /\ spoiled = FALSE /\ excused = FALSE /\ unsaved = {}

----------------------------------------------------------------------------
(* The start-up effect: the manifest, then the default directory. *)

ManifestAnswers == /\ boot = "manifest" /\ boot' = "dir"
                   /\ manifest' \in {"built-in", "released"}
                   /\ UNCHANGED <<tauri, ui, dir, source, cancelled, mock, cancelling, att,
                                  rust, disk, spoiled, excused>>

DirAnswers == /\ boot = "dir" /\ boot' = "over"
              /\ dir' \in {"default", dir}
              /\ excused' = (excused \/ (dir' # dir /\ \E a \in Attempts : att[a].pc # "idle"))
              /\ UNCHANGED <<tauri, ui, manifest, source, cancelled, mock, cancelling, att,
                             rust, disk, spoiled>>

----------------------------------------------------------------------------
(* What each page offers: the buttons it renders in the given phase. *)

OffersWelcome == {"start"}
OffersOptions == {"browse", "source", "back", "next"}
OffersProgress == CASE phase = "download" -> {"cancel"}
                    [] phase = "error" -> {"back"}
                    [] OTHER -> {}
OffersFinish == {"openFolder", "finish"}
Offers == CASE page = "welcome" -> OffersWelcome
            [] page = "options" -> OffersOptions
            [] page = "progress" -> OffersProgress
            [] page = "finish" -> OffersFinish
            [] OTHER -> {}

Turn == /\ \/ "start" \in Offers /\ page' = "options"
           \/ "back" \in Offers /\ page' = (IF page = "options" THEN "welcome" ELSE "options")
        /\ UNCHANGED <<tauri, phase, dir, manifest, source, cancelled, boot, mock,
                       cancelling, att, rust, disk, spoiled, excused>>

\* The directory typed into the field, or picked in the dialog of handleBrowse.
ChooseDir == /\ "browse" \in Offers
             /\ dir' \in (IF tauri THEN {"picked", " picked", "relative"} ELSE {"relative"})
             /\ UNCHANGED <<tauri, ui, manifest, source, cancelled, boot, mock, cancelling,
                            att, rust, disk, spoiled, excused>>

PickSource == /\ "source" \in Offers /\ tauri /\ source' = TRUE
              /\ UNCHANGED <<tauri, ui, dir, manifest, cancelled, boot, mock, cancelling, att,
                             rust, disk, spoiled, excused>>

\* runMock: the browser preview walks through the phases on timers.
RunMock == mock' = "download"
MockNext == [download |-> "verify", verify |-> "install", install |-> "finish", finish |-> "off"]
MockTick == /\ mock # "off"
            /\ mock' = MockNext[mock]
            /\ phase' = IF mock' = "off" THEN "done" ELSE IF mock' = "finish" THEN phase ELSE mock'
            /\ page' = IF mock' = "off" THEN "finish" ELSE page
            /\ UNCHANGED <<tauri, dir, manifest, source, cancelled, boot, cancelling, att,
                           rust, disk, spoiled, excused>>

\* beginInstall up to its first await.  The check trims the directory and the
\* state takes the trimmed one; the attempt goes on with the one it captured.
BeginInstall(a) ==
    /\ "next" \in Offers /\ IsAbsolute(Trim(dir))
    /\ att[a].pc = "idle" /\ \A b \in Attempts : b < a => att[b].pc # "idle"
    /\ dir' = Trim(dir)
    /\ page' = "progress" /\ phase' = "download"
    /\ cancelled' = FALSE
    /\ IF tauri
       THEN /\ mock' = "off"
            /\ att' = [att EXCEPT ![a] = [pc |-> "call", urls |-> UrlCount(manifest), dir |-> dir,
                                          real |-> Reachable(manifest), import |-> source, file |-> 1]]
       ELSE RunMock /\ att' = [att EXCEPT ![a] = Over(a)]
    /\ spoiled' = (spoiled \/ \E b \in Attempts : Live(b) \/ proc[b] = "running")
    /\ UNCHANGED <<tauri, manifest, source, boot, cancelling, rust, disk, excused>>

----------------------------------------------------------------------------
(* beginInstall after its first await. *)

\* Variant: the catch block only sets the message.
FailSilently(a) == /\ att' = [att EXCEPT ![a] = [Over(a) EXCEPT !.import = FALSE]]
                   /\ UNCHANGED ui
\* The catch block: whatever failed, the page shows the error.
Fail(a) == /\ att' = [att EXCEPT ![a] = [Over(a) EXCEPT !.import = FALSE]]
           /\ phase' = "error" /\ UNCHANGED page

\* The loop of downloadPayload: any error, a cancellation included, moves on to
\* the next address; the last one is thrown.
NextUrl(a) == IF att[a].urls > 1
              THEN /\ att' = [att EXCEPT ![a].urls = @ - 1, ![a].pc = "call"]
                   /\ UNCHANGED ui
              ELSE Fail(a)

\* download_payload starts: it clears the cancel flag and claims the slot.
CallDownload(a) ==
    /\ att[a].pc = "call"
    /\ att' = [att EXCEPT ![a].pc = "connect"]
    /\ flag' = FALSE /\ active' = TRUE
    /\ UNCHANGED <<tauri, ui, dir, manifest, source, cancelled, boot, mock, cancelling,
                   payload, proc, ran, okFile, disk, spoiled, excused>>

\* download_payload fails: no connection, a bad status, a broken or cancelled
\* stream, a size that is not the manifest's, or a payload that is running and
\* cannot be replaced.  The guard drops download_active.
DownloadFails(a) ==
    /\ att[a].pc \in {"connect", "stream"}
    /\ NextUrl(a)
    /\ active' = FALSE
    /\ UNCHANGED <<tauri, dir, manifest, source, cancelled, boot, mock, cancelling, flag,
                   payload, proc, ran, okFile, disk, spoiled, excused>>

Connected(a) ==
    /\ att[a].pc = "connect" /\ att[a].real
    /\ att' = [att EXCEPT ![a].pc = "stream"]
    /\ UNCHANGED <<tauri, ui, dir, manifest, source, cancelled, boot, mock, cancelling,
                   rust, disk, spoiled, excused>>

\* The stream is complete and the flag is not set: the file takes its final
\* name.  The server may have sent other bytes; two attempts write one file.
Downloaded(a) ==
    /\ att[a].pc = "stream" /\ ~flag
    /\ \A b \in Attempts : proc[b] # "running"
    /\ payload' \in {"good", "bad"}
    /\ active' = FALSE
    /\ att' = [att EXCEPT ![a].pc = "check"]
    /\ UNCHANGED <<tauri, ui, dir, manifest, source, cancelled, boot, mock, cancelling, flag,
                   proc, ran, okFile, disk, spoiled, excused>>

\* Variant: the ref is not looked at.
CheckNothing(a) ==
    /\ att[a].pc = "check"
    /\ att' = [att EXCEPT ![a].pc = "verify"]
    /\ phase' = "verify" /\ UNCHANGED page
    /\ UNCHANGED <<tauri, dir, manifest, source, cancelled, boot, mock, cancelling,
                   rust, disk, spoiled, excused>>
CheckCancelled(a) ==
    /\ att[a].pc = "check"
    /\ IF cancelled THEN Fail(a)
       ELSE /\ att' = [att EXCEPT ![a].pc = "verify"]
            /\ phase' = "verify" /\ UNCHANGED page
    /\ UNCHANGED <<tauri, dir, manifest, source, cancelled, boot, mock, cancelling,
                   rust, disk, spoiled, excused>>

\* verify_payload hashes the file that is there now.
Verified(a) ==
    /\ att[a].pc = "verify"
    /\ IF payload # "good" THEN Fail(a)
       ELSE /\ att' = [att EXCEPT ![a].pc = "run"]
            /\ phase' = "install" /\ UNCHANGED page
    /\ UNCHANGED <<tauri, dir, manifest, source, cancelled, boot, mock, cancelling,
                   rust, disk, spoiled, excused>>

\* run_payload and poll_install, started together once the listener is there:
\* both refuse a relative directory; the payload may fail to start.
RunPayload(a) ==
    /\ att[a].pc = "run"
    /\ \/ /\ IsAbsolute(att[a].dir)
          /\ proc' = [proc EXCEPT ![a] = "running"]
          /\ ran' = [ran EXCEPT ![a] = payload]
          /\ att' = [att EXCEPT ![a].pc = "poll"]
          /\ UNCHANGED ui
       \/ Fail(a) /\ UNCHANGED <<proc, ran>>
    /\ UNCHANGED <<tauri, dir, manifest, source, cancelled, boot, mock, cancelling, flag, active,
                   payload, okFile, disk, spoiled, excused>>

\* The process: NSIS writes install.ok last.  It outlives the window.
PayloadEnds(a) ==
    /\ proc[a] = "running"
    /\ \/ /\ proc' = [proc EXCEPT ![a] = "zero"]
          /\ okFile' = okFile \cup {att[a].dir}
       \/ proc' = [proc EXCEPT ![a] = "failed"] /\ UNCHANGED okFile
    /\ UNCHANGED <<tauri, ui, dir, manifest, source, cancelled, boot, mock, cancelling, att,
                   flag, active, payload, ran, disk, spoiled, excused>>

\* poll_install finds an install.ok of this version ...
PollFinds(a) ==
    /\ att[a].pc = "poll" /\ att[a].dir \in okFile
    /\ att' = [att EXCEPT ![a].pc = "wait"]
    /\ UNCHANGED <<tauri, ui, dir, manifest, source, cancelled, boot, mock, cancelling,
                   rust, disk, spoiled, excused>>

\* ... or its 120 s are over: Promise.all rejects, the process runs on.
PollTimesOut(a) ==
    /\ att[a].pc = "poll" /\ att[a].dir \notin okFile
    /\ Fail(a)
    /\ excused' = TRUE
    /\ UNCHANGED <<tauri, dir, manifest, source, cancelled, boot, mock, cancelling,
                   rust, disk, spoiled>>

\* Variant: the exit code is ignored.
InstallSettlesAnyway(a) ==
    /\ att[a].pc = "wait" /\ proc[a] # "running"
    /\ att' = [att EXCEPT ![a].pc = IF att[a].import THEN "backup" ELSE "finish"]
    /\ UNCHANGED <<tauri, ui, dir, manifest, source, cancelled, boot, mock, cancelling,
                   rust, disk, spoiled, excused>>
\* Promise.all has both results.
InstallSettles(a) ==
    /\ att[a].pc = "wait" /\ proc[a] # "running"
    /\ IF proc[a] # "zero" THEN Fail(a)
       ELSE att' = [att EXCEPT ![a].pc = IF att[a].import THEN "backup" ELSE "finish"] /\ UNCHANGED ui
    /\ UNCHANGED <<tauri, dir, manifest, source, cancelled, boot, mock, cancelling,
                   rust, disk, spoiled, excused>>

Finish(a) ==
    /\ att[a].pc = "finish"
    /\ att' = [att EXCEPT ![a] = Over(a)]
    /\ phase' = "done" /\ page' = "finish"
    /\ UNCHANGED <<tauri, dir, manifest, source, cancelled, boot, mock, cancelling,
                   rust, disk, spoiled, excused>>

----------------------------------------------------------------------------
(* import_blocking, file by file: move the user's file to a backup name,    *)
(* copy the imported one; on an error remove every destination touched so   *)
(* far, the current one included, and move the backups back.  A file that   *)
(* cannot be moved back stays in its backup, its destination removed or     *)
(* not; rollback goes on with the next one.                                 *)

Rollback(a) ==
    LET touched == {Files[i] : i \in 1 .. att[a].file} IN
    \E stuck \in SUBSET touched, removed \in SUBSET touched :
        /\ data' = [f \in Names |-> IF f \notin touched \/ f \in stuck \ removed THEN data[f]
                                    ELSE IF f \in stuck THEN "none" ELSE bak[a][f]]
        /\ bak' = [bak EXCEPT ![a] = [f \in Names |-> IF f \in touched \ stuck THEN "none" ELSE @[f]]]

\* One import at a time (a bound): a second one waits for the first.
Importing(a) == \A b \in Attempts \ {a} : ~(att[b].pc = "copy" \/ (att[b].pc = "backup" /\ att[b].file > 1))

\* Variant: the existing file is not moved out of the way.
ImportNoBackup(a) ==
    /\ att[a].pc = "backup" /\ Importing(a)
    /\ att' = [att EXCEPT ![a].pc = "copy"]
    /\ UNCHANGED <<tauri, ui, dir, manifest, source, cancelled, boot, mock, cancelling,
                   rust, disk, spoiled, excused>>
ImportBackup(a) ==
    LET f == Files[att[a].file] IN
    /\ att[a].pc = "backup" /\ Importing(a)
    /\ \/ /\ data' = [data EXCEPT ![f] = "none"]
          /\ bak' = [bak EXCEPT ![a][f] = data[f]]
          /\ att' = [att EXCEPT ![a].pc = "copy"]
          /\ UNCHANGED <<ui, unsaved>>
       \/ /\ data[f] # "none"
          /\ Rollback(a) /\ Fail(a)
          /\ unsaved' = unsaved \cup {f}
    /\ UNCHANGED <<tauri, dir, manifest, source, cancelled, boot, mock, cancelling,
                   rust, spoiled, excused>>

\* copy may fail half way; what it wrote is then removed.
ImportCopy(a) ==
    LET f == Files[att[a].file] IN
    /\ att[a].pc = "copy" /\ Importing(a)
    /\ \/ /\ data' = [data EXCEPT ![f] = "new"]
          /\ att' = [att EXCEPT ![a].file = @ + 1,
                                ![a].pc = IF att[a].file = Len(Files) THEN "finish" ELSE "backup"]
          /\ UNCHANGED <<ui, bak>>
       \/ Rollback(a) /\ Fail(a)
    /\ UNCHANGED <<tauri, dir, manifest, source, cancelled, boot, mock, cancelling,
                   rust, unsaved, spoiled, excused>>

----------------------------------------------------------------------------
(* Cancelling and closing. *)

CancelClick ==
    /\ "cancel" \in Offers /\ cancelling = "no"
    /\ cancelled' = TRUE /\ mock' = "off" /\ excused' = TRUE
    /\ IF tauri THEN cancelling' = "asked" /\ UNCHANGED ui
       ELSE phase' = "error" /\ UNCHANGED <<page, cancelling>>
    /\ UNCHANGED <<tauri, dir, manifest, source, boot, att, rust, disk, spoiled>>

\* cancel_download: a no-op unless a download is active.
CancelServed ==
    /\ cancelling = "asked"
    /\ cancelling' = "served"
    /\ flag' = (flag \/ active)
    /\ UNCHANGED <<tauri, ui, dir, manifest, source, cancelled, boot, mock, att, active,
                   payload, proc, ran, okFile, disk, spoiled, excused>>

CancelAnswered ==
    /\ cancelling = "served"
    /\ cancelling' = "no"
    /\ phase' = "error"
    /\ UNCHANGED <<tauri, page, dir, manifest, source, cancelled, boot, mock, att,
                   rust, disk, spoiled, excused>>

\* handleFinish (when launching succeeds) and handleClose (which asks first
\* while an attempt is active) close the window.  The process is gone, and with it every
\* attempt, in whatever step it was, and the memory of the page.
Close == /\ page # "closed" /\ tauri
         /\ page' = "closed" /\ phase' = "download"
         /\ dir' = "placeholder" /\ manifest' = "built-in" /\ source' = FALSE
         /\ cancelled' = FALSE /\ cancelling' = "no" /\ boot' = "over"
         /\ att' = [a \in Attempts |-> Over(a)]
         /\ UNCHANGED <<tauri, mock, rust, disk, spoiled, excused>>

Step(a) == \/ CallDownload(a) \/ Connected(a) \/ Downloaded(a) \/ DownloadFails(a)
           \/ CheckCancelled(a) \/ Verified(a) \/ RunPayload(a)
           \/ PollFinds(a) \/ PollTimesOut(a) \/ InstallSettles(a)
           \/ ImportBackup(a) \/ ImportCopy(a) \/ Finish(a)
Boot == ManifestAnswers \/ DirAnswers
Cancelling == CancelServed \/ CancelAnswered

Next == \/ Boot \/ Turn \/ ChooseDir \/ PickSource \/ MockTick
        \/ CancelClick \/ Cancelling \/ Close
        \/ \E a \in Attempts : BeginInstall(a) \/ Step(a) \/ PayloadEnds(a)

Spec == Init /\ [][Next]_vars

\* Timers fire and every command answers: reqwest has timeouts, poll_install
\* ends after 120 s, and hashing and copying are local.
FairSpec == /\ Spec /\ WF_vars(Boot) /\ WF_vars(MockTick) /\ WF_vars(Cancelling)
            /\ \A a \in Attempts : WF_vars(Step(a))

\* run_payload waits for NSIS without a timeout.
FairPayload == \A a \in Attempts : WF_vars(PayloadEnds(a))

----------------------------------------------------------------------------
\* The finish page is shown only for an installation that happened: some
\* attempt's payload ended with 0, install.ok of that version lies in its
\* directory, every data file it was to import is in place, and the directory
\* the page names and launches from is that one, unless a cancellation or a late
\* default directory let it change in between.
FinishIsEarned ==
    page = "finish" /\ tauri =>
        \E a \in Attempts :
            /\ att[a].pc = "over" /\ proc[a] = "zero" /\ att[a].dir \in okFile
            /\ att[a].import => \A f \in Names : data[f] = "new" \/ spoiled
            /\ dir = att[a].dir \/ excused

\* "The one download that this bootstrapper can run at a time" (state.rs): as
\* long as nobody cancelled and no payload overran its time, one attempt and
\* one payload are alive, and the bytes that run are the ones the manifest
\* promises, although the file is hashed before and outside the launch.
OneAtATime ==
    excused \/ /\ Cardinality({a \in Attempts : Live(a) \/ proc[a] = "running"}) <= 1
               /\ \A a \in Attempts : ran[a] # "bad"

\* What the installer shows and runs is what it promised.
InstallIsEarned == FinishIsEarned /\ OneAtATime

\* A cancelled installation writes nothing: no payload starts after the click,
\* whichever await the attempt was in, unless a second attempt overlapped it.
CancelledStays ==
    [][\A a \in Attempts : proc[a] = "none" /\ proc'[a] = "running" => ~cancelled \/ spoiled]_vars

\* The import keeps what it could set aside: at every instant, so also when the
\* window is closed half way, and after every failure of a rename, a copy or a
\* step of the rollback, each old data file is in its place or in a backup.
\* The one exception is the file whose own rename to the backup failed: it counts
\* as touched before its backup is made, so the rollback removes the user's only
\* copy, against the "all-or-nothing rollback" of import_data's comment. That loss
\* costs none of the others.
OldDataSurvives ==
    \A f \in Had \ unsaved : data[f] = "old" \/ \E a \in Attempts : bak[a][f] = "old"

\* The progress page never hangs: a download, verification or installation it
\* shows ends in an error or on the finish page, also when its answers cross a
\* cancellation, provided the payload's process ends.
InstallEnds ==
    FairPayload => ((page = "progress" /\ phase \in Active)
                       ~> (phase \in {"error", "done"} \/ page = "closed"))
=============================================================================
