-------------------------- MODULE ConfigStoreProofs --------------------------
(***************************************************************************)
(* Proofs about ConfigStore, for any number of overlapping requests and    *)
(* any number of starts, kills and power failures: the file is whole and,  *)
(* at rest, current, what is in use is what is configured, and a PUT       *)
(* changes what it carries and nothing else.  And about the pages that     *)
(* read and write it (AdminPages), for any providers, keys,                *)
(* prompts and probes: what they show is what the service has.             *)
(***************************************************************************)
EXTENDS ConfigStore, AdminPages, TLAPS

Whole == {Missing, Empty} \cup Config
InSave(r) == pc[r] \in {"marshal", "write", "rename", "remove"}

(* Save's critical section: the owner of mu is the one request in Save, the*)
(* temporary file about to be renamed holds Cfg, whatever a power failure  *)
(* leaves is whole, and nobody handles requests of a program that ended.   *)
SaveInv ==
  /\ \A r \in Request : InSave(r) <=> mu = r
  /\ \A r \in Request : pc[r] = "rename" => tmp = cfg
  /\ FileIsWhole /\ disk \subseteq Whole
  /\ ~running => InProgress = {}

(* What SavedIsCurrent forgets: who may still be about to save.            *)
Applied(r) == pc[r] \in {"provider", "save"} \/ InSave(r)
SavedInv ==
  running /\ lastSave = "stored" => file = cfg \/ \E r \in Request : Applied(r)

(* One request at a time takes the three settings along step by step.      *)
Carries(r) == next[r] = [f \in Field |-> IF f \in body[r] THEN r ELSE cfg[f]]
ProviderInUse == provider = cfg["provider"]
PromptInUse == prompt = cfg["prompt"]
InUseInv ==
  running /\ ~overlapped =>
    /\ \A r, s \in InProgress : r = s
    /\ (\A r \in Request : pc[r] # "provider") => ProviderInUse
    /\ (\A r \in Request : pc[r] # "apply") => PromptInUse
    /\ \A r \in Request :
         /\ pc[r] \in {"prompt", "apply"} => Carries(r)
         /\ pc[r] = "prompt" => "prompt" \in body[r]
         /\ pc[r] = "apply" => prompt = next[r]["prompt"]
         /\ pc[r] = "provider" => next[r] = cfg

Inv == TypeOK /\ SaveInv /\ SavedInv /\ InUseInv

-----------------------------------------------------------------------------
(* TypeOK.                                                                 *)

LEMMA ConfigsTyped ==
    /\ Defaults \in Config /\ (TypeOK => Loaded \in Config)
    /\ \A c \in Config : [c EXCEPT !["listen"] = Override] \in Config
    /\ \A c \in Config, f \in Field : c[f] \in Value
    /\ "provider" \in Field /\ "prompt" \in Field /\ "listen" \in Field
    /\ Config \subseteq Contents /\ Request \subseteq Value
BY DEF Defaults, TypeOK, Loaded, Config, Field, Editable, Value, Contents

LEMMA TypesPreserved == TypeOK /\ [Next]_vars => TypeOK'
<1> SUFFICES ASSUME TypeOK, [Next]_vars PROVE TypeOK'
  OBVIOUS
<1> USE DEF TypeOK, memVars, diskVars
<1>1. ASSUME NEW flag \in BOOLEAN, Start(flag) PROVE TypeOK'
  <2>1. Loaded \in Config /\ [Loaded EXCEPT !["listen"] = Override] \in Config
    BY ConfigsTyped
  <2>2. cfg' \in Config /\ provider' \in Value /\ prompt' \in Value
    BY <1>1, <2>1, ConfigsTyped DEF Start
  <2>3. starts' \in 0 .. MaxStarts
    BY <1>1, ConfigAssumption DEF Start
  <2> QED BY <1>1, <2>2, <2>3 DEF Start
<1>2. ASSUME NEW r \in Request, NEW fields \in SUBSET Editable, Decode(r, fields) PROVE TypeOK'
  BY <1>2 DEF Decode, Go
<1>3. ASSUME NEW r \in Request, Handler(r) PROVE TypeOK'
  <2>1. CASE Snapshot(r)
    <3>1. next' \in [Request -> Config]
      BY <2>1, ConfigsTyped DEF Snapshot, Config
    <3> QED BY <2>1, <3>1 DEF Snapshot, Go
  <2>2. CASE SetPrompt(r) \/ SetProvider(r)
    BY <2>2, ConfigsTyped DEF SetPrompt, SetProvider, Go
  <2>3. CASE Apply(r)
    BY <2>3 DEF Apply, Go
  <2>4. CASE SaveLock(r)
    BY <2>4 DEF SaveLock, Go
  <2>5. CASE WriteTmp(r) \/ TmpWritten(r)
    BY <2>5, ConfigsTyped DEF WriteTmp, TmpWritten, Go, Contents
  <2>6. CASE WriteFails(r) \/ RenameFails(r)
    BY <2>6 DEF WriteFails, RenameFails, SaveEnds, Go
  <2>7. CASE Rename(r)
    BY <2>7 DEF Rename, SaveEnds, Go, Contents
  <2>8. CASE RemoveTmp(r)
    BY <2>8 DEF RemoveTmp, SaveEnds, Go, Contents
  <2> QED BY <1>3, <2>1, <2>2, <2>3, <2>4, <2>5, <2>6, <2>7, <2>8 DEF Handler
<1>4. CASE WrittenOut
  BY <1>4 DEF WrittenOut
<1>5. CASE Killed
  BY <1>5 DEF Killed
<1>6. CASE PowerFails
  BY <1>6 DEF PowerFails
<1>7. CASE UNCHANGED vars
  BY <1>7 DEF vars
<1> QED BY <1>1, <1>2, <1>3, <1>4, <1>5, <1>6, <1>7 DEF Next, Over

-----------------------------------------------------------------------------
(* Save's critical section.                                                *)

LEMMA SavePreserved == TypeOK /\ SaveInv /\ [Next]_vars => SaveInv'
<1> SUFFICES ASSUME TypeOK, SaveInv, [Next]_vars PROVE SaveInv'
  OBVIOUS
<1> USE ConfigAssumption DEF TypeOK, memVars, diskVars, SaveInv, InSave, InProgress, Whole, FileIsWhole
<1>1. ASSUME NEW flag \in BOOLEAN, Start(flag) PROVE SaveInv'
  BY <1>1 DEF Start
<1>2. ASSUME NEW r \in Request, NEW fields \in SUBSET Editable, Decode(r, fields) PROVE SaveInv'
  BY <1>2 DEF Decode, Go
<1>3. ASSUME NEW r \in Request, Handler(r) PROVE SaveInv'
  <2>1. CASE Snapshot(r) \/ SetPrompt(r) \/ SetProvider(r)
    BY <2>1 DEF Snapshot, SetPrompt, SetProvider, Go
  <2>2. CASE Apply(r)
    BY <2>2 DEF Apply, Go
  <2>3. CASE SaveLock(r)
    BY <2>3 DEF SaveLock, Go
  <2>4. CASE WriteTmp(r)
    BY <2>4 DEF WriteTmp, Go
  <2>5. CASE TmpWritten(r)
    BY <2>5 DEF TmpWritten, Go
  <2>6. CASE WriteFails(r)
    BY <2>6 DEF WriteFails, SaveEnds, Go
  <2>7. CASE Rename(r)
    BY <2>7 DEF Rename, SaveEnds, Go
  <2>8. CASE RenameFails(r)
    BY <2>8 DEF RenameFails, Go
  <2>9. CASE RemoveTmp(r)
    BY <2>9 DEF RemoveTmp, SaveEnds, Go
  <2> QED BY <1>3, <2>1, <2>2, <2>3, <2>4, <2>5, <2>6, <2>7, <2>8, <2>9 DEF Handler
<1>4. CASE WrittenOut
  BY <1>4 DEF WrittenOut
<1>5. CASE Killed
  BY <1>5 DEF Killed
<1>6. CASE PowerFails
  BY <1>6 DEF PowerFails
<1>7. CASE UNCHANGED vars
  BY <1>7 DEF vars
<1> QED BY <1>1, <1>2, <1>3, <1>4, <1>5, <1>6, <1>7 DEF Next, Over

LEMMA SavedPreserved == TypeOK /\ SaveInv /\ SavedInv /\ [Next]_vars => SavedInv'
<1> SUFFICES ASSUME TypeOK, SaveInv, SavedInv, [Next]_vars, running', lastSave' = "stored"
             PROVE  (file = cfg \/ \E r \in Request : Applied(r))'
  BY DEF SavedInv
<1> DEFINE Goal == file' = cfg' \/ \E r \in Request : Applied(r)'
<1> USE DEF TypeOK, memVars, diskVars, SavedInv, Applied, InSave
<1>1. ASSUME NEW flag \in BOOLEAN, Start(flag) PROVE FALSE
  BY <1>1 DEF Start
<1>2. ASSUME NEW r \in Request, NEW fields \in SUBSET Editable, Decode(r, fields) PROVE Goal
  BY <1>2 DEF Decode, Go
<1>3. ASSUME NEW r \in Request, Handler(r) PROVE Goal
  <2>1. CASE Snapshot(r) \/ SetPrompt(r)
    BY <2>1 DEF Snapshot, SetPrompt, Go
  <2>2. CASE Apply(r)
    BY <2>2 DEF Apply, Go
  <2>3. CASE SetProvider(r) \/ SaveLock(r)
    BY <2>3 DEF SetProvider, SaveLock, Go
  <2>4. CASE WriteTmp(r) \/ TmpWritten(r) \/ RenameFails(r)
    BY <2>4 DEF WriteTmp, TmpWritten, RenameFails, Go
  <2>5. CASE WriteFails(r) \/ RemoveTmp(r)
    BY <2>5 DEF WriteFails, RemoveTmp, SaveEnds
  <2>6. CASE Rename(r)
    BY <2>6 DEF Rename, Go, SaveInv
  <2> QED BY <1>3, <2>1, <2>2, <2>3, <2>4, <2>5, <2>6 DEF Handler
<1>4. CASE WrittenOut \/ UNCHANGED vars
  BY <1>4 DEF WrittenOut, vars
<1>5. CASE Killed \/ PowerFails
  BY <1>5 DEF Killed, PowerFails
<1> QED BY <1>1, <1>2, <1>3, <1>4, <1>5 DEF Next, Over

-----------------------------------------------------------------------------
(* What is in use.                                                         *)

LEMMA InUsePreserved == TypeOK /\ SaveInv /\ InUseInv /\ [Next]_vars => InUseInv'
<1> SUFFICES ASSUME TypeOK, SaveInv, InUseInv, [Next]_vars PROVE InUseInv'
  OBVIOUS
<1> USE DEF TypeOK, memVars, diskVars, InUseInv, InProgress, Carries, ProviderInUse, PromptInUse
<1>1. ASSUME NEW flag \in BOOLEAN, Start(flag) PROVE InUseInv'
  <2>1. cfg'["provider"] = Loaded["provider"] /\ cfg'["prompt"] = Loaded["prompt"]
    BY <1>1, ConfigsTyped DEF Start, Config, Field, Editable
  <2>2. \A r \in Request : pc'[r] \in {"none", "ok", "lost"}
    BY <1>1 DEF Start, SaveInv
  <2> QED BY <1>1, <2>1, <2>2 DEF Start
<1>2. ASSUME NEW r \in Request, NEW fields \in SUBSET Editable, Decode(r, fields) PROVE InUseInv'
  <2> SUFFICES ASSUME running', ~overlapped' PROVE InUseInv'
    BY DEF InUseInv
  <2>1. running /\ ~overlapped /\ \A s \in Request : pc[s] \in {"none", "ok", "lost"}
    BY <1>2 DEF Decode, Go
  <2>2. pc' = [pc EXCEPT ![r] = "snapshot"] /\ cfg' = cfg /\ provider' = provider /\ prompt' = prompt
    BY <1>2 DEF Decode, Go
  <2> QED BY <2>1, <2>2
<1>3. ASSUME NEW r \in Request, Handler(r) PROVE InUseInv'
  <2> SUFFICES ASSUME running', ~overlapped' PROVE InUseInv'
    BY DEF InUseInv
  <2>0. /\ running /\ ~overlapped
        /\ \A s \in Request \ {r} : pc[s] \in {"none", "ok", "lost"}
        /\ \A s \in Request \ {r} : pc'[s] = pc[s] /\ pc'[r] # "snapshot"
    <3>1. running /\ ~overlapped /\ r \in InProgress
      BY <1>3 DEF Handler, Snapshot, SetPrompt, Apply, SetProvider, SaveLock, WriteTmp, TmpWritten,
                  WriteFails, Rename, RenameFails, RemoveTmp, Go
    <3>2. \E to : to # "snapshot" /\ pc' = [pc EXCEPT ![r] = to]
      BY <1>3 DEF Handler, Snapshot, SetPrompt, Apply, SetProvider, SaveLock, WriteTmp, TmpWritten,
                  WriteFails, Rename, RenameFails, RemoveTmp, Go
    <3> QED BY <3>1, <3>2
  <2>1. CASE Snapshot(r)
    BY <2>0, <2>1, ConfigsTyped DEF Snapshot, Go
  <2>2. CASE SetPrompt(r)
    BY <2>0, <2>2, ConfigsTyped DEF SetPrompt, Go
  <2>3. CASE Apply(r)
    BY <2>0, <2>3, ConfigsTyped DEF Apply, Go
  <2>4. CASE SetProvider(r)
    BY <2>0, <2>4, ConfigsTyped DEF SetProvider, Go
  <2>5. CASE SaveLock(r) \/ WriteTmp(r) \/ TmpWritten(r) \/ WriteFails(r) \/ Rename(r) \/ RenameFails(r) \/ RemoveTmp(r)
    <3>1. UNCHANGED <<cfg, provider, prompt, body, next>>
      BY <2>5 DEF SaveLock, WriteTmp, TmpWritten, WriteFails, Rename, RenameFails, RemoveTmp
    <3>2. pc[r] \notin {"prompt", "apply", "provider"} /\ pc'[r] \notin {"prompt", "apply", "provider"}
      BY <2>5 DEF SaveLock, WriteTmp, TmpWritten, WriteFails, Rename, RenameFails, RemoveTmp, Go
    <3> QED BY <2>0, <3>1, <3>2
  <2> QED BY <1>3, <2>1, <2>2, <2>3, <2>4, <2>5 DEF Handler
<1>4. CASE WrittenOut \/ UNCHANGED vars
  <2>1. UNCHANGED <<running, overlapped, cfg, provider, prompt, pc, body, next>>
    BY <1>4 DEF WrittenOut, vars
  <2> QED BY <2>1
<1>5. CASE Killed \/ PowerFails
  BY <1>5 DEF Killed, PowerFails
<1> QED BY <1>1, <1>2, <1>3, <1>4, <1>5 DEF Next, Over

LEMMA InvInvariant == Spec => []Inv
<1>1. Init => Inv
  <2> SUFFICES ASSUME Init PROVE Inv
    OBVIOUS
  <2>1. TypeOK
    <3>1. /\ starts \in 0 .. MaxStarts /\ cfg \in Config /\ mu \in Request \cup {Default}
          /\ provider \in Value /\ prompt \in Value
      BY ConfigsTyped, ConfigAssumption DEF Init, Value
    <3>2. /\ next \in [Request -> Config] /\ body \in [Request -> SUBSET Editable]
          /\ pc \in [Request -> {"none", "snapshot", "prompt", "apply", "provider", "save",
                                 "marshal", "write", "rename", "remove", "ok", "lost"}]
      BY ConfigsTyped DEF Init
    <3>3. file \in Contents /\ tmp \in Contents /\ disk \in SUBSET Contents
      BY DEF Init, Contents
    <3> QED BY <3>1, <3>2, <3>3 DEF Init, TypeOK
  <2>2. SaveInv
    BY ConfigAssumption DEF Init, SaveInv, InSave, Whole, FileIsWhole, InProgress
  <2> QED BY <2>1, <2>2 DEF Init, Inv, SavedInv, InUseInv
<1>2. Inv /\ [Next]_vars => Inv'
  BY TypesPreserved, SavePreserved, SavedPreserved, InUsePreserved DEF Inv
<1> QED BY <1>1, <1>2, PTL DEF Spec

(* However PUTs, kills, failing Saves and restarts interleave, config.yaml *)
(* stays whole from the first Save on, and can be empty or missing only    *)
(* after a power failure and before the next Save; once all is over and the*)
(* last Save worked, the settings in it are those in use; and provider and *)
(* prompt follow the configuration as long as PUTs do not overlap (Save of *)
(* load.go, the PUT handler of main.go).                                   *)
THEOREM ConfigStaysCoherent == Spec => []ConfigIsCoherent
<1>1. Inv => ConfigIsCoherent
  <2> SUFFICES ASSUME Inv PROVE ConfigIsCoherent
    OBVIOUS
  <2> USE DEF Inv
  <2>1. FileIsWhole
    BY DEF SaveInv
  <2>2. SavedIsCurrent
    <3>1. Quiet /\ lastSave = "stored" => file = cfg
      BY DEF SavedInv, Quiet, InProgress, Applied, InSave
    <3> QED BY <3>1 DEF SavedIsCurrent, TypeOK
  <2>3. InUseIsConfigured
    BY DEF InUseInv, InUseIsConfigured, Quiet, InProgress, ProviderInUse, PromptInUse
  <2> QED BY <2>1, <2>2, <2>3 DEF ConfigIsCoherent
<1> QED BY <1>1, InvInvariant, PTL

(* A PUT changes what its body carries and nothing else: Snapshot under the*)
(* lock and Apply of the whole copy lose no setting as long as requests do *)
(* not overlap.                                                            *)
THEOREM OnlyBodyIsApplied == Spec => OnlyBodyChanges
<1> DEFINE Step == running /\ running' /\ ~overlapped =>
                      \A f \in Field : cfg'[f] # cfg[f] =>
                         \E r \in Request : cfg'[f] = r /\ f \in body[r]
<1>1. ASSUME Inv, [Next]_vars PROVE Step
  <2> SUFFICES ASSUME running, running', ~overlapped, NEW f \in Field, cfg'[f] # cfg[f]
               PROVE  \E r \in Request : cfg'[f] = r /\ f \in body[r]
    OBVIOUS
  <2>1. PICK r \in Request : Apply(r)
    BY <1>1 DEF Next, Over, Start, Decode, Handler, Snapshot, SetPrompt, SetProvider, SaveLock, WriteTmp,
                TmpWritten, WriteFails, Rename, RenameFails, RemoveTmp, WrittenOut, Killed, PowerFails,
                memVars, vars
  <2>2. cfg' = next[r] /\ Carries(r)
    BY <1>1, <2>1 DEF Apply, Go, Inv, InUseInv
  <2> QED BY <2>1, <2>2 DEF Carries
<1>2. Spec => [][Step]_vars
  BY <1>1, InvInvariant, PTL DEF Spec
<1> QED BY <1>2 DEF OnlyBodyChanges

-----------------------------------------------------------------------------
(* The settings, prompt, autostart and log pages.                          *)

At(t) == task[t].st
Val(t) == task[t].val
Bodies == CASE page = "settings"  -> [provider : Providers] \cup [provider : Providers, key : Keys]
            [] page = "autostart" -> [autostart : BOOLEAN]
            [] page = "prompt"    -> [prompt : Prompts]
            [] page = "logs"      -> {<<>>}

\* Whose requests they are; nothing is asked before the configuration is there.
AdminTypes ==
    /\ page \in Pages /\ store \in StoreOf(page) /\ switch \in BOOLEAN /\ DOMAIN task = Tasks
    /\ At("load") # "none" => page # "logs"
    /\ saveStatus = "success" => At("load") = "live"
    /\ At("save") # "none" => page \in {"settings", "prompt"} /\ At("load") = "live"
    /\ At("toggle") # "none" => page = "autostart" /\ At("load") = "live"
    /\ At("auto") # "none" => page = "autostart" /\ At("load") = "live"
    /\ \A t \in {"save", "toggle"} : /\ At(t) \in {"sent", "ok"} => Val(t) \in Bodies
                                     /\ orphan.kind = t => orphan.val \in Bodies
    /\ At("toggle") = "failed" => Val("toggle") \in Bodies
    /\ orphan = NoOrphan \/ orphan.kind \in {"save", "toggle", "clear"}
    /\ orphan.kind = "save" => page \in {"settings", "prompt"}
    /\ orphan.kind = "toggle" => page = "autostart"
    /\ \A t \in {"load", "auto"} : page # "logs" /\ At(t) = "ok" => Val(t) \in StoreOf(page)

\* What was read is what the service has, unless a write of a page left before interfered.
ReadInv == page \in {"settings", "prompt"} /\ "config" \notin doubts /\ At("load") = "ok" => Val("load") = store

SettingsInv == page = "settings" /\ Ready =>
    /\ form \in [provider : Providers, key : Keys \cup {""}]
    /\ At("save") \in {"sent", "ok"} => Val("save").provider = clicked
    /\ "config" \notin doubts =>
         /\ At("save") # "ok" => masked = store.key
         /\ At("save") = "ok" => store.key = IF "key" \in DOMAIN Val("save") THEN Val("save").key ELSE masked
         /\ At("save") = "ok" => store.provider = clicked
         /\ At("save") = "none" /\ saveStatus = "success" => store.provider = clicked

PromptInv == page = "prompt" /\ Ready =>
    /\ text \in Prompts
    /\ At("save") \in {"sent", "ok"} => Val("save").prompt = clicked
    /\ "config" \notin doubts =>
         /\ At("save") # "ok" => saved = store.prompt
         /\ At("save") = "ok" => Val("save").prompt = store.prompt
         /\ At("save") = "none" /\ saveStatus = "success" => store.prompt = clicked

SwitchInv == page = "autostart" /\ "autostart" \notin doubts =>
    /\ At("auto") = "ok" => Val("auto") = store
    /\ At("auto") # "none" => At("toggle") = "none"
    /\ At("load") = "live" /\ At("auto") = "none" =>
         /\ At("toggle") = "none" => switch = store.autostart
         /\ At("toggle") \in {"sent", "failed"} => store.autostart = ~Val("toggle").autostart
         /\ At("toggle") = "ok" => store.autostart = Val("toggle").autostart

AdminInv == AdminTypes /\ ReadInv /\ SettingsInv /\ PromptInv /\ SwitchInv

LEMMA TasksAre ==
    ASSUME AdminAssumption
    PROVE  /\ {"load", "auto", "save", "toggle", "fetch", "clear"} \subseteq Tasks
           /\ Probes \subseteq Tasks
           /\ \A t \in Probes : t \notin {"load", "auto", "save", "toggle", "fetch", "clear"}
BY DEF AdminAssumption, Tasks

\* A write changes the fields it carries.
LEMMA Patches ==
    ASSUME NEW p, NEW k
    PROVE  /\ \A c \in [provider : p, key : k], b \in [provider : p] :
                 /\ Patched(c, b) \in [provider : p, key : k] /\ "key" \notin DOMAIN b
                 /\ Patched(c, b).provider = b.provider /\ Patched(c, b).key = c.key
           /\ \A c \in [provider : p, key : k], b \in [provider : p, key : k] :
                 /\ Patched(c, b) \in [provider : p, key : k] /\ "key" \in DOMAIN b
                 /\ Patched(c, b).provider = b.provider /\ Patched(c, b).key = b.key
           /\ \A c, b \in [autostart : p] :
                 Patched(c, b) \in [autostart : p] /\ Patched(c, b).autostart = b.autostart
           /\ \A c, b \in [prompt : p] : Patched(c, b) \in [prompt : p] /\ Patched(c, b).prompt = b.prompt
<1>1. ASSUME NEW c \in [provider : p, key : k], NEW b \in [provider : p]
      PROVE  /\ Patched(c, b) \in [provider : p, key : k] /\ "key" \notin DOMAIN b
             /\ Patched(c, b).provider = b.provider /\ Patched(c, b).key = c.key
  BY DEF Patched
<1>2. ASSUME NEW c \in [provider : p, key : k], NEW b \in [provider : p, key : k]
      PROVE  /\ Patched(c, b) \in [provider : p, key : k] /\ "key" \in DOMAIN b
             /\ Patched(c, b).provider = b.provider /\ Patched(c, b).key = b.key
  BY DEF Patched
<1>3. ASSUME NEW c \in [autostart : p], NEW b \in [autostart : p]
      PROVE  Patched(c, b) \in [autostart : p] /\ Patched(c, b).autostart = b.autostart
  BY DEF Patched
<1>4. ASSUME NEW c \in [prompt : p], NEW b \in [prompt : p]
      PROVE  Patched(c, b) \in [prompt : p] /\ Patched(c, b).prompt = b.prompt
  BY DEF Patched
<1> QED BY <1>1, <1>2, <1>3, <1>4

LEMMA FirstTasksAre ==
    ASSUME AdminAssumption, NEW p
    PROVE  /\ DOMAIN FirstTasks(p) = Tasks
           /\ \A t \in {"auto", "save", "toggle"} : FirstTasks(p)[t].st = "none"
           /\ FirstTasks(p)["load"].st = IF p = "logs" THEN "none" ELSE "sent"
           /\ \A t \in Tasks : FirstTasks(p)[t].st # "ok"
BY TasksAre DEF FirstTasks, None, Sent

-----------------------------------------------------------------------------
LEMMA OthersMove ==
    ASSUME AdminAssumption, AdminInv,
           UNCHANGED <<store, page, settings, editor, orphan, doubts>>,
           DOMAIN task' = Tasks, \A t \in {"load", "auto", "save", "toggle"} : task'[t] = task[t]
    PROVE  AdminInv'
<1>1. UNCHANGED <<store, page, form, masked, saveStatus, switch, clicked, text, saved, orphan, doubts>>
  BY DEF settings, editor
<1>2. \A t \in {"load", "auto", "save", "toggle"} : At(t)' = At(t) /\ Val(t)' = Val(t)
  BY DEF At, Val
<1>3. (Ready' <=> Ready) /\ Bodies' = Bodies
  BY <1>1, <1>2 DEF Ready, Bodies, At
<1>4. AdminTypes'
  BY <1>1, <1>2, <1>3 DEF AdminInv, AdminTypes
<1>5. ReadInv' /\ SettingsInv'
  BY <1>1, <1>2, <1>3 DEF AdminInv, ReadInv, SettingsInv
<1>6. PromptInv' /\ SwitchInv'
  BY <1>1, <1>2, <1>3 DEF AdminInv, PromptInv, SwitchInv
<1> QED BY <1>4, <1>5, <1>6 DEF AdminInv

\* What is written is part of what the page shows of the configuration.
LEMMA StorePatched ==
    ASSUME page \in Pages \ {"logs"}, NEW c \in StoreOf(page), NEW b \in Bodies
    PROVE  /\ Patched(c, b) \in StoreOf(page)
           /\ page = "settings" => /\ Patched(c, b).provider = b.provider
                                   /\ Patched(c, b).key = IF "key" \in DOMAIN b THEN b.key ELSE c.key
           /\ page = "prompt" => Patched(c, b).prompt = b.prompt
           /\ page = "autostart" => Patched(c, b).autostart = b.autostart
<1>1. CASE page = "settings"
  <2>0. PICK optional : optional = Keys \cup {""}
    OBVIOUS
  <2>1. /\ c \in [provider : Providers, key : optional]
        /\ StoreOf(page) = [provider : Providers, key : optional]
        /\ b \in [provider : Providers] \cup [provider : Providers, key : optional]
    BY <1>1, <2>0 DEF StoreOf, Bodies
  <2>2. /\ Patched(c, b) \in [provider : Providers, key : optional]
        /\ Patched(c, b).provider = b.provider
        /\ Patched(c, b).key = IF "key" \in DOMAIN b THEN b.key ELSE c.key
    BY <2>1, Patches
  <2> QED BY <1>1, <2>1, <2>2
<1>2. CASE page = "autostart"
  <2>1. c \in [autostart : BOOLEAN] /\ b \in [autostart : BOOLEAN]
    BY <1>2 DEF StoreOf, Bodies
  <2> QED BY <1>2, <2>1, Patches DEF StoreOf
<1>3. CASE page = "prompt"
  <2>1. c \in [prompt : Prompts] /\ b \in [prompt : Prompts]
    BY <1>3 DEF StoreOf, Bodies
  <2> QED BY <1>3, <2>1, Patches DEF StoreOf
<1> QED BY <1>1, <1>2, <1>3 DEF Pages

LEMMA WriteLands ==
    ASSUME AdminAssumption, AdminInv, WriteServed("save") \/ WriteServed("toggle")
    PROVE  AdminInv'
<1>1. PICK t \in {"save", "toggle"} : WriteServed(t)
  OBVIOUS
<1>2. /\ UNCHANGED <<page, form, masked, saveStatus, switch, clicked, text, saved, orphan, doubts>>
      /\ At(t) = "sent" /\ store' = Patched(store, Val(t))
  BY <1>1 DEF WriteServed, Written, settings, editor, Is, At, Val
<1>3. /\ DOMAIN task' = Tasks /\ task'[t].st = "ok" /\ task'[t].val = Val(t)
      /\ \A other \in Tasks \ {t} : task'[other] = task[other]
  <2>1. task' = [task EXCEPT ![t] = [st |-> "ok", val |-> Val(t)]]
    BY <1>1 DEF WriteServed, To, Val
  <2>2. DOMAIN task = Tasks /\ t \in Tasks
    BY TasksAre DEF AdminInv, AdminTypes
  <2> QED BY <2>1, <2>2
<1>4. /\ At(t)' = "ok" /\ Val(t)' = Val(t)
      /\ \A other \in {"load", "auto", "save", "toggle"} \ {t} : At(other)' = At(other) /\ Val(other)' = Val(other)
  BY <1>3, TasksAre DEF At, Val
<1>5. /\ At("load") = "live" /\ Val(t) \in Bodies /\ Bodies' = Bodies
      /\ t = "save" => page \in {"settings", "prompt"}
      /\ t = "toggle" => page = "autostart"
  BY <1>2 DEF AdminInv, AdminTypes, Bodies
<1>6. /\ store' \in StoreOf(page)
      /\ page = "settings" => /\ store'.provider = Val(t).provider
                              /\ store'.key = IF "key" \in DOMAIN Val(t) THEN Val(t).key ELSE store.key
      /\ page = "prompt" => store'.prompt = Val(t).prompt
      /\ page = "autostart" => store'.autostart = Val(t).autostart
  <2>1. PICK c \in StoreOf(page), b \in Bodies : c = store /\ b = Val(t)
    BY <1>5 DEF AdminInv, AdminTypes
  <2>2. page \in Pages \ {"logs"}
    BY <1>1, <1>5 DEF Pages
  <2>3. store' = Patched(c, b)
    BY <1>2, <2>1 DEF Patched
  <2>4. /\ Patched(c, b) \in StoreOf(page)
        /\ page = "settings" => /\ Patched(c, b).provider = b.provider
                                /\ Patched(c, b).key = IF "key" \in DOMAIN b THEN b.key ELSE c.key
        /\ page = "prompt" => Patched(c, b).prompt = b.prompt
        /\ page = "autostart" => Patched(c, b).autostart = b.autostart
    BY <2>2, StorePatched
  <2> QED BY <2>1, <2>3, <2>4
<1>7. AdminTypes'
  <2>1. store' \in StoreOf(page)' /\ page' \in Pages /\ switch' \in BOOLEAN
    BY <1>2, <1>6 DEF AdminInv, AdminTypes
  <2>2. \A r \in {"save", "toggle"} : /\ At(r)' \in {"sent", "ok"} => Val(r)' \in Bodies
                                      /\ orphan'.kind = r => orphan'.val \in Bodies
    BY <1>2, <1>4, <1>5 DEF AdminInv, AdminTypes
  <2>3. /\ At("auto")' = At("auto") /\ Val("auto")' = Val("auto")
        /\ At("load")' = At("load") /\ Val("load")' = Val("load")
    BY <1>4
  <2> QED BY <1>2, <1>3, <1>4, <1>5, <2>1, <2>2, <2>3 DEF AdminInv, AdminTypes
<1>8. ReadInv'
  BY <1>4, <1>5 DEF ReadInv
<1>9. Ready' <=> Ready
  BY <1>2, <1>4 DEF Ready, At
<1>10. SettingsInv'
  <2> SUFFICES ASSUME page = "settings", Ready
               PROVE  SettingsInv'
    BY <1>2, <1>9 DEF SettingsInv
  <2>1. t = "save"
    BY <1>5
  <2>3. /\ form \in [provider : Providers, key : Keys \cup {""}]
        /\ Val("save").provider = clicked
        /\ "config" \notin doubts => masked = store.key
    BY <1>2, <2>1 DEF AdminInv, SettingsInv
  <2> QED BY <1>2, <1>4, <1>6, <2>1, <2>3 DEF SettingsInv
<1>11. PromptInv'
  <2> SUFFICES ASSUME page = "prompt", Ready
               PROVE  PromptInv'
    BY <1>2, <1>9 DEF PromptInv
  <2>1. t = "save"
    BY <1>5
  <2>3. text \in Prompts /\ Val("save").prompt = clicked
    BY <1>2, <2>1 DEF AdminInv, PromptInv
  <2> QED BY <1>2, <1>4, <1>6, <2>1, <2>3 DEF PromptInv
<1>12. SwitchInv'
  <2> SUFFICES ASSUME page = "autostart", "autostart" \notin doubts
               PROVE  SwitchInv'
    BY <1>2 DEF SwitchInv
  <2>1. t = "toggle"
    BY <1>5
  <2>3. At("auto") = "none"
    BY <1>2, <2>1 DEF AdminInv, SwitchInv
  <2> QED BY <1>2, <1>4, <1>6, <2>1, <2>3 DEF SwitchInv
<1> QED BY <1>7, <1>8, <1>10, <1>11, <1>12 DEF AdminInv

LEMMA ReadLands ==
    ASSUME AdminAssumption, AdminInv, ReadServed("load") \/ ReadServed("auto")
    PROVE  AdminInv'
<1>1. PICK t \in {"load", "auto"} : ReadServed(t)
  OBVIOUS
<1>2. /\ UNCHANGED <<store, page, form, masked, saveStatus, switch, clicked, text, saved, orphan, doubts>>
      /\ At(t) = "sent" /\ To(t, "ok", store)
  BY <1>1, TasksAre DEF ReadServed, server, settings, editor, Is, At
<1>3. /\ DOMAIN task' = Tasks /\ task'[t].st = "ok" /\ task'[t].val = store
      /\ \A other \in Tasks \ {t} : task'[other] = task[other]
  BY <1>2, TasksAre DEF To, AdminInv, AdminTypes
<1>4. /\ At(t)' = "ok" /\ Val(t)' = store
      /\ \A other \in {"load", "auto", "save", "toggle"} \ {t} : At(other)' = At(other) /\ Val(other)' = Val(other)
  BY <1>3, TasksAre DEF At, Val
<1>5. Bodies' = Bodies /\ store \in StoreOf(page)
  BY <1>2 DEF Bodies, AdminInv, AdminTypes
<1>6. AdminTypes'
  BY <1>2, <1>3, <1>4, <1>5 DEF AdminInv, AdminTypes
<1>7. ReadInv'
  BY <1>2, <1>4 DEF AdminInv, ReadInv
<1>8. Ready' => Ready
  BY <1>2, <1>4 DEF Ready, At
<1>9. SettingsInv' /\ PromptInv'
  BY <1>2, <1>4, <1>8 DEF AdminInv, SettingsInv, PromptInv
<1>10. SwitchInv'
  BY <1>2, <1>4 DEF AdminInv, SwitchInv
<1> QED BY <1>6, <1>7, <1>9, <1>10 DEF AdminInv

LEMMA RequestFails ==
    ASSUME AdminAssumption, AdminInv, NEW t \in {"load", "auto", "save", "toggle"}, Fails(t)
    PROVE  AdminInv'
<1>2. /\ UNCHANGED <<store, page, form, masked, saveStatus, switch, clicked, text, saved, orphan>>
      /\ At(t) \in {"sent", "ok"} /\ To(t, "failed", IF t = "toggle" THEN Val(t) ELSE <<>>)
      /\ doubts \subseteq doubts'
      /\ At("save") = "ok" /\ t = "save" => "config" \in doubts'
      /\ At("toggle") = "ok" /\ t = "toggle" => "autostart" \in doubts'
  BY DEF Fails, server, settings, editor, Is, At, Val, Subject
<1>3. /\ DOMAIN task' = Tasks /\ task'[t].st = "failed" /\ (t = "toggle" => task'[t].val = Val(t))
      /\ \A other \in Tasks \ {t} : task'[other] = task[other]
  BY <1>2, TasksAre DEF To, AdminInv, AdminTypes
<1>4. /\ At(t)' = "failed" /\ (t = "toggle" => Val(t)' = Val(t))
      /\ \A other \in {"load", "auto", "save", "toggle"} \ {t} : At(other)' = At(other) /\ Val(other)' = Val(other)
  BY <1>3, TasksAre DEF At, Val
<1>5. Bodies' = Bodies
  BY <1>2 DEF Bodies
<1>6. AdminTypes'
  BY <1>2, <1>3, <1>4, <1>5 DEF AdminInv, AdminTypes
<1>7. ReadInv'
  BY <1>2, <1>4 DEF AdminInv, ReadInv
<1>8. Ready' => Ready
  BY <1>2, <1>4 DEF Ready, At
<1>9. SettingsInv'
  BY <1>2, <1>4, <1>8 DEF AdminInv, SettingsInv
<1>10. PromptInv'
  BY <1>2, <1>4, <1>8 DEF AdminInv, PromptInv
<1>11. SwitchInv'
  BY <1>2, <1>4 DEF AdminInv, AdminTypes, SwitchInv
<1> QED BY <1>6, <1>7, <1>9, <1>10, <1>11 DEF AdminInv

\* A write whose page was left: unless the read of the page now open is still to
\* come, what this page shows is in doubt.
LEMMA OrphanLands ==
    ASSUME AdminAssumption, AdminInv, OrphanServed
    PROVE  AdminInv'
<1>1. /\ UNCHANGED <<page, task, form, masked, saveStatus, switch, clicked, text, saved>>
      /\ orphan' = NoOrphan /\ orphan'.kind = "none" /\ doubts \subseteq doubts'
      /\ orphan.kind \in {"save", "toggle", "clear"}
  BY DEF OrphanServed, settings, editor, NoOrphan, AdminInv, AdminTypes
<1>2. /\ orphan.kind = "clear" => store' = store
      /\ orphan.kind # "clear" => store' = Patched(store, orphan.val)
      /\ orphan.kind = "save" => At("load") = "sent" \/ "config" \in doubts'
      /\ orphan.kind = "toggle" => At("auto") = "sent" \/ "autostart" \in doubts'
  BY DEF OrphanServed, Written, Subject, Is, At
<1>3. /\ \A t \in Tasks : At(t)' = At(t) /\ Val(t)' = Val(t)
      /\ (Ready' <=> Ready) /\ Bodies' = Bodies
  BY <1>1 DEF At, Val, Ready, Bodies
<1>4. store' \in StoreOf(page)'
  <2>1. CASE orphan.kind = "clear"
    BY <1>1, <1>2, <2>1 DEF AdminInv, AdminTypes
  <2>2. CASE orphan.kind # "clear"
    <3>1. page \in Pages \ {"logs"}
      BY <1>1, <2>2 DEF AdminInv, AdminTypes, Pages
    <3>2. PICK c \in StoreOf(page), b \in Bodies : c = store /\ b = orphan.val
      BY <1>1, <2>2 DEF AdminInv, AdminTypes
    <3>3. store' = Patched(c, b)
      BY <1>2, <2>2, <3>2 DEF Patched
    <3>4. Patched(c, b) \in StoreOf(page)
      BY <3>1, StorePatched
    <3> QED BY <1>1, <3>3, <3>4
  <2> QED BY <2>1, <2>2
<1>5. AdminTypes'
  BY <1>1, <1>3, <1>4, TasksAre DEF AdminInv, AdminTypes
<1>6. ReadInv'
  BY <1>1, <1>2, <1>3, TasksAre DEF AdminInv, AdminTypes, ReadInv
<1>7. Ready => At("load") = "live"
  BY DEF Ready, At
<1>8. SettingsInv'
  BY <1>1, <1>2, <1>3, <1>7, TasksAre DEF AdminInv, AdminTypes, SettingsInv
<1>9. PromptInv'
  BY <1>1, <1>2, <1>3, <1>7, TasksAre DEF AdminInv, AdminTypes, PromptInv
<1>10. SwitchInv'
  BY <1>1, <1>2, <1>3, TasksAre DEF AdminInv, AdminTypes, SwitchInv
<1> QED BY <1>5, <1>6, <1>8, <1>9, <1>10 DEF AdminInv

\* A page just opened has asked and shows nothing yet.
JustAsked ==
    /\ page \in Pages /\ store \in StoreOf(page) /\ switch \in BOOLEAN /\ task = FirstTasks(page)
    /\ saveStatus = "none"
    /\ orphan = NoOrphan \/ (orphan.kind \in {"save", "toggle", "clear"})
    /\ orphan.kind \in {"save", "toggle"} => orphan.val \in Bodies
    /\ orphan.kind = "save" => page \in {"settings", "prompt"}
    /\ orphan.kind = "toggle" => page = "autostart"

LEMMA PageOpened ==
    ASSUME AdminAssumption
    PROVE  JustAsked => AdminInv
<1> SUFFICES ASSUME JustAsked PROVE AdminInv
  OBVIOUS
<1>1. /\ DOMAIN task = Tasks /\ \A t \in {"auto", "save", "toggle"} : At(t) = "none"
      /\ At("load") = IF page = "logs" THEN "none" ELSE "sent"
  <2>1. PICK p : p = page
    OBVIOUS
  <2>2. /\ DOMAIN FirstTasks(p) = Tasks
        /\ FirstTasks(p)["load"].st = IF p = "logs" THEN "none" ELSE "sent"
        /\ \A t \in {"auto", "save", "toggle"} : FirstTasks(p)[t].st = "none"
    BY FirstTasksAre
  <2>3. task = FirstTasks(p)
    BY <2>1 DEF JustAsked, FirstTasks
  <2> QED BY <2>1, <2>2, <2>3 DEF At
<1>2. AdminTypes
  BY <1>1 DEF JustAsked, AdminTypes
<1>3. ReadInv /\ SettingsInv /\ PromptInv /\ SwitchInv
  BY <1>1 DEF ReadInv, SettingsInv, PromptInv, SwitchInv, Ready, At
<1> QED BY <1>2, <1>3 DEF AdminInv

LEMMA PageLeft ==
    ASSUME AdminAssumption, AdminInv, Leave
    PROVE  AdminInv'
<1>1. page' = page /\ store' = store /\ switch' = FALSE /\ saveStatus' = "none" /\ task' = FirstTasks(page)
  BY DEF Leave, server
<1>2. \/ orphan' = orphan
      \/ \E t \in {"save", "toggle", "clear"} :
           orphan'.kind = t /\ orphan'.val = Val(t) /\ At(t) = "sent"
  <2> DEFINE behind == {t \in {"save", "toggle", "clear"} : Is(t, "sent")}
  <2>1. \/ orphan' = orphan
        \/ \E t \in behind : orphan' = [kind |-> t, val |-> task[t].val]
    BY DEF Leave
  <2>2. ASSUME NEW t \in behind, orphan' = [kind |-> t, val |-> task[t].val]
        PROVE  /\ t \in {"save", "toggle", "clear"} /\ orphan'.kind = t
               /\ orphan'.val = Val(t) /\ At(t) = "sent"
    BY <2>2 DEF Is, At, Val
  <2> HIDE DEF behind
  <2> QED BY <2>1, <2>2
<1>3. JustAsked'
  <2>1. task' = FirstTasks(page')
    BY <1>1
  <2>2. page' \in Pages /\ store' \in StoreOf(page') /\ switch' \in BOOLEAN /\ Bodies' = Bodies
    BY <1>1 DEF AdminInv, AdminTypes, Bodies
  <2>3. CASE orphan' = orphan
    BY <1>1, <2>1, <2>2, <2>3 DEF AdminInv, AdminTypes, JustAsked
  <2>4. ASSUME NEW t \in {"save", "toggle", "clear"}, orphan'.kind = t, orphan'.val = Val(t), At(t) = "sent"
        PROVE  JustAsked'
    BY <1>1, <2>1, <2>2, <2>4 DEF AdminInv, AdminTypes, JustAsked
  <2> QED BY <1>2, <2>3, <2>4
<1>4. JustAsked' => AdminInv'
  BY PageOpened, PTL
<1> QED BY <1>3, <1>4

-----------------------------------------------------------------------------
(* The settings, autostart and prompt pages.                               *)

LEMMA LoadDelivered ==
    ASSUME AdminAssumption, AdminInv, ConfigLoaded \/ ConfigUnavailable
    PROVE  AdminInv'
<1>1. /\ UNCHANGED <<store, page, saveStatus, switch, clicked, orphan, doubts>>
      /\ DOMAIN task = Tasks /\ {"load", "auto", "save", "toggle"} \subseteq Tasks
  BY TasksAre DEF ConfigLoaded, ConfigUnavailable, server, settings, AdminInv, AdminTypes
<1>2. /\ At("load") # "live" /\ At("save") = "none" /\ At("toggle") = "none" /\ At("auto") = "none"
      /\ page \in {"settings", "autostart", "prompt"} /\ Bodies' = Bodies
  <2>1. At("load") \in {"ok", "failed"}
    BY DEF ConfigLoaded, ConfigUnavailable, Is, At
  <2> QED BY <1>1, <2>1 DEF AdminInv, AdminTypes, Pages, Bodies
<1>3. /\ DOMAIN task' = Tasks /\ At("save")' = At("save") /\ At("toggle")' = At("toggle")
      /\ Val("save")' = Val("save") /\ Val("toggle")' = Val("toggle")
      /\ At("auto")' \in {"none", "sent"} /\ (At("auto")' = "sent" <=> ConfigLoaded /\ page = "autostart")
      /\ At("load")' = IF ConfigLoaded THEN "live" ELSE "unavailable"
  <2>1. CASE ConfigLoaded
    BY <1>1, <1>2, <2>1 DEF ConfigLoaded, At, Val, Sent, None
  <2>2. CASE ConfigUnavailable /\ ~ConfigLoaded
    BY <1>1, <1>2, <2>2 DEF ConfigUnavailable, To, At, Val
  <2> QED BY <2>1, <2>2
<1>4. AdminTypes'
  <2>1. page' \in Pages /\ store' \in StoreOf(page)' /\ switch' \in BOOLEAN
    BY <1>1 DEF AdminInv, AdminTypes
  <2>2. \A t \in {"save", "toggle"} : At(t)' = "none" /\ (orphan'.kind = t => orphan'.val \in Bodies')
    BY <1>1, <1>2, <1>3 DEF AdminInv, AdminTypes
  <2>3. \A t \in {"load", "auto"} : At(t)' # "ok"
    BY <1>3
  <2>4. /\ At("auto")' # "none" => page' = "autostart" /\ At("load")' = "live"
        /\ At("save")' = "none" /\ At("toggle")' = "none" /\ page' # "logs"
    BY <1>1, <1>2, <1>3
  <2>5. /\ orphan' = NoOrphan \/ orphan'.kind \in {"save", "toggle", "clear"}
        /\ orphan'.kind = "save" => page' \in {"settings", "prompt"}
        /\ orphan'.kind = "toggle" => page' = "autostart"
    BY <1>1 DEF AdminInv, AdminTypes
  <2>6. saveStatus' # "success"
    BY <1>1, <1>2 DEF AdminInv, AdminTypes
  <2> QED BY <1>3, <2>1, <2>2, <2>3, <2>4, <2>5, <2>6 DEF AdminTypes
<1>5. ReadInv' /\ SwitchInv'
  BY <1>1, <1>2, <1>3 DEF ReadInv, SwitchInv
<1>6. Ready' => ConfigLoaded
  BY <1>3 DEF Ready, At
<1>7. SettingsInv'
  <2> SUFFICES ASSUME page = "settings", ConfigLoaded
               PROVE  SettingsInv'
    BY <1>1, <1>6 DEF SettingsInv
  <2>0. saveStatus # "success"
    BY <1>2 DEF AdminInv, AdminTypes
  <2>1. /\ form' = [provider |-> Val("load").provider, key |-> ""] /\ masked' = Val("load").key
        /\ At("load") = "ok"
    BY DEF ConfigLoaded, Is, At, Val
  <2>2. Val("load") \in [provider : Providers, key : Keys \cup {""}]
    BY <2>1 DEF AdminInv, AdminTypes, StoreOf
  <2>3. form' \in [provider : Providers, key : Keys \cup {""}] /\ form'.provider = Val("load").provider
    BY <2>1, <2>2
  <2>4. "config" \notin doubts => Val("load") = store
    BY <2>1 DEF AdminInv, ReadInv
  <2> QED BY <1>1, <1>2, <1>3, <2>0, <2>1, <2>3, <2>4 DEF SettingsInv
<1>8. PromptInv'
  <2> SUFFICES ASSUME page = "prompt", ConfigLoaded
               PROVE  PromptInv'
    BY <1>1, <1>6 DEF PromptInv
  <2>0. saveStatus # "success"
    BY <1>2 DEF AdminInv, AdminTypes
  <2>1. text' = Val("load").prompt /\ saved' = Val("load").prompt /\ At("load") = "ok"
    BY DEF ConfigLoaded, Is, At, Val
  <2>2. Val("load") \in [prompt : Prompts]
    BY <2>1 DEF AdminInv, AdminTypes, StoreOf
  <2>3. "config" \notin doubts => Val("load") = store
    BY <2>1 DEF AdminInv, ReadInv
  <2> QED BY <1>1, <1>2, <1>3, <2>0, <2>1, <2>2, <2>3 DEF PromptInv
<1> QED BY <1>4, <1>5, <1>7, <1>8 DEF AdminInv

\* The switch: read, used, answered.
LEMMA SwitchMoves ==
    ASSUME AdminAssumption, AdminInv, AutostartRead \/ Toggle \/ ToggleReturns
    PROVE  AdminInv'
<1>1. /\ UNCHANGED <<store, page, form, masked, saveStatus, clicked, text, saved, orphan>>
      /\ doubts \subseteq doubts'
      /\ DOMAIN task = Tasks /\ {"load", "auto", "save", "toggle"} \subseteq Tasks
      /\ store \in StoreOf(page) /\ switch \in BOOLEAN
  BY TasksAre DEF AutostartRead, Toggle, ToggleReturns,
                  server, editor, AdminInv, AdminTypes
<1>2. page = "autostart" /\ At("load") = "live" /\ Bodies' = Bodies /\ Bodies = [autostart : BOOLEAN]
  <2>1. AutostartRead \/ ToggleReturns => page = "autostart" /\ At("load") = "live"
    BY DEF AutostartRead, ToggleReturns, At, AdminInv, AdminTypes
  <2>2. Toggle => page = "autostart" /\ At("load") = "live"
    BY DEF Toggle, Ready, At
  <2> QED BY <1>1, <2>1, <2>2 DEF Bodies
<1>3. At("save") = "none" /\ At("save")' = "none" /\ At("load")' = At("load") /\ DOMAIN task' = Tasks
  BY <1>1, <1>2 DEF AdminInv, AdminTypes, AutostartRead, Toggle, ToggleReturns, To, At
<1>4. ASSUME AutostartRead
      PROVE  AdminTypes' /\ SwitchInv'
  <2>1. /\ At("auto")' = "none" /\ At("toggle")' = At("toggle") /\ Val("toggle")' = Val("toggle")
        /\ At("auto") \in {"ok", "failed"}
    BY <1>1, <1>4 DEF AutostartRead, To, At, Val
  <2>2. /\ switch' = IF At("auto") = "ok" THEN Val("auto").autostart ELSE switch
        /\ At("auto") # "ok" => "autostart" \in doubts'
    BY <1>4 DEF AutostartRead, Is, At, Val
  <2>3. At("auto") = "ok" => Val("auto") \in [autostart : BOOLEAN]
    BY <1>2 DEF AdminInv, AdminTypes, StoreOf
  <2>4. AdminTypes'
    BY <1>1, <1>2, <1>3, <2>1, <2>2, <2>3 DEF AdminInv, AdminTypes
  <2>5. SwitchInv'
    <3> SUFFICES ASSUME "autostart" \notin doubts'
                 PROVE  switch' = store.autostart /\ At("toggle") = "none"
      BY <1>1, <2>1 DEF SwitchInv
    <3> QED BY <1>1, <1>2, <2>1, <2>2 DEF AdminInv, SwitchInv
  <2> QED BY <2>4, <2>5
<1>5. ASSUME Toggle
      PROVE  AdminTypes' /\ SwitchInv'
  <2>1. /\ At("toggle")' = "sent" /\ Val("toggle")' = [autostart |-> ~switch] /\ At("toggle") = "none"
        /\ At("auto")' = At("auto") /\ Val("auto")' = Val("auto")
    BY <1>1, <1>5 DEF Toggle, To, Is, At, Val
  <2>2. switch' = ~switch /\ (At("auto") # "none" => "autostart" \in doubts')
    BY <1>5 DEF Toggle, Is, At
  <2>3. Val("toggle")' \in [autostart : BOOLEAN] /\ Val("toggle")'.autostart = ~switch
    <3>1. PICK b \in BOOLEAN : b = ~switch
      BY <1>1
    <3>2. [autostart |-> b] \in [autostart : BOOLEAN] /\ [autostart |-> b].autostart = b
      OBVIOUS
    <3> QED BY <2>1, <3>1, <3>2
  <2>4. AdminTypes'
    BY <1>1, <1>2, <1>3, <2>1, <2>2, <2>3 DEF AdminInv, AdminTypes
  <2>5. SwitchInv'
    <3> SUFFICES ASSUME "autostart" \notin doubts'
                 PROVE  store.autostart = ~Val("toggle")'.autostart /\ At("auto") = "none"
      BY <1>1, <2>1 DEF SwitchInv
    <3>1. At("auto") = "none" /\ switch = store.autostart
      BY <1>1, <1>2, <2>1, <2>2 DEF AdminInv, SwitchInv
    <3> QED BY <1>1, <2>3, <3>1
  <2> QED BY <2>4, <2>5
<1>6. ASSUME ToggleReturns
      PROVE  AdminTypes' /\ SwitchInv'
  <2>1. /\ At("toggle")' = "none" /\ At("toggle") \in {"ok", "failed"}
        /\ At("auto")' = At("auto") /\ Val("auto")' = Val("auto") /\ doubts' = doubts
    BY <1>1, <1>6 DEF ToggleReturns, To, At, Val
  <2>2. switch' = (Val("toggle").autostart <=> At("toggle") = "ok")
    BY <1>6 DEF ToggleReturns, Is, At, Val
  <2>3. Val("toggle") \in [autostart : BOOLEAN] /\ switch' \in BOOLEAN
    BY <1>2, <2>1, <2>2 DEF AdminInv, AdminTypes
  <2>4. AdminTypes'
    BY <1>1, <1>2, <1>3, <2>1, <2>2, <2>3 DEF AdminInv, AdminTypes
  <2>5. SwitchInv'
    <3> SUFFICES ASSUME "autostart" \notin doubts
                 PROVE  At("auto") = "none" /\ switch' = store.autostart
      BY <1>1, <2>1 DEF SwitchInv
    <3>1. At("auto") = "none" /\ store.autostart = (IF At("toggle") = "ok" THEN Val("toggle").autostart
                                                    ELSE ~Val("toggle").autostart)
      BY <1>1, <1>2, <2>1 DEF AdminInv, SwitchInv
    <3>2. Val("toggle").autostart \in BOOLEAN
      BY <2>3
    <3> QED BY <2>2, <3>1, <3>2
  <2> QED BY <2>4, <2>5
<1>7. ReadInv' /\ SettingsInv' /\ PromptInv'
  BY <1>1, <1>2 DEF ReadInv, SettingsInv, PromptInv
<1> QED BY <1>4, <1>5, <1>6, <1>7 DEF AdminInv

\* The form and the editor: typed into, saved, answered.
LEMMA FormEdited ==
    ASSUME AdminAssumption, AdminInv, UpdateForm \/ PresetChange
    PROVE  AdminInv'
<1>1. PICK to, status : /\ status \in {"none", saveStatus} /\ Edit(to, status)
                        /\ form \in [provider : Providers, key : Keys \cup {""}] =>
                             to \in [provider : Providers, key : Keys \cup {""}]
  <2>1. ASSUME NEW p \in Providers, NEW status, Edit([form EXCEPT !.provider = p], status)
        PROVE  form \in [provider : Providers, key : Keys \cup {""}] =>
                 [form EXCEPT !.provider = p] \in [provider : Providers, key : Keys \cup {""}]
    OBVIOUS
  <2>2. ASSUME NEW k \in Keys \cup {""}, NEW status, Edit([form EXCEPT !.key = k], status)
        PROVE  form \in [provider : Providers, key : Keys \cup {""}] =>
                 [form EXCEPT !.key = k] \in [provider : Providers, key : Keys \cup {""}]
    OBVIOUS
  <2> QED BY <2>1, <2>2 DEF UpdateForm, PresetChange
<1>2. /\ UNCHANGED <<store, page, task, masked, switch, text, saved, orphan, doubts>>
      /\ form' = to /\ page = "settings" /\ Ready /\ At("load") = "live" /\ clicked' = clicked
      /\ saveStatus' \in {"none", saveStatus}
  BY <1>1 DEF Edit, server, editor, Ready, At
<1>3. (Ready' <=> Ready) /\ Bodies' = Bodies
  BY <1>2 DEF Ready, Bodies
<1>4. AdminTypes' /\ ReadInv' /\ PromptInv' /\ SwitchInv'
  BY <1>2, <1>3 DEF AdminInv, AdminTypes, ReadInv, PromptInv, SwitchInv, At, Val
<1>5. SettingsInv'
  BY <1>1, <1>2, <1>3 DEF AdminInv, SettingsInv, At, Val
<1> QED BY <1>4, <1>5 DEF AdminInv

LEMMA SaveClicked ==
    ASSUME AdminAssumption, AdminInv, Save
    PROVE  AdminInv'
<1> DEFINE sent == IF page = "settings" THEN FormBody ELSE [prompt |-> text]
<1>1. /\ UNCHANGED <<store, page, form, masked, switch, text, saved, orphan, doubts>>
      /\ saveStatus' = "none" /\ Ready /\ page \in {"settings", "prompt"}
      /\ clicked' = (IF page = "settings" THEN form.provider ELSE text)
      /\ At("save") = "none" /\ task' = [task EXCEPT !["save"] = [st |-> "sent", val |-> sent]]
  BY DEF Save, CanSave, To, Ready, Is, At,
         server, editor, AdminInv, AdminTypes, Pages
<1>2. /\ sent \in Bodies
      /\ page = "settings" => sent.provider = form.provider
      /\ page = "prompt" => sent.prompt = text
  <2>1. CASE page = "settings"
    <3>1. form \in [provider : Providers, key : Keys \cup {""}]
      BY <1>1, <2>1 DEF AdminInv, SettingsInv
    <3>2. CASE form.key = ""
      BY <2>1, <3>1, <3>2 DEF FormBody, Bodies
    <3>3. CASE form.key # ""
      BY <2>1, <3>1, <3>3 DEF FormBody, Bodies
    <3> QED BY <3>2, <3>3
  <2>2. CASE page = "prompt"
    BY <1>1, <2>2 DEF AdminInv, PromptInv, Bodies
  <2> QED BY <1>1, <2>1, <2>2
<1> HIDE DEF sent
<1>3. DOMAIN task = Tasks /\ {"load", "auto", "save", "toggle"} \subseteq Tasks
  BY TasksAre DEF AdminInv, AdminTypes
<1>4. /\ DOMAIN task' = Tasks /\ At("save")' = "sent" /\ Val("save")' = sent
      /\ \A t \in {"load", "auto", "toggle"} : task'[t] = task[t]
  BY <1>1, <1>3 DEF At, Val
<1>5. (Ready' <=> Ready) /\ Bodies' = Bodies /\ At("load") = "live"
  BY <1>1, <1>4 DEF Ready, Bodies, At
<1>6. AdminTypes'
  <2>1. page' \in Pages /\ store' \in StoreOf(page)' /\ switch' \in BOOLEAN
    BY <1>1 DEF AdminInv, AdminTypes
  <2>2. \A t \in {"load", "auto", "toggle"} : At(t)' = At(t) /\ Val(t)' = Val(t)
    BY <1>4 DEF At, Val
  <2>3. At("toggle")' = At("toggle") /\ At("auto")' = At("auto") /\ At("load")' = At("load")
        /\ Val("toggle")' = Val("toggle") /\ Val("auto")' = Val("auto") /\ Val("load")' = Val("load")
    BY <2>2
  <2> QED BY <1>1, <1>2, <1>4, <1>5, <2>1, <2>3 DEF AdminInv, AdminTypes
<1>7. ReadInv' /\ SwitchInv'
  BY <1>1, <1>4, <1>5 DEF ReadInv, SwitchInv, At
<1>8. SettingsInv'
  BY <1>1, <1>2, <1>4, <1>5 DEF AdminInv, SettingsInv
<1>9. PromptInv'
  BY <1>1, <1>2, <1>4, <1>5 DEF AdminInv, PromptInv
<1> QED BY <1>6, <1>7, <1>8, <1>9 DEF AdminInv

LEMMA SaveReturned ==
    ASSUME AdminAssumption, AdminInv, SaveReturns
    PROVE  AdminInv'
<1>1. /\ UNCHANGED <<store, page, switch, clicked, text, orphan, doubts>>
      /\ At("save") \in {"ok", "failed"} /\ task' = [task EXCEPT !["save"] = [st |-> "none", val |-> <<>>]]
  BY DEF SaveReturns, To, At, server
<1>2. page \in {"settings", "prompt"} /\ At("load") = "live" /\ (At("save") = "ok" => Val("save") \in Bodies)
  BY <1>1 DEF AdminInv, AdminTypes
<1>3. /\ At("save") = "failed" => saveStatus' = "error" /\ UNCHANGED <<form, masked, saved>>
      /\ At("save") = "ok" /\ page = "settings" =>
           /\ form' = [form EXCEPT !.key = ""] /\ saved' = saved
           /\ masked' = IF "key" \in DOMAIN Val("save") /\ Val("save").key # "" THEN Val("save").key ELSE masked
      /\ At("save") = "ok" /\ page = "prompt" => saved' = Val("save").prompt
  BY <1>1, <1>2 DEF SaveReturns, Is, At, Val
<1>4. DOMAIN task = Tasks /\ {"load", "auto", "save", "toggle"} \subseteq Tasks
  BY TasksAre DEF AdminInv, AdminTypes
<1>5. /\ DOMAIN task' = Tasks /\ At("save")' = "none"
      /\ At("toggle")' = At("toggle") /\ At("auto")' = At("auto") /\ At("load")' = At("load")
      /\ Val("toggle")' = Val("toggle") /\ Val("auto")' = Val("auto") /\ Val("load")' = Val("load")
  BY <1>1, <1>4 DEF At, Val
<1>6. (Ready' <=> Ready) /\ Bodies' = Bodies /\ (page # "logs" => Ready)
  BY <1>1, <1>2, <1>5 DEF Ready, Bodies, At
<1>7. AdminTypes'
  <2>1. page' \in Pages /\ store' \in StoreOf(page)' /\ switch' \in BOOLEAN
    BY <1>1 DEF AdminInv, AdminTypes
  <2> QED BY <1>1, <1>5, <1>6, <2>1 DEF AdminInv, AdminTypes
<1>8. ReadInv' /\ SwitchInv'
  BY <1>1, <1>2, <1>5 DEF ReadInv, SwitchInv
<1>9. SettingsInv'
  <2> SUFFICES ASSUME page = "settings"
               PROVE  SettingsInv'
    BY <1>1 DEF SettingsInv
  <2>1. /\ form \in [provider : Providers, key : Keys \cup {""}]
        /\ "config" \notin doubts =>
             /\ At("save") = "failed" => masked = store.key
             /\ At("save") = "ok" => store.key = IF "key" \in DOMAIN Val("save") THEN Val("save").key ELSE masked
             /\ At("save") = "ok" => store.provider = clicked
    BY <1>6 DEF AdminInv, SettingsInv
  <2>2. CASE At("save") = "failed"
    BY <1>1, <1>3, <1>5, <2>1, <2>2 DEF SettingsInv
  <2>3. CASE At("save") = "ok"
    <3>1. form' \in [provider : Providers, key : Keys \cup {""}] /\ form'.provider = form.provider
      BY <1>3, <2>1, <2>3
    <3>2. "key" \in DOMAIN Val("save") => Val("save").key # ""
      <4>1. Val("save") \in [provider : Providers] \cup [provider : Providers, key : Keys]
        BY <1>2, <2>3 DEF Bodies
      <4>2. \A b \in [provider : Providers] : "key" \notin DOMAIN b
        OBVIOUS
      <4>3. \A b \in [provider : Providers, key : Keys] : b.key # ""
        BY DEF AdminAssumption
      <4> QED BY <4>1, <4>2, <4>3
    <3>3. "config" \notin doubts => masked' = store.key
      BY <1>3, <2>1, <2>3, <3>2
    <3> QED BY <1>1, <1>5, <2>1, <2>3, <3>1, <3>3 DEF SettingsInv
  <2> QED BY <1>1, <2>2, <2>3
<1>10. PromptInv'
  <2> SUFFICES ASSUME page = "prompt"
               PROVE  PromptInv'
    BY <1>1 DEF PromptInv
  <2>1. /\ text \in Prompts
        /\ At("save") = "ok" => Val("save").prompt = clicked
        /\ "config" \notin doubts => /\ At("save") = "failed" => saved = store.prompt
                                     /\ At("save") = "ok" => Val("save").prompt = store.prompt
    BY <1>6 DEF AdminInv, PromptInv
  <2> QED BY <1>1, <1>3, <1>5, <2>1 DEF PromptInv
<1> QED BY <1>7, <1>8, <1>9, <1>10 DEF AdminInv

LEMMA PromptEdited ==
    ASSUME AdminAssumption, AdminInv, EditPrompt
    PROVE  AdminInv'
<1>1. /\ UNCHANGED <<store, page, task, form, masked, switch, clicked, saved, orphan, doubts>>
      /\ page = "prompt" /\ text' \in Prompts /\ saveStatus' = "none"
  BY DEF EditPrompt, server
<1>2. (Ready' <=> Ready) /\ Bodies' = Bodies
  BY <1>1 DEF Ready, Bodies
<1>3. AdminTypes' /\ ReadInv' /\ SettingsInv' /\ SwitchInv'
  BY <1>1, <1>2 DEF AdminInv, AdminTypes, ReadInv, SettingsInv, SwitchInv, At, Val
<1>4. PromptInv'
  BY <1>1, <1>2 DEF AdminInv, PromptInv, At, Val
<1> QED BY <1>3, <1>4 DEF AdminInv

-----------------------------------------------------------------------------
\* The log page, the probes of the settings page, and lines being written.
OneTask(t) == \E st, val : task' = [task EXCEPT ![t] = [st |-> st, val |-> val]]

LEMMA OtherTask ==
    ASSUME AdminAssumption, AdminInv,
           UNCHANGED <<store, page, settings, editor, orphan, doubts>>,
           task' = task \/ \E t \in {"fetch", "clear"} \cup Probes : OneTask(t)
    PROVE  AdminInv'
<1>1. DOMAIN task = Tasks
  BY DEF AdminInv, AdminTypes
<1>2. DOMAIN task' = Tasks /\ \A t \in {"load", "auto", "save", "toggle"} : task'[t] = task[t]
  <2>1. CASE task' = task
    BY <1>1, <2>1
  <2>2. ASSUME NEW t \in {"fetch", "clear"} \cup Probes, OneTask(t)
        PROVE  /\ DOMAIN task' = Tasks
               /\ \A other \in {"load", "auto", "save", "toggle"} : task'[other] = task[other]
    <3>1. t \notin {"load", "auto", "save", "toggle"}
      BY TasksAre
    <3>2. PICK st, val : task' = [task EXCEPT ![t] = [st |-> st, val |-> val]]
      BY <2>2 DEF OneTask
    <3>3. DOMAIN task' = DOMAIN task
      BY <3>2
    <3>4. ASSUME NEW other \in {"load", "auto", "save", "toggle"} PROVE task'[other] = task[other]
      <4>1. other # t /\ other \in DOMAIN task
        BY <1>1, <3>1, TasksAre
      <4> QED BY <3>2, <4>1
    <3> QED BY <1>1, <3>3, <3>4
  <2> QED BY <2>1, <2>2
<1> QED BY <1>2, OthersMove

LEMMA AdminStep ==
    ASSUME AdminAssumption, AdminInv, [AdminNext]_adminVars
    PROVE  AdminInv'
<1> DEFINE others == {"fetch", "clear"} \cup Probes
<1>1. ASSUME UNCHANGED adminVars
      PROVE  AdminInv'
  BY <1>1, OtherTask DEF adminVars, server
<1>2. ASSUME NEW t \in Tasks, Serving(t)
      PROVE  AdminInv'
  <2>1. CASE t \in others
    <3>1. UNCHANGED <<store, page, settings, editor, orphan, doubts>>
      BY <1>2, <2>1, TasksAre DEF Serving, WriteServed, Written,
                                  ReadServed, Fails, server
    <3>2. OneTask(t)
      BY <1>2 DEF Serving, WriteServed, ReadServed, Fails, To, OneTask
    <3> QED BY <2>1, <3>1, <3>2, OtherTask
  <2>2. CASE t \in {"load", "auto", "save", "toggle"}
    <3>1. CASE WriteServed(t)
      <4>1. t \in {"save", "toggle"}
        BY <2>2, <3>1 DEF WriteServed
      <4> QED BY <3>1, <4>1, WriteLands
    <3>2. CASE ReadServed(t)
      <4>1. t \in {"load", "auto"}
        BY <2>2, <3>2, TasksAre DEF ReadServed
      <4> QED BY <3>2, <4>1, ReadLands
    <3>3. CASE Fails(t)
      BY <2>2, <3>3, RequestFails
    <3> QED BY <1>2, <3>1, <3>2, <3>3 DEF Serving
  <2> QED BY <2>1, <2>2 DEF Tasks
<1>3. ASSUME NEW t \in Tasks, Returning(t)
      PROVE  AdminInv'
  <2>1. CASE t \in others
    <3>1. \/ t = "fetch" /\ LogsLoaded
          \/ t = "clear" /\ ClearReturns
          \/ t \in Probes /\ ProbeReturns(t)
      BY <1>3, <2>1, TasksAre DEF Returning
    <3>2. UNCHANGED <<store, page, settings, editor, orphan, doubts>> /\ OneTask(t)
      BY <3>1 DEF LogsLoaded, ClearReturns, ProbeReturns, To, OneTask, server
    <3> QED BY <2>1, <3>2, OtherTask
  <2>2. CASE t = "load"
    <3>1. ConfigLoaded \/ ConfigUnavailable
      BY <1>3, <2>2, TasksAre DEF Returning
    <3> QED BY <3>1, LoadDelivered
  <2>3. CASE t = "auto"
    <3>1. AutostartRead
      BY <1>3, <2>3, TasksAre DEF Returning
    <3> QED BY <3>1, SwitchMoves
  <2>4. CASE t = "toggle"
    <3>1. ToggleReturns
      BY <1>3, <2>4, TasksAre DEF Returning
    <3> QED BY <3>1, SwitchMoves
  <2>5. CASE t = "save"
    <3>1. SaveReturns
      BY <1>3, <2>5, TasksAre DEF Returning
    <3> QED BY <3>1, SaveReturned
  <2> QED BY <2>1, <2>2, <2>3, <2>4, <2>5 DEF Tasks
<1>4. ASSUME LogQueryFails \/ PollLogs \/ Refresh \/ ConfirmClear
      PROVE  AdminInv'
  <2>1. /\ UNCHANGED <<store, page, settings, editor, orphan, doubts>>
        /\ OneTask("fetch") \/ OneTask("clear")
    BY <1>4 DEF LogQueryFails, PollLogs, Refresh, ConfirmClear, To, OneTask, server
  <2> QED BY <2>1, OtherTask
<1>5. ASSUME RequestClear \/ CancelClear \/ LineWritten
      PROVE  AdminInv'
  <2>1. UNCHANGED <<store, page, settings, editor, orphan, doubts>> /\ task' = task
    BY <1>5 DEF RequestClear, CancelClear, LineWritten, server
  <2> QED BY <2>1, OtherTask
<1>6. ASSUME NEW t \in Probes, Probe(t)
      PROVE  AdminInv'
  <2>1. UNCHANGED <<store, page, settings, editor, orphan, doubts>> /\ OneTask(t)
    BY <1>6 DEF Probe, To, OneTask, server
  <2> QED BY <2>1, OtherTask
<1>7. ASSUME Using
      PROVE  AdminInv'
  BY <1>4, <1>5, <1>6, <1>7, SwitchMoves, FormEdited, SaveClicked, PromptEdited DEF Using
<1> QED BY <1>1, <1>2, <1>3, <1>4, <1>5, <1>7, OrphanLands, PageLeft DEF AdminNext

\* What the screen says follows.
LEMMA ScreenMatches ==
    ASSUME AdminInv
    PROVE  ScreenMatchesStore
<1>1. Ready => At("load") = "live"
  BY DEF Ready, At
<1> QED BY <1>1 DEF AdminInv, AdminTypes, SettingsInv, PromptInv, SwitchInv,
                    ScreenMatchesStore, Dirty, Is, At

(* For any providers, keys, prompts and probes, whatever fails or answers  *)
(* late: when the settings form or the editor says saved, the service has  *)
(* what stood there at the click, though it may have been edited since;    *)
(* the masked key is the one stored, the editor counts as changed exactly  *)
(* while it differs from the stored prompt, and the switch at rest is the  *)
(* autostart entry, unless the answer of a write got lost, a write of a    *)
(* page left before came between, or the switch was used too early.        *)
THEOREM ScreenStaysTrue == AdminSpec => []ScreenMatchesStore
<1>1. AdminInit => AdminInv
  <2>1. AdminInit => JustAsked
    <3> SUFFICES ASSUME AdminInit PROVE JustAsked
      OBVIOUS
    <3>1. /\ page \in Pages /\ store \in StoreOf(page) /\ switch = FALSE /\ task = FirstTasks(page)
          /\ orphan = NoOrphan /\ orphan.kind = "none" /\ saveStatus = "none"
      BY DEF AdminInit, NoOrphan
    <3> QED BY <3>1 DEF JustAsked
  <2> QED BY <2>1, PageOpened, AdminAssumption
<1>2. AdminInv /\ [AdminNext]_adminVars => AdminInv'
  BY AdminStep, AdminAssumption
<1>3. AdminInv => ScreenMatchesStore
  BY ScreenMatches, AdminAssumption
<1> QED BY <1>1, <1>2, <1>3, PTL DEF AdminSpec
=============================================================================
