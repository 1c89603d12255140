----------------------------- MODULE ConfigStore -----------------------------
(***************************************************************************)
(* The configuration (core/config), the dashboard's PUT /api/config (main, *)
(* one handler goroutine per request), what is built from it (the chat     *)
(* provider, the session manager's prompt) and the file it is kept in,     *)
(* over restarts of the program: Load at start, Snapshot, Apply and Save.  *)
(* The value a request writes is the request itself, so every value tells  *)
(* where it came from.  Variants are faulty forms of the step they precede,*)
(* used by no step of Next.                                                *)
(***************************************************************************)
EXTENDS Integers, FiniteSets

CONSTANTS Request,    \* PUT requests, each made once
          Default,    \* the value of a setting nobody has set
          Override,   \* the address given with -listen
          MaxStarts,  \* bound: starts of the program
          Missing, Empty, Partial  \* a file not there, empty, cut short

ASSUME ConfigAssumption ==
  /\ Default \notin Request /\ Override \notin Request /\ Override # Default
  /\ Cardinality({Missing, Empty, Partial}) = 3
  /\ MaxStarts \in Nat

Editable == {"provider", "prompt"}
Field == Editable \cup {"listen"}
Value == Request \cup {Default, Override}
Config == [Field -> Value]

(* What a file may hold.                                                   *)
Contents == {Missing, Empty, Partial} \cup Config

VARIABLES
  running,   \* the program runs
  starts,    \* how often it was started
  cfg,       \* config.Cfg
  mu,        \* the request whose Save holds config.mu for writing, or Default
  pc,        \* where each request's handler is
  body,      \* the fields each request sets
  next,      \* its local copy
  provider,  \* the config field h.Provider was built from
  prompt,    \* the session manager's prompt
  file, tmp, \* config.yaml and config.yaml.tmp, as any process sees them
  disk,      \* what a power failure may leave of config.yaml
  past,      \* history: no Save has stored config.yaml yet, the last thing that
             \* happened to it was a Save, or a power failure
  lastSave,  \* history: how the last Save ended in this run of the program
  overlapped \* history: two requests were in progress at once in this run

memVars  == <<cfg, provider, prompt>>
diskVars == <<file, tmp, disk, past>>
vars == <<running, starts, memVars, mu, pc, body, next, diskVars, lastSave, overlapped>>

Defaults == [f \in Field |-> Default]

TypeOK ==
  /\ running \in BOOLEAN /\ overlapped \in BOOLEAN
  /\ starts \in 0 .. MaxStarts
  /\ cfg \in Config /\ next \in [Request -> Config]
  /\ mu \in Request \cup {Default}
  /\ pc \in [Request -> {"none", "snapshot", "prompt", "apply", "provider", "save",
                         "marshal", "write", "rename", "remove", "ok", "lost"}]
  /\ body \in [Request -> SUBSET Editable]
  /\ provider \in Value /\ prompt \in Value
  /\ file \in Contents /\ tmp \in Contents
  /\ disk \in SUBSET Contents
  /\ past \in {"never", "stored", "outage"}
  /\ lastSave \in {"none", "stored", "failed"}

Init ==
  /\ running = FALSE /\ starts = 0
  /\ cfg = Defaults
  /\ mu = Default
  /\ pc = [r \in Request |-> "none"]
  /\ body = [r \in Request |-> {}]
  /\ next = [r \in Request |-> Defaults]
  /\ provider = Default /\ prompt = Default
  /\ file = Missing /\ tmp = Missing /\ disk = {Missing} /\ past = "never"
  /\ lastSave = "none" /\ overlapped = FALSE

-----------------------------------------------------------------------------
(* main: Load merges the file over the defaults, -listen replaces the      *)
(* address in Cfg itself, and the provider and the prompt are taken from   *)
(* Cfg.  An empty file is valid YAML; a part of one stops the program.     *)
Loaded == IF file \in Config THEN file ELSE Defaults
Start(listenFlag) ==
  /\ ~running /\ starts < MaxStarts
  /\ file # Partial
  /\ running' = TRUE /\ starts' = starts + 1
  /\ cfg' = IF listenFlag THEN [Loaded EXCEPT !["listen"] = Override] ELSE Loaded
  /\ provider' = Loaded["provider"] /\ prompt' = Loaded["prompt"]
  /\ lastSave' = "none" /\ overlapped' = FALSE
  /\ UNCHANGED <<mu, pc, body, next, diskVars>>

(* The handler of request r.                                               *)
InProgress == {r \in Request : pc[r] \notin {"none", "ok", "lost"}}
Go(r, from, to) == running /\ pc[r] = from /\ pc' = [pc EXCEPT ![r] = to]

Decode(r, fields) ==
  /\ Go(r, "none", "snapshot")
  /\ body' = [body EXCEPT ![r] = fields]
  /\ overlapped' = (overlapped \/ InProgress # {})
  /\ UNCHANGED <<running, starts, memVars, mu, next, diskVars, lastSave>>

Snapshot(r) ==
  /\ mu = Default
  /\ Go(r, "snapshot", IF "prompt" \in body[r] THEN "prompt" ELSE "apply")
  /\ next' = [next EXCEPT ![r] = [f \in Field |-> IF f \in body[r] THEN r ELSE cfg[f]]]
  /\ UNCHANGED <<running, starts, memVars, mu, body, diskVars, lastSave, overlapped>>

SetPrompt(r) ==
  /\ Go(r, "prompt", "apply")
  /\ prompt' = r
  /\ UNCHANGED <<running, starts, cfg, provider, mu, body, next, diskVars, lastSave, overlapped>>

(* Variant: only the fields of the body are copied to Cfg, others reset.   *)
ApplyBodyOnly(r) ==
  /\ mu = Default
  /\ Go(r, "apply", "provider")
  /\ cfg' = [f \in Field |-> IF f \in body[r] THEN r ELSE Default]
  /\ UNCHANGED <<running, starts, provider, prompt, mu, body, next, diskVars, lastSave, overlapped>>

Apply(r) ==
  /\ mu = Default
  /\ Go(r, "apply", "provider")
  /\ cfg' = next[r]
  /\ UNCHANGED <<running, starts, provider, prompt, mu, body, next, diskVars, lastSave, overlapped>>

SetProvider(r) ==
  /\ Go(r, "provider", "save")
  /\ provider' = next[r]["provider"]
  /\ UNCHANGED <<running, starts, cfg, prompt, mu, body, next, diskVars, lastSave, overlapped>>

-----------------------------------------------------------------------------
(* Save: under mu, marshal Cfg, write the temporary file, rename it.  The  *)
(* handler answers "ok" however Save ended.                                *)
SaveLock(r) ==
  /\ mu = Default
  /\ Go(r, "save", "marshal")
  /\ mu' = r
  /\ UNCHANGED <<running, starts, memVars, body, next, diskVars, lastSave, overlapped>>

(* os.WriteFile empties the file and then writes: it may fail in between.  *)
WriteTmp(r) ==
  /\ Go(r, "marshal", "write")
  /\ tmp' = Partial
  /\ UNCHANGED <<running, starts, memVars, mu, body, next, file, disk, past, lastSave, overlapped>>

(* Variant: the request's own copy is saved instead of Cfg.                *)
TmpWrittenFromCopy(r) ==
  /\ Go(r, "write", "rename")
  /\ tmp' = next[r]
  /\ UNCHANGED <<running, starts, memVars, mu, body, next, file, disk, past, lastSave, overlapped>>

TmpWritten(r) ==
  /\ Go(r, "write", "rename")
  /\ tmp' = cfg
  /\ UNCHANGED <<running, starts, memVars, mu, body, next, file, disk, past, lastSave, overlapped>>

SaveEnds(how) == mu' = Default /\ lastSave' = how

(* Variant: the error return forgets the lock.                             *)
WriteFailsHoldingLock(r) ==
  /\ Go(r, "marshal", "ok") \/ Go(r, "write", "ok")
  /\ lastSave' = "failed"
  /\ UNCHANGED <<running, starts, memVars, mu, body, next, diskVars, overlapped>>

WriteFails(r) ==
  /\ Go(r, "marshal", "ok") \/ Go(r, "write", "ok")
  /\ SaveEnds("failed")
  /\ UNCHANGED <<running, starts, memVars, body, next, diskVars, overlapped>>

(* No fsync comes before the rename: until the system writes the data out, *)
(* a power failure may leave the old name, the new one, or the new one     *)
(* with nothing in it.                                                     *)
Rename(r) ==
  /\ Go(r, "rename", "ok")
  /\ file' = tmp /\ tmp' = Missing
  /\ disk' = disk \cup {Empty, tmp} /\ past' = "stored"
  /\ SaveEnds("stored")
  /\ UNCHANGED <<running, starts, memVars, body, next, overlapped>>

RenameFails(r) ==
  /\ Go(r, "rename", "remove")
  /\ UNCHANGED <<running, starts, memVars, mu, body, next, diskVars, lastSave, overlapped>>

RemoveTmp(r) ==
  /\ Go(r, "remove", "ok")
  /\ tmp' \in {Missing, tmp}
  /\ SaveEnds("failed")
  /\ UNCHANGED <<running, starts, memVars, body, next, file, disk, past, overlapped>>

WrittenOut ==
  /\ disk # {file}
  /\ disk' = {file}
  /\ UNCHANGED <<running, starts, memVars, mu, pc, body, next, file, tmp, past, lastSave, overlapped>>

(* The process ends, at any point: killed, or shut down.                   *)
Killed ==
  /\ running
  /\ running' = FALSE
  /\ mu' = Default
  /\ pc' = [r \in Request |-> IF r \in InProgress THEN "lost" ELSE pc[r]]
  /\ UNCHANGED <<starts, memVars, body, next, diskVars, lastSave, overlapped>>

(* The machine loses power.                                                *)
PowerFails ==
  /\ running' = FALSE
  /\ mu' = Default
  /\ pc' = [r \in Request |-> IF r \in InProgress THEN "lost" ELSE pc[r]]
  /\ file' \in disk /\ disk' = {file'} /\ past' = "outage"
  /\ UNCHANGED <<starts, memVars, body, next, tmp, lastSave, overlapped>>

Handler(r) ==
  \/ Snapshot(r) \/ SetPrompt(r) \/ Apply(r) \/ SetProvider(r)
  \/ SaveLock(r) \/ WriteTmp(r) \/ TmpWritten(r) \/ WriteFails(r)
  \/ Rename(r) \/ RenameFails(r) \/ RemoveTmp(r)

(* The bound on starts is used up.                                         *)
Over == ~running /\ starts = MaxStarts /\ UNCHANGED vars

Next ==
  \/ \E listenFlag \in BOOLEAN : Start(listenFlag)
  \/ \E r \in Request : Handler(r) \/ \E fields \in SUBSET Editable : Decode(r, fields)
  \/ WrittenOut \/ Killed \/ PowerFails \/ Over

Spec == Init /\ [][Next]_vars
FairSpec == Spec /\ \A r \in Request : WF_vars(Handler(r))
-----------------------------------------------------------------------------
Quiet == running /\ InProgress = {}

(* No kill and no failing Save costs the file: from the first Save on it   *)
(* is a whole configuration, whatever step the program ends in, until the  *)
(* power fails, which may leave it empty or missing (Save renames without  *)
(* an fsync) until the next Save.  It is never cut short, so what a start  *)
(* finds does not stop it.                                                 *)
FileIsWhole ==
  /\ past = "never" => file = Missing
  /\ past = "stored" => file \in Config
  /\ past = "outage" => file \in {Missing, Empty} \cup Config

(* However PUTs and their Saves interleave, once all are over and the last *)
(* Save worked the file holds every setting a PUT can change as it is in   *)
(* use, not an older one.                                                  *)
SavedIsCurrent ==
  Quiet /\ lastSave = "stored" => file \in Config /\ \A f \in Editable : file[f] = cfg[f]

(* PUTs that do not overlap leave the chat provider and the system prompt  *)
(* in use in step with the configuration, after restarts as well.          *)
InUseIsConfigured ==
  Quiet /\ ~overlapped => provider = cfg["provider"] /\ prompt = cfg["prompt"]

(* File, configuration and what is in use agree, with the types.           *)
ConfigIsCoherent == TypeOK /\ FileIsWhole /\ SavedIsCurrent /\ InUseIsConfigured

(* A PUT changes only the settings in its body: when PUTs do not overlap,  *)
(* a value of the configuration is replaced by nothing but a request that  *)
(* carries that field.                                                     *)
OnlyBodyChanges ==
  [][running /\ running' /\ ~overlapped =>
       \A f \in Field : cfg'[f] # cfg[f] =>
         \E r \in Request : cfg'[f] = r /\ f \in body[r]]_vars

(* A lock taken by a Save is given back on every path, so every request is *)
(* answered unless the program ends first.                                 *)
RequestsAnswered ==
  \A r \in Request : pc[r] = "snapshot" ~> pc[r] \in {"ok", "lost"}

=============================================================================
