----------------------------- MODULE AdminPages -----------------------------
(***************************************************************************)
(* The pages that change things: the provider form and the autostart       *)
(* switch (SettingsPage.tsx), the prompt editor (PromptPage.tsx), the log  *)
(* list (LogsPage.tsx, useLogsData.ts), with useConfigData.ts, settings.ts *)
(* and logs.ts.  One page is open, and store is the part of the            *)
(* configuration that this page shows; the others do not touch it.  The    *)
(* form and the switch of the settings page share nothing but the load and *)
(* are two pages here, "settings" and "autostart".  A request is sent,     *)
(* served by the service, and returned; an answer may get lost             *)
(* (requestJson gives up after 15 s), and a write whose page is left is    *)
(* served later all the same.  ConfigStore has what a PUT does inside the  *)
(* service.                                                                *)
(***************************************************************************)
EXTENDS Naturals

CONSTANTS Providers,  \* name, address and model of a provider, as one value
          Keys,       \* API keys the user may type; "" is none
          Prompts, MaxLines,
          Window,     \* lines a log read returns, the newest ones
          Probes      \* "models" and "test": read with the stored configuration

ASSUME AdminAssumption ==
    /\ "" \notin Keys /\ MaxLines \in Nat /\ Window \in Nat \ {0}
    /\ Probes \cap {"load", "auto", "save", "toggle", "fetch", "clear"} = {}

VARIABLES
    store, lines, written, \* the service: configuration and autostart, log lines, lines ever written
    page, task,          \* the mounted page and its requests
    form, masked, saveStatus, switch,  \* SettingsPage
    text, saved,         \* PromptPage: promptText and savedPrompt
    logs, mode, refreshing, confirming, timer,  \* LogsPage
    orphan,              \* a write whose page was left
    clicked, doubts      \* history: what was on the form or in the editor at the last click on save;
                         \* what the page cannot know

server == <<store, lines, written>>
settings == <<form, masked, saveStatus, switch, clicked>>
editor == <<text, saved>>
logPage == <<logs, mode, refreshing, confirming, timer>>
adminVars == <<server, page, task, settings, editor, logPage, orphan, doubts>>

Pages == {"settings", "autostart", "prompt", "logs"}
Tasks == {"load", "auto", "save", "toggle", "fetch", "clear"} \cup Probes
None == [st |-> "none", val |-> <<>>]
Sent(val) == [st |-> "sent", val |-> val]
NoOrphan == [kind |-> "none", val |-> <<>>]
DemoLogs == {0}

\* useConfigData reads once; useLogsData starts its cycle.
FirstTasks(p) == [t \in Tasks |-> IF t = (IF p = "logs" THEN "fetch" ELSE "load") THEN Sent(<<>>) ELSE None]
EmptyForm == [provider |-> "", key |-> ""]

StoreOf(p) == CASE p = "settings"  -> [provider : Providers, key : Keys \cup {""}]
                [] p = "autostart" -> [autostart : BOOLEAN]
                [] p = "prompt"    -> [prompt : Prompts]
                [] p = "logs"      -> {<<>>}

AdminInit == /\ page \in Pages /\ task = FirstTasks(page)
             /\ store \in StoreOf(page) /\ lines = {} /\ written = 0
             /\ form = EmptyForm /\ masked = "" /\ saveStatus = "none" /\ switch = FALSE /\ clicked = ""
             /\ text = "" /\ saved = ""
             /\ logs = {} /\ mode = "connecting" /\ refreshing = FALSE /\ confirming = FALSE /\ timer = FALSE
             /\ orphan = NoOrphan /\ doubts = {}

\* status = "live"
Ready == page # "logs" /\ task["load"].st = "live"

----------------------------------------------------------------------------
(* Requests.                                                               *)

Is(t, st) == task[t].st = st
To(t, st, val) == task' = [task EXCEPT ![t] = [st |-> st, val |-> val]]

\* What a write does to the service: the fields it carries change, or the lines
\* go; a DELETE that fails is ignored.
Patched(config, body) == [field \in DOMAIN config |-> IF field \in DOMAIN body THEN body[field] ELSE config[field]]
Written(kind, val) ==
    IF kind = "clear" THEN lines' \in {{}, lines} /\ UNCHANGED <<store, written>>
    ELSE store' = Patched(store, val) /\ UNCHANGED <<lines, written>>

Subject(kind) == IF kind = "toggle" THEN "autostart" ELSE "config"

WriteServed(t) == /\ t \in {"save", "toggle", "clear"} /\ Is(t, "sent")
                  /\ Written(t, task[t].val) /\ To(t, "ok", task[t].val)
                  /\ UNCHANGED <<page, settings, editor, logPage, orphan, doubts>>

Newest == {line \in lines : line + Window > written}
ReadServed(t) ==
    /\ t \in {"load", "auto", "fetch"} \cup Probes /\ Is(t, "sent")
    /\ To(t, "ok", CASE t = "fetch" -> [lines |-> Newest] [] t \in Probes -> <<>> [] OTHER -> store)
    /\ UNCHANGED <<server, page, settings, editor, logPage, orphan, doubts>>

\* A query that fails is answered like an empty table.
LogQueryFails == /\ Is("fetch", "sent") /\ Newest # {} /\ To("fetch", "ok", [lines |-> {}])
                 /\ UNCHANGED <<server, page, settings, editor, logPage, orphan, doubts>>

\* Refused, unreachable, or the answer lost: the page cannot tell a write that was served.
Fails(t) == /\ task[t].st \in {"sent", "ok"} /\ To(t, "failed", IF t = "toggle" THEN task[t].val ELSE <<>>)
            /\ doubts' = IF Is(t, "ok") /\ t \in {"save", "toggle"} THEN doubts \cup {Subject(t)} ELSE doubts
            /\ UNCHANGED <<server, page, settings, editor, logPage, orphan>>

\* It lands after the page now open has read.
OrphanServed ==
    /\ orphan # NoOrphan /\ orphan' = NoOrphan /\ Written(orphan.kind, orphan.val)
    /\ LET read == IF orphan.kind = "toggle" THEN "auto" ELSE "load" IN
       doubts' = IF Is(read, "sent") THEN doubts ELSE doubts \cup {Subject(orphan.kind)}
    /\ UNCHANGED <<page, task, settings, editor, logPage>>

\* Left and opened again: new state, and at most one write left behind (a bound).
Leave ==
    /\ task' = FirstTasks(page)
    /\ LET behind == {t \in {"save", "toggle", "clear"} : Is(t, "sent")} IN
       \/ behind = {} /\ UNCHANGED orphan
       \/ \E t \in behind : behind = {t} /\ orphan = NoOrphan /\ orphan' = [kind |-> t, val |-> task[t].val]
    /\ form' = EmptyForm /\ masked' = "" /\ saveStatus' = "none" /\ switch' = FALSE /\ clicked' = ""
    /\ text' = "" /\ saved' = ""
    /\ logs' = {} /\ mode' = "connecting" /\ refreshing' = FALSE /\ confirming' = FALSE /\ timer' = FALSE
    /\ doubts' = {} /\ UNCHANGED <<server, page>>

----------------------------------------------------------------------------
(* useConfigData and the effects on its result; the settings page asks for *)
(* the autostart state once the configuration is there.                    *)

ConfigLoaded ==
    /\ Is("load", "ok")
    /\ task' = [task EXCEPT !["load"] = [st |-> "live", val |-> <<>>],
                            !["auto"] = IF page = "autostart" THEN Sent(<<>>) ELSE None]
    /\ LET config == task["load"].val IN
       /\ CASE page = "settings" -> /\ form' = [provider |-> config.provider, key |-> ""]
                                    /\ masked' = config.key /\ UNCHANGED editor
            [] page = "prompt"   -> /\ text' = config.prompt /\ saved' = config.prompt
                                    /\ UNCHANGED <<form, masked>>
            [] OTHER             -> UNCHANGED <<form, masked, editor>>
       /\ UNCHANGED <<saveStatus, switch, clicked>>
    /\ UNCHANGED <<server, page, logPage, orphan, doubts>>

ConfigUnavailable ==
    /\ Is("load", "failed") /\ To("load", "unavailable", <<>>)
    /\ IF page = "prompt" THEN text' = "demo" /\ saved' = "demo" ELSE UNCHANGED editor
    /\ UNCHANGED <<server, page, settings, logPage, orphan, doubts>>

\* A failed read says so next to the switch.
AutostartRead ==
    /\ task["auto"].st \in {"ok", "failed"} /\ To("auto", "none", <<>>)
    /\ switch' = (IF Is("auto", "ok") THEN task["auto"].val.autostart ELSE switch)
    /\ doubts' = (IF Is("auto", "ok") THEN doubts ELSE doubts \cup {"autostart"})
    /\ UNCHANGED <<server, page, form, masked, saveStatus, clicked, editor, logPage, orphan>>

\* Optimistic; before the first read has ended its outcome is a guess.
Toggle == /\ Ready /\ page = "autostart" /\ Is("toggle", "none")
          /\ To("toggle", "sent", [autostart |-> ~switch]) /\ switch' = ~switch
          /\ doubts' = IF Is("auto", "none") THEN doubts ELSE doubts \cup {"autostart"}
          /\ UNCHANGED <<server, page, form, masked, saveStatus, clicked, editor, logPage, orphan>>
ToggleReturns == /\ task["toggle"].st \in {"ok", "failed"} /\ To("toggle", "none", <<>>)
                 /\ switch' = (task["toggle"].val.autostart <=> Is("toggle", "ok"))
                 /\ UNCHANGED <<server, page, form, masked, saveStatus, clicked, editor, logPage, orphan, doubts>>

----------------------------------------------------------------------------
(* The provider form.                                                      *)

\* updateForm clears the status line, handlePresetChange leaves it.
Edit(to, status) == /\ Ready /\ page = "settings" /\ form' = to /\ saveStatus' = status
                    /\ UNCHANGED <<server, page, task, masked, switch, clicked, editor, logPage, orphan, doubts>>
UpdateForm == \/ \E p \in Providers \ {form.provider} : Edit([form EXCEPT !.provider = p], "none")
              \/ \E k \in (Keys \cup {""}) \ {form.key} : Edit([form EXCEPT !.key = k], "none")
PresetChange == \E p \in Providers \ {form.provider} : Edit([form EXCEPT !.provider = p], saveStatus)

\* Variant: an empty field is sent as an empty key.
FormBodyWithKey == [provider |-> form.provider, key |-> form.key]
\* "留空表示不修改"
FormBody == IF form.key = "" THEN [provider |-> form.provider] ELSE [provider |-> form.provider, key |-> form.key]

\* models and test: one at a time, what they report is left out.
Probe(t) == /\ Ready /\ page = "settings" /\ Is(t, "none") /\ To(t, "sent", <<>>)
            /\ UNCHANGED <<server, page, settings, editor, logPage, orphan, doubts>>
\* Variant: the button is free again only after an answer.
ProbeReturnsOk(t) == /\ Is(t, "ok") /\ To(t, "none", <<>>)
                     /\ UNCHANGED <<server, page, settings, editor, logPage, orphan, doubts>>
ProbeReturns(t) == /\ task[t].st \in {"ok", "failed"} /\ To(t, "none", <<>>)
                   /\ UNCHANGED <<server, page, settings, editor, logPage, orphan, doubts>>

----------------------------------------------------------------------------
(* handleSave of either page: the body is the form at the click.           *)

Dirty == text # saved
CanSave == Ready /\ page # "autostart" /\ Is("save", "none") /\ (page = "prompt" => Dirty)
Save == /\ CanSave /\ saveStatus' = "none" /\ clicked' = (IF page = "settings" THEN form.provider ELSE text)
        /\ To("save", "sent", IF page = "settings" THEN FormBody ELSE [prompt |-> text])
        /\ UNCHANGED <<server, page, form, masked, switch, editor, logPage, orphan, doubts>>

SaveReturns ==
    /\ task["save"].st \in {"ok", "failed"} /\ To("save", "none", <<>>)
    /\ LET body == task["save"].val IN
       CASE Is("save", "failed") -> saveStatus' = "error" /\ UNCHANGED <<form, masked, saved>>
         [] Is("save", "ok") /\ page = "settings" ->
                /\ saveStatus' = "success" /\ form' = [form EXCEPT !.key = ""]
                /\ masked' = (IF "key" \in DOMAIN body /\ body.key # "" THEN body.key ELSE masked) /\ UNCHANGED saved
         [] Is("save", "ok") /\ page = "prompt" ->
                /\ saveStatus' = "success" /\ saved' = body.prompt /\ UNCHANGED <<form, masked>>
    /\ UNCHANGED <<server, page, switch, clicked, text, logPage, orphan, doubts>>

\* The editor works without the service, too; it cannot save then.
EditPrompt == /\ page = "prompt" /\ task["load"].st \in {"live", "unavailable"}
              /\ \E p \in Prompts \ {text} : text' = p
              /\ saveStatus' = "none"
              /\ UNCHANGED <<server, page, task, form, masked, switch, clicked, saved, logPage, orphan, doubts>>

----------------------------------------------------------------------------
(* The log page.                                                           *)

LineWritten == /\ page = "logs" /\ written < MaxLines /\ written' = written + 1 /\ lines' = lines \cup {written + 1}
               /\ UNCHANGED <<store, page, task, settings, editor, logPage, orphan, doubts>>

\* Variant: a failed load ends the polling.
NextPollIfLoaded == Is("fetch", "ok")
NextPoll == TRUE
LogsLoaded ==
    /\ task["fetch"].st \in {"ok", "failed"} /\ To("fetch", "none", <<>>)
    /\ CASE Is("fetch", "ok") -> logs' = task["fetch"].val.lines /\ mode' = "live"
         [] Is("fetch", "failed") /\ mode = "connecting" -> logs' = DemoLogs /\ mode' = "demo"
         [] OTHER -> UNCHANGED <<logs, mode>>
    /\ refreshing' = FALSE /\ timer' = NextPoll
    /\ UNCHANGED <<server, page, settings, editor, confirming, orphan, doubts>>
PollLogs == /\ page = "logs" /\ timer /\ timer' = FALSE /\ To("fetch", "sent", <<>>)
            /\ UNCHANGED <<server, page, settings, editor, logs, mode, refreshing, confirming, orphan, doubts>>
\* The load in flight is dropped, the timer cleared.
Refresh == /\ page = "logs" /\ ~refreshing /\ refreshing' = TRUE /\ timer' = FALSE /\ To("fetch", "sent", <<>>)
           /\ UNCHANGED <<server, page, settings, editor, logs, mode, confirming, orphan, doubts>>

RequestClear == /\ page = "logs" /\ logs # {} /\ Is("clear", "none") /\ confirming' = TRUE
                /\ UNCHANGED <<server, page, task, settings, editor, logs, mode, refreshing, timer, orphan, doubts>>
CancelClear == /\ confirming /\ Is("clear", "none") /\ confirming' = FALSE
               /\ UNCHANGED <<server, page, task, settings, editor, logs, mode, refreshing, timer, orphan, doubts>>
ConfirmClear == /\ confirming /\ Is("clear", "none") /\ To("clear", "sent", <<>>)
                /\ UNCHANGED <<server, page, settings, editor, logPage, orphan, doubts>>
ClearReturns == /\ task["clear"].st \in {"ok", "failed"} /\ To("clear", "none", <<>>) /\ confirming' = FALSE
                /\ IF Is("clear", "ok") THEN logs' = {} /\ mode' = "live" ELSE UNCHANGED <<logs, mode>>
                /\ UNCHANGED <<server, page, settings, editor, refreshing, timer, orphan, doubts>>

----------------------------------------------------------------------------
Failure == LogQueryFails \/ \E t \in Tasks : Fails(t)
Serving(t) == WriteServed(t) \/ ReadServed(t) \/ Fails(t)
Returning(t) == CASE t = "load"   -> ConfigLoaded \/ ConfigUnavailable
                  [] t = "auto"   -> AutostartRead
                  [] t = "toggle" -> ToggleReturns
                  [] t = "save"   -> SaveReturns
                  [] t = "clear"  -> ClearReturns
                  [] t = "fetch"  -> LogsLoaded
                  [] t \in Probes -> ProbeReturns(t)
Using == \/ Toggle \/ UpdateForm \/ PresetChange \/ Save \/ EditPrompt \/ Refresh
         \/ RequestClear \/ CancelClear \/ ConfirmClear \/ \E t \in Probes : Probe(t)
AdminNext == \/ \E t \in Tasks : Serving(t) \/ Returning(t)
             \/ LogQueryFails \/ OrphanServed \/ PollLogs \/ Using \/ LineWritten \/ Leave

AdminSpec == AdminInit /\ [][AdminNext]_adminVars
\* Every request is served or fails, and what has settled is delivered.
FairAdminSpec == /\ AdminSpec /\ WF_adminVars(PollLogs) /\ WF_adminVars(OrphanServed)
                 /\ \A t \in Tasks : WF_adminVars(Serving(t)) /\ WF_adminVars(Returning(t))

----------------------------------------------------------------------------
\* What the page says of the configuration is so: "saved" means that the service
\* has what stood on the form, or in the editor, at the click; the masked key is
\* the stored one, so a blank field never erased it; the editor counts as changed
\* exactly while it differs from the stored prompt, so an edit made during the
\* save can still be saved; an idle switch shows the autostart.  It does not mean
\* that the service has what stands there now: the line also appears over an edit
\* made during the save, and a preset chosen later leaves it.  The page cannot
\* know better when the answer of a write got lost, when a write of a page left
\* before lands late, or when the switch was used before the first read had ended
\* (doubts).
ScreenMatchesStore ==
    /\ Ready /\ page = "settings" /\ "config" \notin doubts /\ Is("save", "none") =>
         /\ saveStatus = "success" => store.provider = clicked
         /\ masked = store.key
    /\ Ready /\ page = "prompt" /\ "config" \notin doubts /\ Is("save", "none") =>
         /\ saveStatus = "success" => store.prompt = clicked
         /\ Dirty <=> text # store.prompt
    /\ Ready /\ page = "autostart" /\ "autostart" \notin doubts /\ Is("auto", "none") /\ Is("toggle", "none") =>
         switch = store.autostart

\* No button stays busy for ever: saving, testing, toggling, clearing and
\* refreshing end, whatever fails and whatever else is in flight.
BusyEnds == /\ \A t \in {"save", "toggle", "clear"} \cup Probes : ~Is(t, "none") ~> Is(t, "none")
            /\ refreshing ~> ~refreshing

\* The log list settles on the newest lines of the table: when requests are
\* answered again from a table that can be read and the page stays open, cleared
\* lines that a load in flight brought back, lines of a failed poll or query, and
\* the demo lines give way to what the service has.
LogsSettle ==
    <>[][~Failure /\ ~Leave /\ ~Refresh]_adminVars /\ page = "logs"
        => <>[](Is("clear", "none") => mode = "live") /\ []<>(mode = "live" /\ logs = Newest)
=============================================================================
