---------------------------- MODULE ConfigUpdate ----------------------------
(***************************************************************************)
(* The settings of the language model on their way from the web page to a  *)
(* request: the handlers of gateway/ws_server.c (set_config, apply_preset, *)
(* save_presets, get_config), the configuration tree and its file          *)
(* (hal/kc_config.c), the copy of the settings that llm/llm_proxy.c works  *)
(* with, and the page's own copy of the list of presets.                   *)
(*                                                                         *)
(* All handlers run in the server's thread, one after the other, each as a *)
(* sequence of steps; the agent thread copies the settings between any two *)
(* and calls the service up to MaxAttempts times with its copy; a power    *)
(* loss may come at any moment.  Only the server's thread reads or writes  *)
(* these entries, so a store in the tree belongs to the step before it.    *)
(*                                                                         *)
(* A file that is empty, missing or cut short in its writing means Empty.  *)
(* A preset's provider and URL are any, since nothing here tells them      *)
(* apart; the network proxy and the port of the server are left out.       *)
(***************************************************************************)
EXTENDS Naturals, Sequences, SequencesExt

CONSTANTS
  Names,         (* names of presets                                        *)
  Keys,          (* the API keys that are typed                             *)
  Messages,      (* what set_config may be sent                             *)
  MaxPresets,    (* bound on model_list                                     *)
  Fits,          (* the presets a file of MAX_CONFIG_SIZE has room for      *)
  MaxAttempts,   (* max_retries + 1                                         *)
  MaxChanges,    (* bound on the messages of the web page                   *)
  MaxCrashes     (* bound on the power losses and restarts                  *)

Providers == {"openai", "anthropic"}
Models == {"default", "other"}
Urls == {"default", "other"}
None == "none"            (* a field that is absent or empty *)
NoKey == "none"
Masked == "***"           (* what the page shows of any key  *)
AnyKey == Keys \cup {Masked, NoKey}

(* What set_config looks at; a masked key counts as None, since it is skipped. *)
AllMessages ==
  [provider : Providers \cup {None}, model : Models \cup {None},
   key : [Providers -> Keys \cup {NoKey}], url : [Providers -> Urls \cup {None}]]

ASSUME ConfigAssumption ==
  /\ Masked \notin Keys /\ NoKey \notin Keys /\ Messages \subseteq AllMessages
  /\ MaxPresets \in Nat \ {0} /\ Fits \in Nat \ {0} /\ MaxAttempts \in Nat \ {0}
  /\ MaxChanges \in Nat /\ MaxCrashes \in Nat

VARIABLES
  tree,        (* s_config: provider, model, key and url of each provider   *)
  presets,     (* its model_list                                            *)
  file,        (* what the file holds                                       *)
  snapshot,    (* json_str, the text kc_config_save is about to write       *)
  llm,         (* s_provider, s_model, s_api_key, s_api_url                 *)
  at,          (* the handler's next step, "idle" between two messages      *)
  saving,      (* where kc_config_save is, "no" outside                     *)
  work,        (* what the handler has taken from its message               *)
  page,        (* cfgData.model_list of the page                            *)
  request,     (* the copy llm_chat_tools works with                        *)
  attempt,     (* its attempt, 0 outside                                    *)
  shutdown,    (* "no", "asked" for, or main is "saving" for the last time  *)
  changes, crashes,
  chosen,      (* history: provider and model as last named to the program  *)
  unsaved,     (* history: the last save failed                             *)
  kept,        (* history: the key in use is of the provider before         *)
  stale        (* history: "key", "url" sent for the provider in use without
                  naming it, which llm_proxy.c has not been told            *)

stored == <<tree, presets, file, snapshot>>
server == <<at, saving, work>>
agent == <<request, attempt>>
bounds == <<shutdown, changes, crashes>>
history == <<chosen, unsaved, kept, stale>>
vars == <<stored, llm, server, page, agent, bounds, history>>

For(p, v) == [of |-> p, is |-> v]
NoTree == [provider |-> "openai", model |-> "default",
           key |-> [p \in Providers |-> For(p, NoKey)],
           url |-> [p \in Providers |-> For(p, "default")]]
Empty == [tree |-> NoTree, presets |-> <<>>]
Now == [tree |-> tree, presets |-> presets]

(* kc_config_init: a file above MAX_CONFIG_SIZE is not read. *)
TooLong(text) == Len(text.presets) > Fits
Parse(text) == IF TooLong(text) THEN Empty ELSE text

(* llm_proxy_init. *)
Load(t) == [provider |-> t.provider, model |-> t.model,
            key |-> t.key[t.provider], url |-> t.url[t.provider]]
Pair(t) == [provider |-> t.provider, model |-> t.model]
Copy(settings, mid, k, pair) == [settings |-> settings, mid |-> mid, kept |-> k, chosen |-> pair]
NoRequest == Copy(Load(NoTree), FALSE, FALSE, Pair(NoTree))
Work(isPreset, p, m, k, u) ==
  [preset |-> isPreset, provider |-> p, model |-> m, key |-> k, url |-> u]
NoWork == Work(FALSE, None, None, NoKey, None)

(* A preset; "typed" and "lost" are history: the key that was typed for it, and
   that it has since been sent with its mask in place of a key to be found.     *)
Preset(n, m, k) == [name |-> n, model |-> m, key |-> k, typed |-> k, lost |-> FALSE]
FirstFiles ==
  {Empty} \cup {[tree |-> [NoTree EXCEPT !.key["openai"] = For("openai", k)],
                 presets |-> <<Preset(n, "default", k)>>] : n \in Names, k \in Keys}

Init ==
  /\ file \in FirstFiles
  /\ tree = file.tree /\ presets = file.presets /\ snapshot = Empty
  /\ llm = Load(tree) /\ at = "idle" /\ saving = "no" /\ work = NoWork /\ page = <<>>
  /\ request = NoRequest /\ attempt = 0
  /\ shutdown = "no" /\ changes = 0 /\ crashes = 0
  /\ chosen = Pair(tree) /\ unsaved = FALSE /\ kept = FALSE /\ stale = {}
-----------------------------------------------------------------------------
Idle == at = "idle" /\ saving = "no"
Message == Idle /\ shutdown = "no" /\ changes < MaxChanges /\ changes' = changes + 1

(* The order of the steps: set_config has the model, then the provider, since
   that reloads key and URL, each if it is given; apply_preset the provider, the
   model, and key and URL again; both end with a save.                          *)
ThenProvider(w) == IF w.provider = None THEN "last" ELSE "provider"
NothingToDo(w) ==                        (* mutant *)
  IF w.preset THEN "provider"
  ELSE IF w.model # None THEN "model" ELSE IF w.provider # None THEN "provider" ELSE "idle"
FirstStep(w) ==
  IF w.preset THEN "provider" ELSE IF w.model = None THEN ThenProvider(w) ELSE "model"
AfterModel(w) ==
  IF ~w.preset THEN ThenProvider(w) ELSE IF w.key = NoKey THEN "url" ELSE "key"
AfterProvider(w) == IF w.preset THEN "model" ELSE "last"

(* Keys and URLs are stored first, whatever their provider. *)
Given(p, v, old) == IF v = None THEN old ELSE For(p, v)
StoreAll(m) ==
  [tree EXCEPT !.key = [p \in Providers |-> Given(p, m.key[p], tree.key[p])],
               !.url = [p \in Providers |-> Given(p, m.url[p], tree.url[p])]]
Untold(m) ==
  {part \in {"key", "url"} :
     IF part = "key" THEN m.key[llm.provider] # NoKey ELSE m.url[llm.provider] # None}

SetConfig ==
  /\ Message
  /\ \E m \in Messages :
       /\ tree' = StoreAll(m)
       /\ work' = Work(FALSE, m.provider, m.model, NoKey, None)
       /\ chosen' = [provider |-> IF m.provider = None THEN chosen.provider ELSE m.provider,
                     model |-> IF m.model = None THEN chosen.model ELSE m.model]
       /\ stale' = IF m.provider = None THEN stale \cup Untold(m) ELSE stale
  /\ at' = FirstStep(work')
  /\ UNCHANGED <<presets, file, snapshot, llm, saving, page, agent, shutdown, crashes, unsaved, kept>>

(* The URL of a preset, or the provider's default; a key if the preset has one. *)
ApplyPreset ==
  /\ Message
  /\ \E i \in 1..Len(presets), p \in Providers, u \in Urls :
       LET k == presets[i].key IN
         /\ tree' = [tree EXCEPT !.key[p] = Given(p, k, @), !.url[p] = For(p, u)]
         /\ work' = Work(TRUE, p, presets[i].model, k, u)
         /\ chosen' = [provider |-> p, model |-> presets[i].model]
  /\ at' = FirstStep(work')
  /\ UNCHANGED <<presets, file, snapshot, llm, saving, page, agent, shutdown, crashes,
                 unsaved, kept, stale>>

(* handle_save_presets: a masked key becomes that of the first old preset with
   the same name and model, or stays masked.                                  *)
Same(a, b) == a.name = b.name /\ a.model = b.model
(* The preset that was shown to the page: the only one it can be taken for. *)
ItsOwn(item) ==
  \E j \in DOMAIN presets :
    /\ \A i \in DOMAIN presets : Same(presets[i], item) <=> i = j
    /\ presets[j].typed = item.typed /\ ~presets[j].lost
RestoredByIndex(item, i) ==              (* mutant *)
  IF item.key # Masked THEN item
  ELSE [item EXCEPT !.key = IF i \in DOMAIN presets THEN presets[i].key ELSE Masked,
                    !.lost = ~ItsOwn(item)]
Restored(item, i) ==
  IF item.key # Masked THEN item
  ELSE LET old == SelectInSeq(presets, LAMBDA q : Same(q, item))
       IN [item EXCEPT !.key = IF old # 0 THEN presets[old].key ELSE Masked,
                       !.lost = ~ItsOwn(item)]

(* handle_get_config: the list with its keys masked; the page asks for it when
   it connects, opens the settings or has saved, and has an old one till then. *)
Shown(item) == IF item.key = NoKey THEN item ELSE [item EXCEPT !.key = Masked]
GetConfig ==
  /\ Idle /\ shutdown = "no"
  /\ page' = [i \in DOMAIN presets |-> Shown(presets[i])]
  /\ UNCHANGED <<stored, llm, server, agent, bounds, history>>

(* The page deletes, adds or edits a preset in its list and sends it all.  The
   form that is saved may show a preset from before the list was renewed.      *)
Forms ==
  {Preset(n, m, k) : n \in Names, m \in Models, k \in Keys \cup {NoKey}} \cup
  {[page[j] EXCEPT !.name = n, !.model = m] : j \in DOMAIN page, n \in Names, m \in Models}
PageLists ==
  {RemoveAt(page, i) : i \in DOMAIN page} \cup
  {ReplaceAt(page, i, q) : i \in DOMAIN page, q \in Forms} \cup
  (IF Len(page) = MaxPresets THEN {} ELSE {Append(page, q) : q \in Forms})
SavePresets ==
  /\ Message
  /\ \E list \in PageLists : presets' = [i \in DOMAIN list |-> Restored(list[i], i)]
  /\ at' = "last"
  /\ UNCHANGED <<tree, file, snapshot, llm, saving, work, page, agent, shutdown, crashes, history>>
-----------------------------------------------------------------------------
Doing(step) == at = step /\ saving = "no"

(* llm_set_model. *)
UseModel ==
  /\ Doing("model")
  /\ llm' = [llm EXCEPT !.model = work.model]
  /\ tree' = [tree EXCEPT !.model = work.model]
  /\ at' = AfterModel(work) /\ saving' = "text"
  /\ UNCHANGED <<presets, file, snapshot, work, page, agent, bounds, history>>

(* llm_set_provider: key and URL are reloaded under the mutex, the key left as
   it is if the provider has none.                                            *)
ReloadedWithoutUrl(p) ==                 (* mutant *)
  [llm EXCEPT !.provider = p, !.key = IF tree.key[p].is = NoKey THEN llm.key ELSE tree.key[p]]
Reloaded(p) ==
  [llm EXCEPT !.provider = p, !.key = IF tree.key[p].is = NoKey THEN llm.key ELSE tree.key[p],
              !.url = tree.url[p]]
UseProvider ==
  /\ Doing("provider")
  /\ llm' = Reloaded(work.provider)
  /\ tree' = [tree EXCEPT !.provider = work.provider]
  /\ kept' = (tree.key[work.provider].is = NoKey) /\ stale' = {}
  /\ at' = AfterProvider(work) /\ saving' = "text"
  /\ UNCHANGED <<presets, file, snapshot, work, page, agent, bounds, chosen, unsaved>>

(* llm_set_api_key and llm_set_api_url, which store for the provider in use. *)
UseKey ==
  /\ Doing("key")
  /\ llm' = [llm EXCEPT !.key = For(work.provider, work.key)]
  /\ tree' = [tree EXCEPT !.key[llm.provider] = For(work.provider, work.key)]
  /\ kept' = FALSE
  /\ at' = "url" /\ saving' = "text"
  /\ UNCHANGED <<presets, file, snapshot, work, page, agent, bounds, chosen, unsaved, stale>>
UseUrl ==
  /\ Doing("url")
  /\ llm' = [llm EXCEPT !.url = For(work.provider, work.url)]
  /\ tree' = [tree EXCEPT !.url[llm.provider] = For(work.provider, work.url)]
  /\ at' = "last"
  /\ UNCHANGED <<presets, file, snapshot, saving, work, page, agent, bounds, history>>
SaveLast ==
  /\ Doing("last")
  /\ at' = "idle" /\ saving' = "text" /\ work' = NoWork
  /\ UNCHANGED <<stored, llm, page, agent, bounds, history>>

(* kc_config_save: the text, under the mutex; then the file, truncated and
   written; it may not open, or take nothing of what is written.             *)
SaveText ==
  /\ saving = "text"
  /\ snapshot' = Now /\ saving' = "open"
  /\ UNCHANGED <<tree, presets, file, llm, at, work, page, agent, bounds, history>>
SaveOpen ==
  /\ saving = "open"
  /\ \/ file' = Empty /\ saving' = "write" /\ UNCHANGED <<snapshot, unsaved>>
     \/ snapshot' = Empty /\ saving' = "no" /\ unsaved' = TRUE /\ UNCHANGED file
  /\ UNCHANGED <<tree, presets, llm, at, work, page, agent, bounds, chosen, kept, stale>>
SaveWrite ==
  /\ saving = "write"
  /\ \/ file' = snapshot /\ unsaved' = FALSE
     \/ unsaved' = TRUE /\ UNCHANGED file
  /\ snapshot' = Empty /\ saving' = "no"
  /\ UNCHANGED <<tree, presets, llm, at, work, page, agent, bounds, chosen, kept, stale>>
-----------------------------------------------------------------------------
(* llm_chat_tools: the copy under the mutex; no key, no request. *)
MidChange == at \in {"model", "provider", "key", "url"}
Ask ==
  /\ attempt = 0 /\ llm.key.is # NoKey
  /\ request' = Copy(llm, MidChange, kept, chosen)
  /\ attempt' = 1
  /\ UNCHANGED <<stored, llm, server, page, bounds, history>>
(* An attempt is answered, well or with an error that is final; or the net
   fails, or the status is 429, 502 or 503, and it is tried again.           *)
Answered ==
  /\ attempt > 0
  /\ attempt' = 0 /\ request' = NoRequest
  /\ UNCHANGED <<stored, llm, server, page, bounds, history>>
RetryOnceMore ==                         (* mutant *)
  /\ attempt \in 1..MaxAttempts /\ shutdown = "no"
  /\ attempt' = attempt + 1
  /\ UNCHANGED <<stored, llm, server, page, request, bounds, history>>
Retry ==
  /\ attempt \in 1..(MaxAttempts - 1) /\ shutdown = "no"
  /\ attempt' = attempt + 1
  /\ UNCHANGED <<stored, llm, server, page, request, bounds, history>>

Shutdown ==
  /\ shutdown = "no"
  /\ shutdown' = "asked"
  /\ UNCHANGED <<stored, llm, server, page, agent, changes, crashes, history>>
(* main saves once the server's thread is joined. *)
LastSave ==
  /\ shutdown = "asked" /\ Idle
  /\ saving' = "text" /\ shutdown' = "saving"
  /\ UNCHANGED <<stored, llm, at, work, page, agent, changes, crashes, history>>
(* A power loss, or the end of the program; then the file is read again. *)
Restart ==
  /\ crashes < MaxCrashes
  /\ crashes' = crashes + 1
  /\ tree' = Parse(file).tree /\ presets' = Parse(file).presets
  /\ llm' = Load(tree') /\ chosen' = Pair(tree')
  /\ at' = "idle" /\ saving' = "no" /\ work' = NoWork /\ snapshot' = Empty
  /\ attempt' = 0 /\ request' = NoRequest
  /\ shutdown' = "no" /\ unsaved' = FALSE /\ kept' = FALSE /\ stale' = {}
  /\ UNCHANGED <<file, page, changes>>

Page == SetConfig \/ ApplyPreset \/ SavePresets \/ GetConfig
Handler == UseModel \/ UseProvider \/ UseKey \/ UseUrl \/ SaveLast
Saver == SaveText \/ SaveOpen \/ SaveWrite
Next == Page \/ Handler \/ Saver \/ Ask \/ Answered \/ Retry \/ Shutdown \/ LastSave \/ Restart
Spec == Init /\ [][Next]_vars
-----------------------------------------------------------------------------
Trees ==
  [provider : Providers, model : Models, key : [Providers -> [of : Providers, is : AnyKey]],
   url : [Providers -> [of : Providers, is : Urls]]]
Presets == [name : Names, model : Models, key : AnyKey, typed : Keys \cup {NoKey}, lost : BOOLEAN]
IsList(list) == Len(list) <= MaxPresets /\ \A i \in DOMAIN list : list[i] \in Presets
IsText(text) == text.tree \in Trees /\ IsList(text.presets)
TypeOK ==
  /\ IsText(Now) /\ IsText(file) /\ IsText(snapshot) /\ IsList(page)
  /\ llm \in [provider : Providers, model : Models,
              key : [of : Providers, is : AnyKey], url : [of : Providers, is : Urls]]
  /\ at \in {"idle", "model", "provider", "key", "url", "last"}
  /\ saving \in {"no", "text", "open", "write"}
  /\ work \in [preset : BOOLEAN, provider : Providers \cup {None}, model : Models \cup {None},
               key : AnyKey, url : Urls \cup {None}]
  /\ attempt \in 0..MaxAttempts /\ shutdown \in {"no", "asked", "saving"}
  /\ changes \in 0..MaxChanges /\ crashes \in 0..MaxCrashes
  /\ unsaved \in BOOLEAN /\ kept \in BOOLEAN /\ stale \subseteq {"key", "url"}

(* At whatever step of a handler it is made, a request has the URL of its
   provider, and its key unless the provider had none when it was chosen (the
   one before is kept then).  Provider and model are the ones last named, by the
   same message or by different ones, or the file's after a restart, unless the
   settings were being changed just then.                                       *)
RequestOfOneProvider ==
  attempt > 0 =>
    LET s == request.settings IN
      /\ s.url.of = s.provider
      /\ ~request.kept => s.key.of = s.provider
      /\ ~request.mid => Pair(s) = request.chosen

(* Between two messages, unless the last save failed, a restart finds the
   configuration in the file, or it is there but too long to be read.  And the
   proxy works with what the configuration says, but for a key it has kept for
   want of another, and for what it has not been told.                        *)
SettingsLast ==
  Idle =>
    /\ ~unsaved => Parse(file) = Now \/ (file = Now /\ TooLong(file))
    /\ llm = [Load(tree) EXCEPT !.key = IF kept \/ "key" \in stale THEN llm.key ELSE @,
                                !.url = IF "url" \in stale THEN llm.url ELSE @]

(* A preset keeps the key that was typed for it through every save of the list
   from the page, which has only masked keys and may be out of date: unless it
   was sent with its mask when the program had no preset of its name and model,
   or not its own, or two.                                                    *)
KeysFollowPresets == \A i \in DOMAIN presets : presets[i].lost \/ presets[i].key = presets[i].typed
=============================================================================
