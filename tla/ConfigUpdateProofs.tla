-------------------------- MODULE ConfigUpdateProofs --------------------------
(***************************************************************************)
(* All invariants of ConfigUpdate, for any names, keys and messages of     *)
(* set_config, any numbers of presets, attempts, changes and restarts, and *)
(* any size of the longest file.                                           *)
(*                                                                         *)
(* Texted says of tree, file and text that what is stored for a provider   *)
(* is a provider's own, and of the presets that their keys are as typed    *)
(* unless lost; Working, what the handler's next step finds in its         *)
(* message; Agreed, that proxy and tree agree but for what a step still to *)
(* come or the two exceptions explain; Saved, that a text is the settings  *)
(* until it is written, and the file the last text.                        *)
(***************************************************************************)
EXTENDS ConfigUpdate, SequenceTheorems, WellFoundedInduction, TLAPS

KeyFor == [of : Providers, is : AnyKey]
UrlFor == [of : Providers, is : Urls]
OwnTree == {t \in Trees : \A p \in Providers : t.key[p].of = p /\ t.url[p].of = p}
OwnPreset == {r \in Presets : r.lost \/ r.key = r.typed}
SentPreset == {r \in Presets : r.lost \/ r.key = Masked \/ r.key = r.typed}
Short(R) == {list \in Seq(R) : Len(list) <= MaxPresets}
Texts == [tree : OwnTree, presets : Short(OwnPreset)]
LlmType == [provider : Providers, model : Models, key : KeyFor, url : UrlFor]
WorkType == [preset : BOOLEAN, provider : Providers \cup {None}, model : Models \cup {None},
             key : AnyKey, url : Urls \cup {None}]

Texted == Now \in Texts /\ file \in Texts /\ snapshot \in Texts /\ page \in Short(SentPreset)

Counting ==
  /\ attempt \in 0..MaxAttempts /\ shutdown \in {"no", "asked", "saving"}
  /\ changes \in 0..MaxChanges /\ crashes \in 0..MaxCrashes
  /\ unsaved \in BOOLEAN /\ kept \in BOOLEAN /\ stale \subseteq {"key", "url"}

(* What a step takes from the message is there. *)
Working ==
  /\ at \in {"idle", "model", "provider", "key", "url", "last"}
  /\ saving \in {"no", "text", "open", "write"}
  /\ work \in WorkType
  /\ at = "model" => work.model \in Models
  /\ at = "provider" => work.provider \in Providers
  /\ at \in {"key", "url"} => work.preset
  /\ work.preset => /\ work.provider \in Providers /\ work.model \in Models /\ work.url \in Urls
                    /\ at \in {"model", "key", "url"} => llm.provider = work.provider

(* The steps still to come that name the provider and the model. *)
ToProvider == at = "provider" \/ (at = "model" /\ ~work.preset /\ work.provider # None)
ToModel == at = "model" \/ (at = "provider" /\ work.preset)

Agreed ==
  /\ llm \in LlmType /\ llm.url.of = llm.provider
  /\ ~kept => llm.key.of = llm.provider
  /\ llm.provider = tree.provider /\ llm.model = tree.model
  /\ ~ToProvider => /\ kept \/ "key" \in stale \/ llm.key = tree.key[llm.provider]
                    /\ "url" \in stale \/ llm.url = tree.url[llm.provider]
  /\ chosen = [provider |-> IF ToProvider THEN work.provider ELSE llm.provider,
               model |-> IF ToModel THEN work.model ELSE llm.model]

Found == Parse(file) = Now \/ (file = Now /\ TooLong(file))
Saved ==
  /\ saving \in {"open", "write"} => snapshot = Now
  /\ Idle /\ ~unsaved => Found

SettingsInv == Texted /\ Counting /\ Working /\ Agreed /\ Saved /\ RequestOfOneProvider
-----------------------------------------------------------------------------
(* Trees. *)
LEMMA Constants ==
  /\ Masked \in AnyKey /\ NoKey \in AnyKey /\ Keys \subseteq AnyKey /\ NoKey = None
  /\ "openai" \in Providers /\ "default" \in Models /\ "default" \in Urls
  /\ None \notin Providers /\ None \notin Models /\ None \notin Urls
  /\ MaxPresets \in Nat /\ MaxPresets > 0
  BY ConfigAssumption DEF Masked, NoKey, None, AnyKey, Providers, Models, Urls

LEMMA TreeFields ==
  ASSUME NEW t \in OwnTree
  PROVE  /\ t.provider \in Providers /\ t.model \in Models
         /\ t.key \in [Providers -> KeyFor] /\ t.url \in [Providers -> UrlFor]
         /\ \A p \in Providers : t.key[p].of = p /\ t.url[p].of = p
         /\ t = [provider |-> t.provider, model |-> t.model, key |-> t.key, url |-> t.url]
  BY DEF OwnTree, Trees, KeyFor, UrlFor

LEMMA TreeMade ==
  ASSUME NEW p \in Providers, NEW m \in Models,
         NEW k \in [Providers -> KeyFor], NEW u \in [Providers -> UrlFor],
         \A q \in Providers : k[q].of = q /\ u[q].of = q
  PROVE  [provider |-> p, model |-> m, key |-> k, url |-> u] \in OwnTree
  BY DEF OwnTree, Trees, KeyFor, UrlFor

LEMMA TreeWith ==
  ASSUME NEW t \in OwnTree, NEW k \in [Providers -> KeyFor], NEW u \in [Providers -> UrlFor],
         \A q \in Providers : k[q].of = q /\ u[q].of = q
  PROVE  /\ [t EXCEPT !.key = k, !.url = u] =
              [provider |-> t.provider, model |-> t.model, key |-> k, url |-> u]
         /\ [t EXCEPT !.key = k, !.url = u] \in OwnTree
<1> DEFINE keyed == [t EXCEPT !.key = k]
<1>1. keyed = [provider |-> t.provider, model |-> t.model, key |-> k, url |-> t.url]
  BY TreeFields
<1>2. [provider |-> t.provider, model |-> t.model, key |-> k, url |-> u] \in OwnTree
  BY TreeFields, TreeMade
<1> HIDE DEF keyed
<1>3. [keyed EXCEPT !.url = u] =
        [provider |-> t.provider, model |-> t.model, key |-> k, url |-> u]
  BY <1>1
<1> QED
  BY <1>2, <1>3 DEF keyed

LEMMA NoTreeOwn == NoTree \in OwnTree /\ Load(NoTree) \in LlmType
<1>1. \A p \in Providers : For(p, NoKey) \in KeyFor /\ For(p, "default") \in UrlFor
  BY Constants DEF For, KeyFor, UrlFor
<1>2. NoTree \in OwnTree
  BY <1>1, Constants, TreeMade DEF NoTree, For
<1> QED
  BY <1>2, TreeFields DEF Load, LlmType

LEMMA LoadOwn ==
  ASSUME NEW t \in OwnTree
  PROVE  /\ Load(t) \in LlmType
         /\ Load(t).provider = t.provider /\ Load(t).model = t.model
         /\ Load(t).key = t.key[t.provider] /\ Load(t).url = t.url[t.provider]
         /\ Load(t).url.of = t.provider /\ Load(t).key.of = t.provider
  BY TreeFields DEF Load, LlmType
-----------------------------------------------------------------------------
(* Lists of presets. *)
LEMMA ShortList ==
  ASSUME NEW R, NEW list \in Short(R)
  PROVE  /\ list \in Seq(R) /\ Len(list) \in Nat /\ Len(list) <= MaxPresets
         /\ DOMAIN list = 1..Len(list) /\ \A i \in 1..Len(list) : list[i] \in R
  BY LenProperties, ElementOfSeq DEF Short

LEMMA MadeShort ==
  ASSUME NEW R, NEW S, NEW list \in Short(R), NEW new,
         new = [i \in DOMAIN list |-> new[i]], \A i \in 1..Len(list) : new[i] \in S
  PROVE  new \in Short(S)
<1>1. Len(list) \in Nat /\ DOMAIN list = 1..Len(list) /\ Len(list) <= MaxPresets
  BY ShortList
<1>2. new \in [1..Len(list) -> S]
  BY <1>1
<1>3. new \in Seq(S) /\ Len(new) = Len(list)
  BY <1>1, <1>2
<1> QED
  BY <1>1, <1>3 DEF Short

LEMMA EmptyShort == ASSUME NEW R PROVE <<>> \in Short(R)
<1>1. <<>> \in Seq(R) /\ Len(<<>>) = 0
  BY EmptySeq
<1> QED
  BY <1>1, Constants DEF Short

LEMMA EmptyText == Empty \in Texts
  BY EmptyShort, NoTreeOwn DEF Empty, Texts

LEMMA TextFields ==
  ASSUME NEW text \in Texts
  PROVE  /\ text.tree \in OwnTree /\ text.presets \in Short(OwnPreset)
         /\ text = [tree |-> text.tree, presets |-> text.presets]
         /\ Parse(text) \in Texts /\ (Parse(text) = text \/ (Parse(text) = Empty /\ TooLong(text)))
  BY EmptyText DEF Texts, Parse

LEMMA NowText ==
  ASSUME NEW t \in OwnTree, NEW list \in Short(OwnPreset)
  PROVE  [tree |-> t, presets |-> list] \in Texts
  BY DEF Texts

LEMMA PresetFields ==
  ASSUME NEW r \in Presets
  PROVE  /\ r.name \in Names /\ r.model \in Models /\ r.key \in AnyKey
         /\ r.typed \in Keys \cup {NoKey} /\ r.lost \in BOOLEAN
         /\ r = [name |-> r.name, model |-> r.model, key |-> r.key, typed |-> r.typed,
                 lost |-> r.lost]
  BY DEF Presets

LEMMA PresetMade ==
  ASSUME NEW n \in Names, NEW m \in Models, NEW k \in AnyKey, NEW t \in Keys \cup {NoKey},
         NEW l \in BOOLEAN
  PROVE  [name |-> n, model |-> m, key |-> k, typed |-> t, lost |-> l] \in Presets
  BY DEF Presets

LEMMA NewPreset ==
  ASSUME NEW n \in Names, NEW m \in Models, NEW k \in Keys \cup {NoKey}
  PROVE  Preset(n, m, k) \in OwnPreset /\ Preset(n, m, k) \in SentPreset
<1>1. k \in AnyKey
  BY Constants
<1>2. Preset(n, m, k) \in Presets
  BY <1>1, PresetMade DEF Preset
<1> QED
  BY <1>2 DEF Preset, OwnPreset, SentPreset

(* What get_config answers, and what the page sends back. *)
LEMMA ShownSent == ASSUME NEW r \in OwnPreset PROVE Shown(r) \in SentPreset
<1>0. r \in Presets /\ (r.lost \/ r.key = r.typed)
  BY DEF OwnPreset
<1>1. CASE r.key = NoKey
  BY <1>0, <1>1 DEF Shown, SentPreset
<1>2. CASE r.key # NoKey
  <2>1. Shown(r) = [name |-> r.name, model |-> r.model, key |-> Masked, typed |-> r.typed,
                    lost |-> r.lost]
    BY <1>0, <1>2, PresetFields DEF Shown
  <2>2. Shown(r) \in Presets
    BY <2>1, <1>0, PresetFields, PresetMade, Constants
  <2> QED
    BY <2>1, <2>2 DEF SentPreset
<1> QED
  BY <1>1, <1>2

LEMMA NamedSent ==
  ASSUME NEW r \in SentPreset, NEW n \in Names, NEW m \in Models
  PROVE  [r EXCEPT !.name = n, !.model = m] \in SentPreset
<1> DEFINE named == [r EXCEPT !.name = n]
           new == [name |-> n, model |-> m, key |-> r.key, typed |-> r.typed, lost |-> r.lost]
<1>1. r \in Presets /\ (r.lost \/ r.key = Masked \/ r.key = r.typed)
  BY DEF SentPreset
<1>2. named = [name |-> n, model |-> r.model, key |-> r.key, typed |-> r.typed, lost |-> r.lost]
  BY <1>1, PresetFields
<1>3. new \in Presets
  BY <1>1, PresetFields, PresetMade
<1>4. new \in SentPreset
  BY <1>1, <1>3 DEF SentPreset
<1> HIDE DEF named
<1>5. [named EXCEPT !.model = m] = new
  BY <1>2
<1> HIDE DEF new
<1> QED
  BY <1>4, <1>5 DEF named

LEMMA FormsSent == ASSUME page \in Short(SentPreset) PROVE Forms \subseteq SentPreset
<1> DEFINE Named(j, n, m) == [page[j] EXCEPT !.name = n, !.model = m]
           New == {Preset(n, m, k) : n \in Names, m \in Models, k \in Keys \cup {NoKey}}
           Old == {Named(j, n, m) : j \in DOMAIN page, n \in Names, m \in Models}
<1>1. ASSUME NEW j \in DOMAIN page, NEW n \in Names, NEW m \in Models
      PROVE  Named(j, n, m) \in SentPreset
  <2>1. page[j] \in SentPreset
    BY ShortList
  <2> QED
    BY <2>1, NamedSent
<1>2. New \subseteq SentPreset
  BY NewPreset
<1>4. Forms = New \cup Old
  BY DEF Forms
<1> HIDE DEF Named
<1>3. Old \subseteq SentPreset
  BY <1>1
<1> HIDE DEF New, Old
<1> QED
  BY <1>2, <1>3, <1>4

LEMMA PageSent ==
  ASSUME page \in Short(SentPreset), NEW list \in PageLists
  PROVE  list \in Short(SentPreset)
<1>0. /\ page \in Seq(SentPreset) /\ Len(page) \in Nat /\ Len(page) <= MaxPresets
      /\ DOMAIN page = 1..Len(page) /\ MaxPresets \in Nat
  BY ShortList, Constants
<1>1. ASSUME NEW i \in DOMAIN page, list = RemoveAt(page, i)
      PROVE  list \in Seq(SentPreset) /\ Len(list) = Len(page) - 1
  <2> DEFINE before == SubSeq(page, 1, i - 1)
             after == SubSeq(page, i + 1, Len(page))
  <2>1. before \in Seq(SentPreset) /\ Len(before) = i - 1
    BY <1>0, ElementOfSeq, SubSeqProperties
  <2>2. after \in Seq(SentPreset) /\ Len(after) = Len(page) - i
    BY <1>0, ElementOfSeq, SubSeqProperties
  <2>3. list \in Seq(SentPreset) /\ Len(list) = Len(before) + Len(after)
    BY <1>1, <2>1, <2>2, ConcatProperties DEF RemoveAt
  <2> HIDE DEF before, after
  <2> QED
    BY <1>0, <2>1, <2>2, <2>3
<1>2. ASSUME NEW i \in DOMAIN page, NEW q \in Forms, list = ReplaceAt(page, i, q)
      PROVE  list \in Seq(SentPreset) /\ Len(list) = Len(page)
  <2>1. q \in SentPreset
    BY FormsSent
  <2> QED
    BY <2>1, <1>0, <1>2, ExceptSeq DEF ReplaceAt
<1>3. ASSUME Len(page) # MaxPresets, NEW q \in Forms, list = Append(page, q)
      PROVE  list \in Seq(SentPreset) /\ Len(list) = Len(page) + 1
  <2>1. q \in SentPreset
    BY FormsSent
  <2> QED
    BY <2>1, <1>0, <1>3, AppendProperties
<1>4. \/ \E i \in DOMAIN page : list = RemoveAt(page, i)
      \/ \E i \in DOMAIN page, q \in Forms : list = ReplaceAt(page, i, q)
      \/ Len(page) # MaxPresets /\ \E q \in Forms : list = Append(page, q)
  BY DEF PageLists
<1>5. list \in Seq(SentPreset)
      /\ (Len(list) = Len(page) - 1 \/ Len(list) = Len(page)
          \/ (Len(list) = Len(page) + 1 /\ Len(page) # MaxPresets))
  BY <1>1, <1>2, <1>3, <1>4
<1>6. Len(list) \in Nat
  BY <1>5, LenProperties
<1>7. Len(list) <= MaxPresets
  <2>1. ASSUME NEW l \in Nat, NEW n \in Nat, NEW most \in Nat, n <= most,
               l = n - 1 \/ l = n \/ (l = n + 1 /\ n # most)
        PROVE  l <= most
    BY <2>1
  <2> QED
    BY <1>0, <1>5, <1>6, <2>1
<1> QED
  BY <1>5, <1>6, <1>7 DEF Short
-----------------------------------------------------------------------------
(* What save_presets makes of an item: the first preset of its name and model
   is found, which is the only one if it is its own.                         *)
LEMMA LeastNatural ==
  ASSUME NEW T, T \subseteq Nat, T # {}
  PROVE  \E n \in T : \A m \in T : n <= m
<1>1. PICK n \in T : \A m \in T : ~(<<m, n>> \in OpToRel(<, Nat))
  BY NatLessThanWellFounded, WFMin
<1>2. \A m \in T : ~(m < n)
  BY <1>1 DEF OpToRel
<1> QED
  BY <1>2

LEMMA FirstFound ==
  ASSUME presets \in Short(OwnPreset), NEW q,
         SelectInSeq(presets, LAMBDA o : Same(o, q)) # 0
  PROVE  /\ SelectInSeq(presets, LAMBDA o : Same(o, q)) \in 1..Len(presets)
         /\ Same(presets[SelectInSeq(presets, LAMBDA o : Same(o, q))], q)
<1> DEFINE I == {i \in 1..Len(presets) : Same(presets[i], q)}
<1>1. I # {} /\ SelectInSeq(presets, LAMBDA o : Same(o, q)) = Min(I)
  BY DEF SelectInSeq
<1>2. Len(presets) \in Nat
  BY ShortList
<1>3. I \subseteq Nat
  BY <1>2
<1>4. Min(I) \in I
  <2> HIDE DEF I
  <2> QED
    BY <1>1, <1>3, LeastNatural DEF Min
<1> QED
  BY <1>1, <1>4

LEMMA TheOneIsFound ==
  ASSUME presets \in Short(OwnPreset), NEW q, NEW j \in 1..Len(presets),
         \A n \in 1..Len(presets) : Same(presets[n], q) <=> n = j
  PROVE  SelectInSeq(presets, LAMBDA o : Same(o, q)) = j
<1> DEFINE I == {i \in 1..Len(presets) : Same(presets[i], q)}
<1>1. I = {j}
  OBVIOUS
<1>2. Len(presets) \in Nat
  BY ShortList
<1>3. Min({j}) = j
  BY <1>2 DEF Min
<1> QED
  BY <1>1, <1>3 DEF SelectInSeq

LEMMA RestoredOwn ==
  ASSUME presets \in Short(OwnPreset), NEW item \in SentPreset, NEW i
  PROVE  Restored(item, i) \in OwnPreset
<1>0. item \in Presets /\ (item.lost \/ item.key = Masked \/ item.key = item.typed)
  BY DEF SentPreset
<1>1. CASE item.key # Masked
  BY <1>0, <1>1 DEF Restored, OwnPreset
<1>2. CASE item.key = Masked
  <2> DEFINE old == SelectInSeq(presets, LAMBDA q : Same(q, item))
             key == IF old # 0 THEN presets[old].key ELSE Masked
  <2>1. Restored(item, i) = [item EXCEPT !.key = key, !.lost = ~ItsOwn(item)]
    BY <1>2 DEF Restored
  <2>2. ASSUME old # 0
        PROVE  /\ old \in 1..Len(presets) /\ Same(presets[old], item)
               /\ presets[old] \in OwnPreset
    <3>1. old \in 1..Len(presets) /\ Same(presets[old], item)
      BY <2>2, FirstFound
    <3> HIDE DEF old
    <3> QED
      BY <3>1, ShortList
  <2>3. ItsOwn(item) => key = item.typed
    <3> SUFFICES ASSUME ItsOwn(item) PROVE key = item.typed
      OBVIOUS
    <3>1. PICK j \in 1..Len(presets) :
            /\ \A n \in 1..Len(presets) : Same(presets[n], item) <=> n = j
            /\ presets[j].typed = item.typed /\ ~presets[j].lost
      BY ShortList DEF ItsOwn
    <3>2. old = j
      BY <3>1, TheOneIsFound
    <3>3. presets[j] \in OwnPreset /\ j # 0
      BY <3>1, ShortList
    <3> HIDE DEF old
    <3> QED
      BY <3>1, <3>2, <3>3 DEF OwnPreset
  <2> HIDE DEF old
  <2>4. key \in AnyKey
    BY <2>2, PresetFields, Constants DEF OwnPreset
  <2>5. ItsOwn(item) \in BOOLEAN
    BY DEF ItsOwn
  <2> HIDE DEF key
  <2> DEFINE new == [name |-> item.name, model |-> item.model, key |-> key,
                     typed |-> item.typed, lost |-> ~ItsOwn(item)]
  <2>6. Restored(item, i) = new
    BY <1>0, <2>1, PresetFields
  <2>7. /\ item.name \in Names /\ item.model \in Models /\ item.typed \in Keys \cup {NoKey}
        /\ (~ItsOwn(item)) \in BOOLEAN
    BY <1>0, PresetFields
  <2>8. new \in Presets
    BY <2>4, <2>7, PresetMade
  <2>9. new.lost \/ new.key = new.typed
    BY <2>3
  <2> HIDE DEF new
  <2> QED
    BY <2>6, <2>8, <2>9 DEF OwnPreset
<1> QED
  BY <1>1, <1>2
-----------------------------------------------------------------------------
(* The first file, and what is read of it. *)
LEMMA FirstTree ==
  ASSUME NEW k \in Keys
  PROVE  [NoTree EXCEPT !.key["openai"] = For("openai", k)] \in OwnTree
<1> DEFINE keys == [NoTree.key EXCEPT !["openai"] = For("openai", k)]
           first == [NoTree EXCEPT !.key["openai"] = For("openai", k)]
<1>1. For("openai", k) \in KeyFor /\ For("openai", k).of = "openai"
  BY Constants DEF For, KeyFor
<1>2. /\ NoTree.key \in [Providers -> KeyFor] /\ NoTree.url \in [Providers -> UrlFor]
      /\ \A p \in Providers : NoTree.key[p].of = p /\ NoTree.url[p].of = p
  BY NoTreeOwn, TreeFields
<1>3. keys \in [Providers -> KeyFor] /\ \A p \in Providers : keys[p].of = p
  BY <1>1, <1>2, Constants
<1>4. first = [NoTree EXCEPT !.key = keys]
  OBVIOUS
<1> HIDE DEF keys, first
<1>5. first = [provider |-> NoTree.provider, model |-> NoTree.model, key |-> keys, url |-> NoTree.url]
  BY <1>4, NoTreeOwn, TreeFields
<1>6. first \in OwnTree
  BY <1>2, <1>3, <1>5, NoTreeOwn, TreeFields, TreeMade
<1> QED
  BY <1>6 DEF first

LEMMA FirstList ==
  ASSUME NEW n \in Names, NEW k \in Keys
  PROVE  <<Preset(n, "default", k)>> \in Short(OwnPreset)
<1> DEFINE r == Preset(n, "default", k)
<1>1. r \in OwnPreset
  BY NewPreset, Constants
<1> HIDE DEF r
<1>2. <<r>> \in Seq(OwnPreset) /\ Len(<<r>>) = 1
  BY <1>1
<1>3. 1 <= MaxPresets
  BY Constants
<1>4. <<r>> \in Short(OwnPreset)
  BY <1>2, <1>3 DEF Short
<1> QED
  BY <1>4 DEF r

LEMMA FirstFile == ASSUME NEW text \in FirstFiles PROVE text \in Texts
<1>1. CASE text = Empty
  BY <1>1, EmptyText
<1>2. ASSUME NEW n \in Names, NEW k \in Keys,
             text = [tree |-> [NoTree EXCEPT !.key["openai"] = For("openai", k)],
                     presets |-> <<Preset(n, "default", k)>>]
      PROVE  text \in Texts
  BY <1>2, FirstTree, FirstList, NowText
<1> QED
  BY <1>1, <1>2 DEF FirstFiles

(* A configuration that has just been read. *)
LEMMA Fresh ==
  ASSUME tree \in OwnTree, llm = Load(tree), chosen = Pair(tree), kept = FALSE,
         at = "idle", saving = "no", work = NoWork
  PROVE  Agreed /\ Working
<1>1. Agreed
  BY LoadOwn, TreeFields DEF Agreed, Pair, ToProvider, ToModel
<1>2. NoWork \in WorkType /\ ~NoWork.preset
  BY Constants DEF NoWork, Work, WorkType
<1> QED
  BY <1>1, <1>2 DEF Working

LEMMA SettingsInit == Init => SettingsInv
<1> SUFFICES ASSUME Init PROVE SettingsInv
  OBVIOUS
<1>1. file \in Texts
  BY FirstFile DEF Init
<1>2. Now = file
  BY <1>1, TextFields DEF Init, Now
<1>3. Texted
  BY <1>1, <1>2, EmptyText, EmptyShort DEF Init, Texted
<1>4. tree \in OwnTree
  BY <1>1, TextFields DEF Init
<1>5. Agreed /\ Working
  BY <1>4, Fresh DEF Init
<1>6. Counting
  <2>1. /\ attempt \in 0..MaxAttempts /\ changes \in 0..MaxChanges /\ crashes \in 0..MaxCrashes
        /\ shutdown \in {"no", "asked", "saving"} /\ stale \subseteq {"key", "url"}
    BY ConfigAssumption DEF Init
  <2>2. unsaved \in BOOLEAN /\ kept \in BOOLEAN
    BY DEF Init
  <2> QED
    BY <2>1, <2>2 DEF Counting
<1>7. Found
  BY <1>1, <1>2, TextFields DEF Found
<1>8. Saved /\ RequestOfOneProvider
  BY <1>7 DEF Init, Saved, RequestOfOneProvider
<1> QED
  BY <1>3, <1>5, <1>6, <1>8 DEF SettingsInv
-----------------------------------------------------------------------------
(* What the actions have in common. *)
LEMMA NowFields ==
  ASSUME Texted
  PROVE  tree \in OwnTree /\ presets \in Short(OwnPreset)
<1>1. Now.tree = tree /\ Now.presets = presets
  BY DEF Now
<1> QED
  BY <1>1, TextFields DEF Texted

LEMMA TextedNow ==
  ASSUME Texted, tree' \in OwnTree, presets' \in Short(OwnPreset),
         UNCHANGED <<file, snapshot, page>>
  PROVE  Texted'
<1>1. Now' \in Texts
  BY NowText DEF Now
<1> QED
  BY <1>1 DEF Texted

LEMMA SameRequest ==
  ASSUME RequestOfOneProvider, UNCHANGED <<request, attempt>>
  PROVE  RequestOfOneProvider'
  BY DEF RequestOfOneProvider

(* A message is taken between two handlers, when nothing is to come. *)
LEMMA Ready ==
  ASSUME SettingsInv, Idle
  PROVE  /\ Texted /\ Counting /\ Working /\ Agreed /\ RequestOfOneProvider
         /\ ~ToProvider /\ ~ToModel /\ at = "idle" /\ saving = "no"
         /\ chosen = [provider |-> llm.provider, model |-> llm.model]
         /\ tree \in OwnTree /\ presets \in Short(OwnPreset)
  BY NowFields DEF SettingsInv, Idle, Agreed, ToProvider, ToModel

LEMMA MessageCounted ==
  ASSUME Counting, Message, UNCHANGED <<attempt, shutdown, crashes, unsaved, kept>>,
         stale' \subseteq {"key", "url"}
  PROVE  Counting'
<1>1. changes' \in 0..MaxChanges
  BY ConfigAssumption DEF Counting, Message
<1> QED
  BY <1>1 DEF Counting

LEMMA MessageFields ==
  ASSUME NEW m \in Messages
  PROVE  /\ m.provider \in Providers \cup {None} /\ m.model \in Models \cup {None}
         /\ m.key \in [Providers -> Keys \cup {NoKey}] /\ m.url \in [Providers -> Urls \cup {None}]
  BY ConfigAssumption DEF AllMessages

LEMMA GivenFor ==
  ASSUME NEW p \in Providers
  PROVE  /\ \A v \in AnyKey, old \in KeyFor : Given(p, v, old) \in KeyFor
         /\ \A v \in Urls \cup {None}, old \in UrlFor : Given(p, v, old) \in UrlFor
         /\ \A v, old : old.of = p => Given(p, v, old).of = p
         /\ \A v, old : v = None => Given(p, v, old) = old
  BY DEF Given, For, KeyFor, UrlFor

LEMMA StoredOwn ==
  ASSUME tree \in OwnTree, NEW m \in Messages
  PROVE  /\ StoreAll(m) \in OwnTree
         /\ StoreAll(m).provider = tree.provider /\ StoreAll(m).model = tree.model
         /\ \A p \in Providers : /\ m.key[p] = NoKey => StoreAll(m).key[p] = tree.key[p]
                                 /\ m.url[p] = None => StoreAll(m).url[p] = tree.url[p]
<1> DEFINE keys == [p \in Providers |-> Given(p, m.key[p], tree.key[p])]
           urls == [p \in Providers |-> Given(p, m.url[p], tree.url[p])]
<1>1. \A p \in Providers : /\ m.key[p] \in AnyKey /\ m.url[p] \in Urls \cup {None}
                           /\ tree.key[p] \in KeyFor /\ tree.url[p] \in UrlFor
                           /\ tree.key[p].of = p /\ tree.url[p].of = p
  BY MessageFields, TreeFields, Constants
<1>2. keys \in [Providers -> KeyFor] /\ urls \in [Providers -> UrlFor]
  BY <1>1, GivenFor
<1>3. \A p \in Providers : keys[p].of = p /\ urls[p].of = p
  BY <1>1, GivenFor
<1>4. \A p \in Providers : /\ m.key[p] = NoKey => keys[p] = tree.key[p]
                           /\ m.url[p] = None => urls[p] = tree.url[p]
  BY <1>1, GivenFor, Constants
<1>5. StoreAll(m) = [tree EXCEPT !.key = keys, !.url = urls]
  BY DEF StoreAll
<1> HIDE DEF keys, urls
<1> DEFINE new == [tree EXCEPT !.key = keys, !.url = urls]
<1>7. /\ new = [provider |-> tree.provider, model |-> tree.model, key |-> keys, url |-> urls]
      /\ new \in OwnTree
  BY <1>2, <1>3, TreeWith, Zenon
<1>8. StoreAll(m) = new
  BY <1>5
<1> HIDE DEF new
<1>6. StoreAll(m) = [provider |-> tree.provider, model |-> tree.model, key |-> keys, url |-> urls]
      /\ StoreAll(m) \in OwnTree
  BY <1>7, <1>8
<1> QED
  BY <1>4, <1>6

LEMMA ConfigInv == SettingsInv /\ SetConfig => SettingsInv'
<1> SUFFICES ASSUME SettingsInv, SetConfig PROVE SettingsInv'
  OBVIOUS
<1>0. /\ Texted /\ Counting /\ Working /\ Agreed /\ RequestOfOneProvider
      /\ ~ToProvider /\ at = "idle" /\ saving = "no"
      /\ chosen = [provider |-> llm.provider, model |-> llm.model]
      /\ tree \in OwnTree /\ presets \in Short(OwnPreset)
  BY Ready DEF SetConfig, Message
<1>1. PICK m \in Messages :
        /\ tree' = StoreAll(m)
        /\ work' = Work(FALSE, m.provider, m.model, NoKey, None)
        /\ chosen' = [provider |-> IF m.provider = None THEN chosen.provider ELSE m.provider,
                      model |-> IF m.model = None THEN chosen.model ELSE m.model]
        /\ stale' = IF m.provider = None THEN stale \cup Untold(m) ELSE stale
  BY DEF SetConfig
<1>2. /\ Message /\ at' = FirstStep(work')
      /\ UNCHANGED <<presets, file, snapshot, llm, saving, page, request, attempt, shutdown,
                     crashes, unsaved, kept>>
  BY DEF SetConfig, agent
<1>3. m.provider \in Providers \cup {None} /\ m.model \in Models \cup {None}
  BY MessageFields
<1>4. /\ work' \in WorkType /\ ~work'.preset
      /\ work'.provider = m.provider /\ work'.model = m.model
  <2>1. NoKey \in AnyKey /\ None \in Urls \cup {None}
    BY Constants
  <2>2. work' = [preset |-> FALSE, provider |-> m.provider, model |-> m.model,
                 key |-> NoKey, url |-> None]
    BY <1>1 DEF Work
  <2> QED
    BY <1>3, <2>1, <2>2 DEF WorkType
<1>5. /\ at' = "model" <=> m.model # None
      /\ at' = "provider" <=> m.model = None /\ m.provider # None
      /\ at' \in {"model", "provider", "last"}
  BY <1>2, <1>4 DEF FirstStep, ThenProvider
<1>6. /\ tree' \in OwnTree /\ tree'.provider = tree.provider /\ tree'.model = tree.model
      /\ \A p \in Providers : /\ m.key[p] = NoKey => tree'.key[p] = tree.key[p]
                              /\ m.url[p] = None => tree'.url[p] = tree.url[p]
  BY <1>0, <1>1, StoredOwn
<1>7. (ToProvider' <=> m.provider # None) /\ (ToModel' <=> m.model # None)
  BY <1>4, <1>5 DEF ToProvider, ToModel
<1>8. Texted'
  BY <1>0, <1>2, <1>6, TextedNow
<1>9. Counting'
  <2>1. stale' \subseteq {"key", "url"}
    BY <1>0, <1>1 DEF Untold, Counting
  <2> QED
    BY <1>0, <1>2, <2>1, MessageCounted
<1>10. Working'
  BY <1>0, <1>2, <1>3, <1>4, <1>5 DEF Working
<1>11. Agreed'
  <2>1. llm.provider \in Providers
    BY <1>0 DEF Agreed, LlmType
  <2>2. ASSUME ~ToProvider'
        PROVE  /\ kept \/ "key" \in stale' \/ llm.key = tree'.key[llm.provider]
               /\ "url" \in stale' \/ llm.url = tree'.url[llm.provider]
    <3>1. stale' = stale \cup Untold(m)
      BY <1>1, <1>7, <2>2
    <3>2. /\ kept \/ "key" \in stale \/ llm.key = tree.key[llm.provider]
          /\ "url" \in stale \/ llm.url = tree.url[llm.provider]
      BY <1>0 DEF Agreed
    <3>3. /\ m.key[llm.provider] # NoKey => "key" \in Untold(m)
          /\ m.url[llm.provider] # None => "url" \in Untold(m)
      BY DEF Untold
    <3> QED
      BY <1>6, <2>1, <3>1, <3>2, <3>3
  <2>3. chosen' = [provider |-> IF ToProvider' THEN work'.provider ELSE llm.provider,
                   model |-> IF ToModel' THEN work'.model ELSE llm.model]
    BY <1>0, <1>1, <1>4, <1>7
  <2> QED
    BY <1>0, <1>2, <1>6, <2>2, <2>3 DEF Agreed
<1>12. Saved'
  BY <1>0, <1>2, <1>5 DEF Saved, Idle
<1>13. RequestOfOneProvider'
  BY <1>0, <1>2, SameRequest
<1> QED
  BY <1>8, <1>9, <1>10, <1>11, <1>12, <1>13 DEF SettingsInv

(* One entry of a provider is stored, or two. *)
LEMMA KeyStored ==
  ASSUME NEW t \in OwnTree, NEW p \in Providers, NEW k \in KeyFor, k.of = p
  PROVE  /\ [t EXCEPT !.key[p] = k] \in OwnTree
         /\ [t EXCEPT !.key[p] = k].provider = t.provider
         /\ [t EXCEPT !.key[p] = k].model = t.model
         /\ [t EXCEPT !.key[p] = k].key[p] = k
         /\ [t EXCEPT !.key[p] = k].url = t.url
<1> DEFINE keys == [t.key EXCEPT ![p] = k]
           keyed == [t EXCEPT !.key = keys]
<1>1. /\ t.provider \in Providers /\ t.model \in Models
      /\ t.key \in [Providers -> KeyFor] /\ t.url \in [Providers -> UrlFor]
      /\ \A q \in Providers : t.key[q].of = q /\ t.url[q].of = q
  BY TreeFields
<1>2. keys \in [Providers -> KeyFor] /\ keys[p] = k /\ \A q \in Providers : keys[q].of = q
  BY <1>1
<1> HIDE DEF keys
<1>3. keyed = [provider |-> t.provider, model |-> t.model, key |-> keys, url |-> t.url]
  BY TreeFields
<1> HIDE DEF keyed
<1>4. keyed \in OwnTree /\ keyed.provider = t.provider /\ keyed.model = t.model
      /\ keyed.key[p] = k /\ keyed.url = t.url
  BY <1>1, <1>2, <1>3, TreeMade
<1>5. keyed = [t EXCEPT !.key[p] = k]
  BY DEF keyed, keys
<1> QED
  BY <1>4, <1>5

LEMMA UrlStored ==
  ASSUME NEW t \in OwnTree, NEW p \in Providers, NEW u \in UrlFor, u.of = p
  PROVE  /\ [t EXCEPT !.url[p] = u] \in OwnTree
         /\ [t EXCEPT !.url[p] = u].provider = t.provider
         /\ [t EXCEPT !.url[p] = u].model = t.model
         /\ [t EXCEPT !.url[p] = u].url[p] = u
         /\ [t EXCEPT !.url[p] = u].key = t.key
<1> DEFINE urls == [t.url EXCEPT ![p] = u]
           addressed == [t EXCEPT !.url = urls]
<1>1. /\ t.provider \in Providers /\ t.model \in Models
      /\ t.key \in [Providers -> KeyFor] /\ t.url \in [Providers -> UrlFor]
      /\ \A q \in Providers : t.key[q].of = q /\ t.url[q].of = q
  BY TreeFields
<1>2. urls \in [Providers -> UrlFor] /\ urls[p] = u /\ \A q \in Providers : urls[q].of = q
  BY <1>1
<1> HIDE DEF urls
<1>3. addressed = [provider |-> t.provider, model |-> t.model, key |-> t.key, url |-> urls]
  BY TreeFields
<1> HIDE DEF addressed
<1>4. addressed \in OwnTree /\ addressed.provider = t.provider /\ addressed.model = t.model
      /\ addressed.url[p] = u /\ addressed.key = t.key
  BY <1>1, <1>2, <1>3, TreeMade
<1>5. addressed = [t EXCEPT !.url[p] = u]
  BY DEF addressed, urls
<1> QED
  BY <1>4, <1>5

LEMMA ForFields ==
  ASSUME NEW p \in Providers
  PROVE  /\ \A v \in AnyKey : For(p, v) \in KeyFor /\ For(p, v).of = p
         /\ \A v \in Urls : For(p, v) \in UrlFor /\ For(p, v).of = p
  BY DEF For, KeyFor, UrlFor

LEMMA PresetInv == SettingsInv /\ ApplyPreset => SettingsInv'
<1> SUFFICES ASSUME SettingsInv, ApplyPreset PROVE SettingsInv'
  OBVIOUS
<1>0. /\ Texted /\ Counting /\ Working /\ Agreed /\ RequestOfOneProvider
      /\ at = "idle" /\ saving = "no"
      /\ tree \in OwnTree /\ presets \in Short(OwnPreset)
  BY Ready DEF ApplyPreset, Message
<1>1. PICK i \in 1..Len(presets), p \in Providers, u \in Urls :
        /\ tree' = [tree EXCEPT !.key[p] = Given(p, presets[i].key, @), !.url[p] = For(p, u)]
        /\ work' = Work(TRUE, p, presets[i].model, presets[i].key, u)
        /\ chosen' = [provider |-> p, model |-> presets[i].model]
  BY DEF ApplyPreset
<1>2. /\ Message /\ at' = FirstStep(work')
      /\ UNCHANGED <<presets, file, snapshot, llm, saving, page, request, attempt, shutdown,
                     crashes, unsaved, kept, stale>>
  BY DEF ApplyPreset, agent
<1>3. presets[i].key \in AnyKey /\ presets[i].model \in Models
  <2>1. presets[i] \in OwnPreset
    BY <1>0, ShortList
  <2>2. presets[i] \in Presets
    BY <2>1 DEF OwnPreset
  <2> QED
    BY <2>2, PresetFields
<1>4. /\ work' \in WorkType /\ work'.preset /\ work'.provider = p
      /\ work'.model = presets[i].model /\ work'.url = u
  <2>1. work' = [preset |-> TRUE, provider |-> p, model |-> presets[i].model,
                 key |-> presets[i].key, url |-> u]
    BY <1>1 DEF Work
  <2> QED
    BY <1>3, <2>1 DEF WorkType
<1>5. at' = "provider"
  BY <1>2, <1>4 DEF FirstStep
<1>6. tree' \in OwnTree /\ tree'.provider = tree.provider /\ tree'.model = tree.model
  <2> DEFINE v == Given(p, presets[i].key, tree.key[p])
             w == For(p, u)
             keyed == [tree EXCEPT !.key[p] = v]
  <2>1. tree.key[p] \in KeyFor /\ tree.key[p].of = p
    BY <1>0, TreeFields
  <2>2. v \in KeyFor /\ v.of = p
    BY <1>3, <2>1, GivenFor
  <2>3. w \in UrlFor /\ w.of = p
    BY ForFields
  <2>4. tree \in OwnTree
    BY <1>0
  <2> DEFINE both == [keyed EXCEPT !.url[p] = w]
  <2>5. tree' = both
    BY <1>1
  <2> HIDE DEF v, w
  <2>6. keyed \in OwnTree /\ keyed.provider = tree.provider /\ keyed.model = tree.model
    BY <2>2, <2>4, KeyStored, Zenon
  <2> HIDE DEF keyed
  <2>7. both \in OwnTree /\ both.provider = keyed.provider /\ both.model = keyed.model
    BY <2>3, <2>6, UrlStored, Zenon
  <2> HIDE DEF both
  <2> QED
    BY <2>5, <2>6, <2>7
<1>7. ToProvider' /\ ToModel'
  BY <1>4, <1>5 DEF ToProvider, ToModel
<1>8. Texted'
  BY <1>0, <1>2, <1>6, TextedNow
<1>9. Counting'
  <2>1. stale' \subseteq {"key", "url"}
    BY <1>0, <1>2 DEF Counting
  <2> QED
    BY <1>0, <1>2, <2>1, MessageCounted
<1>10. Working'
  BY <1>0, <1>1, <1>2, <1>3, <1>4, <1>5 DEF Working
<1>11. Agreed'
  BY <1>0, <1>1, <1>2, <1>4, <1>6, <1>7 DEF Agreed
<1>12. Saved'
  BY <1>0, <1>2, <1>5 DEF Saved, Idle
<1>13. RequestOfOneProvider'
  BY <1>0, <1>2, SameRequest
<1> QED
  BY <1>8, <1>9, <1>10, <1>11, <1>12, <1>13 DEF SettingsInv

LEMMA ListSaved ==
  ASSUME presets \in Short(OwnPreset), page \in Short(SentPreset), NEW list \in PageLists
  PROVE  [i \in DOMAIN list |-> Restored(list[i], i)] \in Short(OwnPreset)
<1> DEFINE new == [i \in DOMAIN list |-> Restored(list[i], i)]
<1>1. list \in Short(SentPreset)
  BY PageSent
<1>2. DOMAIN list = 1..Len(list) /\ \A i \in 1..Len(list) : list[i] \in SentPreset
  BY <1>1, ShortList
<1>3. \A i \in 1..Len(list) : new[i] \in OwnPreset
  BY <1>2, RestoredOwn
<1>4. new = [i \in DOMAIN list |-> new[i]]
  OBVIOUS
<1> HIDE DEF new
<1>5. new \in Short(OwnPreset)
  BY <1>1, <1>3, <1>4, MadeShort
<1> QED
  BY <1>5 DEF new

LEMMA ListInv == SettingsInv /\ SavePresets => SettingsInv'
<1> SUFFICES ASSUME SettingsInv, SavePresets PROVE SettingsInv'
  OBVIOUS
<1>0. /\ Texted /\ Counting /\ Working /\ Agreed /\ RequestOfOneProvider
      /\ ~ToProvider /\ ~ToModel /\ at = "idle" /\ saving = "no"
      /\ tree \in OwnTree /\ presets \in Short(OwnPreset)
  BY Ready DEF SavePresets, Message
<1>1. PICK list \in PageLists : presets' = [i \in DOMAIN list |-> Restored(list[i], i)]
  BY DEF SavePresets
<1>2. /\ Message /\ at' = "last"
      /\ UNCHANGED <<tree, file, snapshot, llm, saving, work, page, request, attempt, shutdown,
                     crashes, chosen, unsaved, kept, stale>>
  BY DEF SavePresets, agent, history
<1>3. presets' \in Short(OwnPreset)
  BY <1>0, <1>1, ListSaved DEF Texted
<1>4. Texted'
  BY <1>0, <1>2, <1>3, TextedNow
<1>5. Counting'
  <2>1. stale' \subseteq {"key", "url"}
    BY <1>0, <1>2 DEF Counting
  <2> QED
    BY <1>0, <1>2, <2>1, MessageCounted
<1>6. Working'
  BY <1>0, <1>2 DEF Working
<1>7. ~ToProvider' /\ ~ToModel'
  BY <1>2 DEF ToProvider, ToModel
<1>8. Agreed'
  BY <1>0, <1>2, <1>7 DEF Agreed
<1>9. Saved'
  BY <1>0, <1>2 DEF Saved, Idle
<1>10. RequestOfOneProvider'
  BY <1>0, <1>2, SameRequest
<1> QED
  BY <1>4, <1>5, <1>6, <1>8, <1>9, <1>10 DEF SettingsInv

LEMMA GetInv == SettingsInv /\ GetConfig => SettingsInv'
<1> SUFFICES ASSUME SettingsInv, GetConfig PROVE SettingsInv'
  OBVIOUS
<1>0. /\ Texted /\ Counting /\ Working /\ Agreed /\ Saved /\ RequestOfOneProvider
      /\ presets \in Short(OwnPreset)
  BY NowFields DEF SettingsInv
<1>1. /\ page' = [i \in DOMAIN presets |-> Shown(presets[i])]
      /\ UNCHANGED <<tree, presets, file, snapshot, llm, at, saving, work, request, attempt,
                     shutdown, changes, crashes, chosen, unsaved, kept, stale>>
  BY DEF GetConfig, stored, server, agent, bounds, history
<1>2. page' \in Short(SentPreset)
  <2>1. DOMAIN presets = 1..Len(presets) /\ \A i \in 1..Len(presets) : presets[i] \in OwnPreset
    BY <1>0, ShortList
  <2>2. \A i \in 1..Len(presets) : page'[i] \in SentPreset
    BY <1>1, <2>1, ShownSent
  <2>3. page' = [i \in DOMAIN presets |-> page'[i]]
    BY <1>1
  <2> QED
    BY <1>0, <2>2, <2>3, MadeShort
<1>3. Now' = Now
  BY <1>1 DEF Now
<1>4. Texted'
  BY <1>0, <1>1, <1>2, <1>3 DEF Texted
<1>5. Counting' /\ Working'
  BY <1>0, <1>1 DEF Counting, Working
<1>6. Agreed'
  BY <1>0, <1>1 DEF Agreed, ToProvider, ToModel
<1>7. Saved'
  BY <1>0, <1>1, <1>3 DEF Saved, Idle, Found
<1>8. RequestOfOneProvider'
  BY <1>0, <1>1, SameRequest
<1> QED
  BY <1>4, <1>5, <1>6, <1>7, <1>8 DEF SettingsInv
-----------------------------------------------------------------------------
(* The steps of a handler. *)
LEMMA TreeNamed ==
  ASSUME NEW t \in OwnTree, NEW p \in Providers, NEW m \in Models
  PROVE  /\ [t EXCEPT !.model = m] =
              [provider |-> t.provider, model |-> m, key |-> t.key, url |-> t.url]
         /\ [t EXCEPT !.provider = p] =
              [provider |-> p, model |-> t.model, key |-> t.key, url |-> t.url]
         /\ [t EXCEPT !.model = m] \in OwnTree /\ [t EXCEPT !.provider = p] \in OwnTree
<1>1. [t EXCEPT !.model = m] = [provider |-> t.provider, model |-> m, key |-> t.key, url |-> t.url]
  BY TreeFields
<1>2. [t EXCEPT !.provider = p] = [provider |-> p, model |-> t.model, key |-> t.key, url |-> t.url]
  BY TreeFields
<1> QED
  BY <1>1, <1>2, TreeFields, TreeMade

LEMMA LlmFields ==
  ASSUME NEW l \in LlmType
  PROVE  /\ l.provider \in Providers /\ l.model \in Models /\ l.key \in KeyFor /\ l.url \in UrlFor
         /\ l = [provider |-> l.provider, model |-> l.model, key |-> l.key, url |-> l.url]
  BY DEF LlmType

LEMMA LlmMade ==
  ASSUME NEW p \in Providers, NEW m \in Models, NEW k \in KeyFor, NEW u \in UrlFor
  PROVE  [provider |-> p, model |-> m, key |-> k, url |-> u] \in LlmType
  BY DEF LlmType

LEMMA ModelInv == SettingsInv /\ UseModel => SettingsInv'
<1> SUFFICES ASSUME SettingsInv, UseModel PROVE SettingsInv'
  OBVIOUS
<1>0. /\ Texted /\ Counting /\ Working /\ Agreed /\ RequestOfOneProvider
      /\ tree \in OwnTree /\ presets \in Short(OwnPreset)
  BY NowFields DEF SettingsInv
<1>1. /\ at = "model" /\ saving = "no"
      /\ llm' = [llm EXCEPT !.model = work.model]
      /\ tree' = [tree EXCEPT !.model = work.model]
      /\ at' = AfterModel(work) /\ saving' = "text"
      /\ UNCHANGED <<presets, file, snapshot, work, page, request, attempt, shutdown, changes,
                     crashes, chosen, unsaved, kept, stale>>
  BY DEF UseModel, Doing, agent, bounds, history
<1>2. work.model \in Models /\ llm \in LlmType /\ tree.provider \in Providers
  BY <1>0, <1>1, TreeFields DEF Working, Agreed
<1>3. tree' = [provider |-> tree.provider, model |-> work.model, key |-> tree.key, url |-> tree.url]
      /\ tree' \in OwnTree
  BY <1>0, <1>1, <1>2, TreeNamed
<1>4. llm' = [provider |-> llm.provider, model |-> work.model, key |-> llm.key, url |-> llm.url]
  BY <1>1, <1>2, LlmFields
<1>5. llm' \in LlmType
  BY <1>2, <1>4, LlmFields, LlmMade
<1>6. /\ work.preset => at' \in {"key", "url"}
      /\ ~work.preset => at' = IF work.provider = None THEN "last" ELSE "provider"
  BY <1>1 DEF AfterModel, ThenProvider
<1>7. (ToProvider' <=> ToProvider) /\ ToModel /\ ~ToModel'
  BY <1>1, <1>6 DEF ToProvider, ToModel
<1>8. Texted'
  BY <1>0, <1>1, <1>3, TextedNow
<1>9. Counting'
  BY <1>0, <1>1 DEF Counting
<1>10. Working'
  <2>1. work.preset => llm.provider = work.provider
    BY <1>0, <1>1 DEF Working
  <2>2. work.provider \in Providers \cup {None}
    BY <1>0 DEF Working, WorkType
  <2> QED
    BY <1>0, <1>1, <1>4, <1>6, <2>1, <2>2 DEF Working
<1>11. Agreed'
  <2>1. /\ llm.url.of = llm.provider /\ (~kept => llm.key.of = llm.provider)
        /\ llm.provider = tree.provider
        /\ ~ToProvider => /\ kept \/ "key" \in stale \/ llm.key = tree.key[llm.provider]
                          /\ "url" \in stale \/ llm.url = tree.url[llm.provider]
        /\ chosen = [provider |-> IF ToProvider THEN work.provider ELSE llm.provider,
                     model |-> work.model]
    BY <1>0, <1>7 DEF Agreed
  <2>2. chosen' = [provider |-> IF ToProvider' THEN work'.provider ELSE llm'.provider,
                   model |-> IF ToModel' THEN work'.model ELSE llm'.model]
    BY <1>1, <1>4, <1>7, <2>1
  <2> QED
    BY <1>1, <1>3, <1>4, <1>5, <1>7, <2>1, <2>2 DEF Agreed
<1>12. Saved'
  BY <1>1 DEF Saved, Idle
<1>13. RequestOfOneProvider'
  BY <1>0, <1>1, SameRequest
<1> QED
  BY <1>8, <1>9, <1>10, <1>11, <1>12, <1>13 DEF SettingsInv

LEMMA ReloadedFields ==
  ASSUME llm \in LlmType, tree \in OwnTree, NEW p \in Providers
  PROVE  /\ Reloaded(p) \in LlmType
         /\ Reloaded(p).provider = p /\ Reloaded(p).model = llm.model
         /\ Reloaded(p).key = (IF tree.key[p].is = NoKey THEN llm.key ELSE tree.key[p])
         /\ Reloaded(p).url = tree.url[p]
<1> DEFINE key == IF tree.key[p].is = NoKey THEN llm.key ELSE tree.key[p]
           url == tree.url[p]
           named == [llm EXCEPT !.provider = p]
           keyed == [named EXCEPT !.key = key]
<1>1. key \in KeyFor /\ url \in UrlFor
  BY TreeFields, LlmFields
<1>2. Reloaded(p) = [keyed EXCEPT !.url = url]
  BY DEF Reloaded
<1>3. named = [provider |-> p, model |-> llm.model, key |-> llm.key, url |-> llm.url]
  BY LlmFields
<1> HIDE DEF key, url, named
<1>4. keyed = [provider |-> p, model |-> llm.model, key |-> key, url |-> llm.url]
  BY <1>3
<1> HIDE DEF keyed
<1>5. Reloaded(p) = [provider |-> p, model |-> llm.model, key |-> key, url |-> url]
  BY <1>2, <1>4
<1>6. Reloaded(p) \in LlmType
  BY <1>1, <1>5, LlmFields, LlmMade
<1> QED
  BY <1>5, <1>6 DEF key, url

LEMMA ProviderInv == SettingsInv /\ UseProvider => SettingsInv'
<1> SUFFICES ASSUME SettingsInv, UseProvider PROVE SettingsInv'
  OBVIOUS
<1> DEFINE p == work.provider
<1>0. /\ Texted /\ Counting /\ Working /\ Agreed /\ RequestOfOneProvider
      /\ tree \in OwnTree /\ presets \in Short(OwnPreset)
  BY NowFields DEF SettingsInv
<1>1. /\ at = "provider" /\ saving = "no"
      /\ llm' = Reloaded(p) /\ tree' = [tree EXCEPT !.provider = p]
      /\ kept' = (tree.key[p].is = NoKey) /\ stale' = {}
      /\ at' = AfterProvider(work) /\ saving' = "text"
      /\ UNCHANGED <<presets, file, snapshot, work, page, request, attempt, shutdown, changes,
                     crashes, chosen, unsaved>>
  BY DEF UseProvider, Doing, agent, bounds
<1>2. p \in Providers /\ llm \in LlmType /\ tree.model \in Models
  BY <1>0, <1>1, TreeFields DEF Working, Agreed
<1>3. tree' = [provider |-> p, model |-> tree.model, key |-> tree.key, url |-> tree.url]
      /\ tree' \in OwnTree
  BY <1>0, <1>1, <1>2, TreeNamed
<1>4. /\ llm' \in LlmType /\ llm'.provider = p /\ llm'.model = llm.model
      /\ llm'.key = (IF tree.key[p].is = NoKey THEN llm.key ELSE tree.key[p])
      /\ llm'.url = tree.url[p]
  BY <1>0, <1>1, <1>2, ReloadedFields
<1>5. at' = IF work.preset THEN "model" ELSE "last"
  BY <1>1 DEF AfterProvider
<1>6. ToProvider /\ ~ToProvider' /\ (ToModel <=> work.preset) /\ (ToModel' <=> work.preset)
  BY <1>1, <1>5 DEF ToProvider, ToModel
<1>7. Texted'
  BY <1>0, <1>1, <1>3, TextedNow
<1>8. Counting'
  <2>1. kept' \in BOOLEAN
    BY <1>1
  <2> QED
    BY <1>0, <1>1, <2>1 DEF Counting
<1>9. Working'
  BY <1>0, <1>1, <1>4, <1>5 DEF Working
<1>10. Agreed'
  <2>1. tree.key[p].of = p /\ tree.url[p].of = p
    BY <1>0, <1>2, TreeFields
  <2>2. /\ llm.model = tree.model
        /\ chosen = [provider |-> p, model |-> IF ToModel THEN work.model ELSE llm.model]
    BY <1>0, <1>6 DEF Agreed
  <2>3. chosen' = [provider |-> IF ToProvider' THEN work'.provider ELSE llm'.provider,
                   model |-> IF ToModel' THEN work'.model ELSE llm'.model]
    BY <1>1, <1>4, <1>6, <2>2
  <2>4. ~kept' => llm'.key = tree.key[p]
    BY <1>1, <1>4
  <2> QED
    BY <1>3, <1>4, <2>1, <2>2, <2>3, <2>4 DEF Agreed
<1>11. Saved'
  BY <1>1 DEF Saved, Idle
<1>12. RequestOfOneProvider'
  BY <1>0, <1>1, SameRequest
<1> QED
  BY <1>7, <1>8, <1>9, <1>10, <1>11, <1>12 DEF SettingsInv

(* In the last steps of a preset the provider in use is the preset's. *)
LEMMA OfPreset ==
  ASSUME Working, Agreed, at \in {"key", "url"}
  PROVE  /\ work.preset /\ llm.provider = work.provider /\ work.provider \in Providers
         /\ work.key \in AnyKey /\ work.url \in Urls
         /\ ~ToProvider /\ ~ToModel /\ chosen = [provider |-> llm.provider, model |-> llm.model]
<1>1. work.preset /\ work.key \in AnyKey
  BY DEF Working, WorkType
<1>2. ~ToProvider /\ ~ToModel
  BY DEF ToProvider, ToModel
<1> QED
  BY <1>1, <1>2 DEF Working, Agreed

LEMMA KeyInv == SettingsInv /\ UseKey => SettingsInv'
<1> SUFFICES ASSUME SettingsInv, UseKey PROVE SettingsInv'
  OBVIOUS
<1> DEFINE p == llm.provider
           key == For(p, work.key)
<1>0. /\ Texted /\ Counting /\ Working /\ Agreed /\ RequestOfOneProvider
      /\ tree \in OwnTree /\ presets \in Short(OwnPreset)
  BY NowFields DEF SettingsInv
<1>1. /\ at = "key" /\ saving = "no"
      /\ llm' = [llm EXCEPT !.key = For(work.provider, work.key)]
      /\ tree' = [tree EXCEPT !.key[p] = For(work.provider, work.key)]
      /\ kept' = FALSE /\ at' = "url" /\ saving' = "text"
      /\ UNCHANGED <<presets, file, snapshot, work, page, request, attempt, shutdown, changes,
                     crashes, chosen, unsaved, stale>>
  BY DEF UseKey, Doing, agent, bounds
<1>2. /\ work.preset /\ p = work.provider /\ p \in Providers /\ work.key \in AnyKey
      /\ chosen = [provider |-> llm.provider, model |-> llm.model]
  BY <1>0, <1>1, OfPreset
<1>3. key \in KeyFor /\ key.of = p
  BY <1>2, ForFields
<1>4. llm' = [llm EXCEPT !.key = key] /\ tree' = [tree EXCEPT !.key[p] = key]
  BY <1>1, <1>2
<1> HIDE DEF key, p
<1>5. /\ tree' \in OwnTree /\ tree'.provider = tree.provider /\ tree'.model = tree.model
      /\ tree'.key[p] = key /\ tree'.url = tree.url
  BY <1>0, <1>2, <1>3, <1>4, KeyStored
<1>6. llm \in LlmType
  BY <1>0 DEF Agreed
<1>7. llm' = [provider |-> llm.provider, model |-> llm.model, key |-> key, url |-> llm.url]
  BY <1>4, <1>6, LlmFields
<1>8. llm' \in LlmType
  BY <1>3, <1>6, <1>7, LlmFields, LlmMade
<1>9. ~ToProvider' /\ ~ToModel' /\ ~ToProvider
  BY <1>1 DEF ToProvider, ToModel
<1>10. Texted'
  BY <1>0, <1>1, <1>5, TextedNow
<1>11. Counting'
  BY <1>0, <1>1 DEF Counting
<1>12. Working'
  BY <1>0, <1>1, <1>2, <1>7 DEF Working, p
<1>13. Agreed'
  <2>1. /\ llm.url.of = llm.provider /\ llm.provider = tree.provider /\ llm.model = tree.model
        /\ "url" \in stale \/ llm.url = tree.url[llm.provider]
    BY <1>0, <1>9 DEF Agreed
  <2>2. llm'.provider = p /\ llm.provider = p
    BY <1>7 DEF p
  <2> QED
    BY <1>1, <1>2, <1>3, <1>5, <1>7, <1>8, <1>9, <2>1, <2>2 DEF Agreed
<1>14. Saved'
  BY <1>1 DEF Saved, Idle
<1>15. RequestOfOneProvider'
  BY <1>0, <1>1, SameRequest
<1> QED
  BY <1>10, <1>11, <1>12, <1>13, <1>14, <1>15 DEF SettingsInv

LEMMA UrlInv == SettingsInv /\ UseUrl => SettingsInv'
<1> SUFFICES ASSUME SettingsInv, UseUrl PROVE SettingsInv'
  OBVIOUS
<1> DEFINE p == llm.provider
           url == For(p, work.url)
<1>0. /\ Texted /\ Counting /\ Working /\ Agreed /\ RequestOfOneProvider
      /\ tree \in OwnTree /\ presets \in Short(OwnPreset)
  BY NowFields DEF SettingsInv
<1>1. /\ at = "url" /\ saving = "no"
      /\ llm' = [llm EXCEPT !.url = For(work.provider, work.url)]
      /\ tree' = [tree EXCEPT !.url[p] = For(work.provider, work.url)]
      /\ at' = "last"
      /\ UNCHANGED <<presets, file, snapshot, saving, work, page, request, attempt, shutdown,
                     changes, crashes, chosen, unsaved, kept, stale>>
  BY DEF UseUrl, Doing, agent, bounds, history
<1>2. /\ work.preset /\ p = work.provider /\ p \in Providers /\ work.url \in Urls
      /\ chosen = [provider |-> llm.provider, model |-> llm.model]
  BY <1>0, <1>1, OfPreset
<1>3. url \in UrlFor /\ url.of = p
  BY <1>2, ForFields
<1>4. llm' = [llm EXCEPT !.url = url] /\ tree' = [tree EXCEPT !.url[p] = url]
  BY <1>1, <1>2
<1> HIDE DEF url, p
<1>5. /\ tree' \in OwnTree /\ tree'.provider = tree.provider /\ tree'.model = tree.model
      /\ tree'.url[p] = url /\ tree'.key = tree.key
  BY <1>0, <1>2, <1>3, <1>4, UrlStored
<1>6. llm \in LlmType
  BY <1>0 DEF Agreed
<1>7. llm' = [provider |-> llm.provider, model |-> llm.model, key |-> llm.key, url |-> url]
  BY <1>4, <1>6, LlmFields
<1>8. llm' \in LlmType
  BY <1>3, <1>6, <1>7, LlmFields, LlmMade
<1>9. ~ToProvider' /\ ~ToModel' /\ ~ToProvider
  BY <1>1 DEF ToProvider, ToModel
<1>10. Texted'
  BY <1>0, <1>1, <1>5, TextedNow
<1>11. Counting'
  BY <1>0, <1>1 DEF Counting
<1>12. Working'
  BY <1>0, <1>1, <1>7 DEF Working
<1>13. Agreed'
  <2>1. /\ ~kept => llm.key.of = llm.provider
        /\ llm.provider = tree.provider /\ llm.model = tree.model
        /\ kept \/ "key" \in stale \/ llm.key = tree.key[llm.provider]
    BY <1>0, <1>9 DEF Agreed
  <2>2. llm'.provider = p /\ llm.provider = p
    BY <1>7 DEF p
  <2> QED
    BY <1>1, <1>2, <1>3, <1>5, <1>7, <1>8, <1>9, <2>1, <2>2 DEF Agreed
<1>14. Saved'
  BY <1>0, <1>1 DEF Saved, Idle
<1>15. RequestOfOneProvider'
  BY <1>0, <1>1, SameRequest
<1> QED
  BY <1>10, <1>11, <1>12, <1>13, <1>14, <1>15 DEF SettingsInv
-----------------------------------------------------------------------------
(* The saves. *)
LEMMA SaveLastInv == SettingsInv /\ SaveLast => SettingsInv'
<1> SUFFICES ASSUME SettingsInv, SaveLast PROVE SettingsInv'
  OBVIOUS
<1>0. Texted /\ Counting /\ Working /\ Agreed /\ RequestOfOneProvider
  BY DEF SettingsInv
<1>1. /\ at = "last" /\ at' = "idle" /\ saving' = "text" /\ work' = NoWork
      /\ UNCHANGED <<tree, presets, file, snapshot, llm, page, request, attempt, shutdown, changes,
                     crashes, chosen, unsaved, kept, stale>>
  BY DEF SaveLast, Doing, stored, agent, bounds, history
<1>2. Texted' /\ Counting'
  BY <1>0, <1>1 DEF Texted, Now, Counting
<1>3. ~ToProvider /\ ~ToModel /\ ~ToProvider' /\ ~ToModel'
  BY <1>1 DEF ToProvider, ToModel
<1>4. Working'
  <2>1. NoWork \in WorkType /\ ~NoWork.preset
    BY Constants DEF NoWork, Work, WorkType
  <2> QED
    BY <1>1, <2>1 DEF Working
<1>5. Agreed'
  BY <1>0, <1>1, <1>3 DEF Agreed
<1>6. Saved'
  BY <1>1 DEF Saved, Idle
<1>7. RequestOfOneProvider'
  BY <1>0, <1>1, SameRequest
<1> QED
  BY <1>2, <1>4, <1>5, <1>6, <1>7 DEF SettingsInv

(* While a text is taken and written, only file and text change. *)
LEMMA OnlyFile ==
  ASSUME SettingsInv, file' \in Texts, snapshot' \in Texts, unsaved' \in BOOLEAN,
         saving' \in {"no", "text", "open", "write"},
         UNCHANGED <<tree, presets, llm, at, work, page, request, attempt, shutdown, changes,
                     crashes, chosen, kept, stale>>
  PROVE  Now' = Now /\ Texted' /\ Counting' /\ Working' /\ Agreed' /\ RequestOfOneProvider'
<1>0. Texted /\ Counting /\ Working /\ Agreed /\ RequestOfOneProvider
  BY DEF SettingsInv
<1>1. Now' = Now
  BY DEF Now
<1>2. Texted' /\ Counting'
  BY <1>0, <1>1 DEF Texted, Counting
<1>3. Working'
  BY <1>0 DEF Working
<1>4. Agreed'
  BY <1>0 DEF Agreed, ToProvider, ToModel
<1>5. RequestOfOneProvider'
  BY <1>0, SameRequest
<1> QED
  BY <1>1, <1>2, <1>3, <1>4, <1>5

LEMMA SaverInv == SettingsInv /\ Saver => SettingsInv'
<1> SUFFICES ASSUME SettingsInv, Saver PROVE SettingsInv'
  OBVIOUS
<1>0. /\ Now \in Texts /\ file \in Texts /\ snapshot \in Texts /\ Empty \in Texts
      /\ unsaved \in BOOLEAN /\ Saved
  BY EmptyText DEF SettingsInv, Texted, Counting
<1>1. CASE SaveText
  <2>1. /\ saving = "text" /\ snapshot' = Now /\ saving' = "open"
        /\ UNCHANGED <<tree, presets, file, llm, at, work, page, request, attempt, shutdown, changes,
                       crashes, chosen, unsaved, kept, stale>>
    BY <1>1 DEF SaveText, agent, bounds, history
  <2>2. Now' = Now /\ Texted' /\ Counting' /\ Working' /\ Agreed' /\ RequestOfOneProvider'
    BY <1>0, <2>1, OnlyFile
  <2>3. Saved'
    BY <2>1, <2>2 DEF Saved, Idle
  <2> QED
    BY <2>2, <2>3 DEF SettingsInv
<1>2. CASE SaveOpen
  <2>1. /\ saving = "open"
        /\ UNCHANGED <<tree, presets, llm, at, work, page, request, attempt, shutdown, changes,
                       crashes, chosen, kept, stale>>
        /\ \/ file' = Empty /\ saving' = "write" /\ UNCHANGED <<snapshot, unsaved>>
           \/ snapshot' = Empty /\ saving' = "no" /\ unsaved' = TRUE /\ UNCHANGED file
    BY <1>2 DEF SaveOpen, agent, bounds
  <2>2. Now' = Now /\ Texted' /\ Counting' /\ Working' /\ Agreed' /\ RequestOfOneProvider'
    BY <1>0, <2>1, OnlyFile
  <2>3. Saved'
    BY <1>0, <2>1, <2>2 DEF Saved, Idle
  <2> QED
    BY <2>2, <2>3 DEF SettingsInv
<1>3. CASE SaveWrite
  <2>1. /\ saving = "write" /\ snapshot' = Empty /\ saving' = "no"
        /\ UNCHANGED <<tree, presets, llm, at, work, page, request, attempt, shutdown, changes,
                       crashes, chosen, kept, stale>>
        /\ \/ file' = snapshot /\ unsaved' = FALSE
           \/ unsaved' = TRUE /\ UNCHANGED file
    BY <1>3 DEF SaveWrite, agent, bounds
  <2>2. Now' = Now /\ Texted' /\ Counting' /\ Working' /\ Agreed' /\ RequestOfOneProvider'
    BY <1>0, <2>1, OnlyFile
  <2>3. ~unsaved' => Found'
    <3>1. snapshot = Now
      BY <1>0, <2>1 DEF Saved
    <3>2. Parse(Now) = Now \/ TooLong(Now)
      BY <1>0, TextFields
    <3>3. ASSUME ~unsaved' PROVE file' = Now'
      BY <2>1, <2>2, <3>1, <3>3
    <3> QED
      BY <2>2, <3>2, <3>3 DEF Found, Parse, TooLong
  <2>4. Saved'
    BY <2>1, <2>3 DEF Saved
  <2> QED
    BY <2>2, <2>4 DEF SettingsInv
<1> QED
  BY <1>1, <1>2, <1>3 DEF Saver

LEMMA LastInv == SettingsInv /\ LastSave => SettingsInv'
<1> SUFFICES ASSUME SettingsInv, LastSave PROVE SettingsInv'
  OBVIOUS
<1>0. Texted /\ Counting /\ Working /\ Agreed /\ RequestOfOneProvider
  BY DEF SettingsInv
<1>1. /\ saving' = "text" /\ shutdown' = "saving"
      /\ UNCHANGED <<tree, presets, file, snapshot, llm, at, work, page, request, attempt, changes,
                     crashes, chosen, unsaved, kept, stale>>
  BY DEF LastSave, stored, agent, history
<1>2. Texted' /\ Counting'
  BY <1>0, <1>1 DEF Texted, Now, Counting
<1>3. Working' /\ Agreed'
  BY <1>0, <1>1 DEF Working, Agreed, ToProvider, ToModel
<1>4. Saved'
  BY <1>1 DEF Saved, Idle
<1>5. RequestOfOneProvider'
  BY <1>0, <1>1, SameRequest
<1> QED
  BY <1>2, <1>3, <1>4, <1>5 DEF SettingsInv
-----------------------------------------------------------------------------
(* The agent and main leave the settings alone. *)
LEMMA SettingsAlone ==
  ASSUME SettingsInv,
         UNCHANGED <<tree, presets, file, snapshot, llm, at, saving, work, page, changes, crashes,
                     chosen, unsaved, kept, stale>>,
         attempt' \in 0..MaxAttempts, shutdown' \in {"no", "asked", "saving"},
         RequestOfOneProvider'
  PROVE  SettingsInv'
<1>0. Texted /\ Counting /\ Working /\ Agreed /\ Saved
  BY DEF SettingsInv
<1>1. Texted' /\ Counting'
  BY <1>0 DEF Texted, Now, Counting
<1>2. Working' /\ Agreed'
  BY <1>0 DEF Working, Agreed, ToProvider, ToModel
<1>3. Saved'
  BY <1>0 DEF Saved, Idle, Found, Now
<1> QED
  BY <1>1, <1>2, <1>3 DEF SettingsInv

LEMMA AskInv == SettingsInv /\ Ask => SettingsInv'
<1> SUFFICES ASSUME SettingsInv, Ask PROVE SettingsInv'
  OBVIOUS
<1>0. Counting /\ Working /\ Agreed
  BY DEF SettingsInv
<1>1. /\ request' = Copy(llm, MidChange, kept, chosen) /\ attempt' = 1
      /\ UNCHANGED <<tree, presets, file, snapshot, llm, at, saving, work, page, shutdown, changes,
                     crashes, chosen, unsaved, kept, stale>>
  BY DEF Ask, stored, server, bounds, history
<1>2. ~MidChange => chosen = Pair(llm)
  <2>1. ~MidChange => ~ToProvider /\ ~ToModel
    BY DEF MidChange, ToProvider, ToModel
  <2> QED
    BY <1>0, <2>1 DEF Agreed, Pair
<1>3. llm.url.of = llm.provider /\ (~kept => llm.key.of = llm.provider)
  BY <1>0 DEF Agreed
<1>4. /\ request'.settings = llm /\ request'.mid = MidChange /\ request'.kept = kept
      /\ request'.chosen = chosen
  BY <1>1 DEF Copy
<1>5. RequestOfOneProvider'
  BY <1>2, <1>3, <1>4 DEF RequestOfOneProvider, Pair
<1>6. attempt' \in 0..MaxAttempts /\ shutdown' \in {"no", "asked", "saving"}
  BY <1>0, <1>1, ConfigAssumption DEF Counting
<1> QED
  BY <1>1, <1>5, <1>6, SettingsAlone

LEMMA QuietInv == SettingsInv /\ (Answered \/ Retry \/ Shutdown \/ UNCHANGED vars) => SettingsInv'
<1> SUFFICES ASSUME SettingsInv, Answered \/ Retry \/ Shutdown \/ UNCHANGED vars PROVE SettingsInv'
  OBVIOUS
<1>0. /\ Counting /\ RequestOfOneProvider
      /\ attempt \in 0..MaxAttempts /\ shutdown \in {"no", "asked", "saving"}
  BY DEF SettingsInv, Counting
<1>1. /\ UNCHANGED <<tree, presets, file, snapshot, llm, at, saving, work, page, changes, crashes,
                     chosen, unsaved, kept, stale>>
      /\ \/ attempt' = 0 /\ UNCHANGED shutdown
         \/ /\ attempt \in 1..(MaxAttempts - 1) /\ attempt' = attempt + 1
            /\ UNCHANGED <<request, shutdown>>
         \/ shutdown' = "asked" /\ UNCHANGED <<request, attempt>>
         \/ UNCHANGED <<request, attempt, shutdown>>
  BY DEF Answered, Retry, Shutdown, vars, stored, server, agent, bounds, history
<1>2. attempt' \in 0..MaxAttempts
  BY <1>0, <1>1, ConfigAssumption
<1>3. shutdown' \in {"no", "asked", "saving"}
  BY <1>0, <1>1
<1>4. RequestOfOneProvider'
  <2>1. attempt' > 0 => attempt > 0 /\ request' = request
    BY <1>0, <1>1, ConfigAssumption
  <2> QED
    BY <1>0, <2>1 DEF RequestOfOneProvider
<1> QED
  BY <1>1, <1>2, <1>3, <1>4, SettingsAlone

LEMMA RestartInv == SettingsInv /\ Restart => SettingsInv'
<1> SUFFICES ASSUME SettingsInv, Restart PROVE SettingsInv'
  OBVIOUS
<1>0. Texted /\ Counting
  BY DEF SettingsInv
<1>1. /\ crashes < MaxCrashes /\ crashes' = crashes + 1
      /\ tree' = Parse(file).tree /\ presets' = Parse(file).presets
      /\ llm' = Load(tree') /\ chosen' = Pair(tree')
      /\ at' = "idle" /\ saving' = "no" /\ work' = NoWork /\ snapshot' = Empty
      /\ attempt' = 0 /\ request' = NoRequest
      /\ shutdown' = "no" /\ unsaved' = FALSE /\ kept' = FALSE /\ stale' = {}
      /\ UNCHANGED <<file, page, changes>>
  BY DEF Restart
<1>2. Parse(file) \in Texts /\ (Parse(file) = file \/ Parse(file) = Empty)
  BY <1>0, TextFields DEF Texted
<1>3. Now' = Parse(file)
  BY <1>1, <1>2, TextFields DEF Now
<1>4. tree' \in OwnTree
  BY <1>1, <1>2, TextFields
<1>5. Texted'
  BY <1>0, <1>1, <1>2, <1>3, EmptyText DEF Texted
<1>6. Counting'
  <2>1. crashes' \in 0..MaxCrashes /\ attempt' \in 0..MaxAttempts
    BY <1>0, <1>1, ConfigAssumption DEF Counting
  <2>2. unsaved' \in BOOLEAN /\ kept' \in BOOLEAN
    BY <1>1
  <2> QED
    BY <1>0, <1>1, <2>1, <2>2 DEF Counting
<1>7. Agreed'
  <2>1. ~ToProvider' /\ ~ToModel'
    BY <1>1 DEF ToProvider, ToModel
  <2>2. /\ llm' \in LlmType /\ llm'.provider = tree'.provider /\ llm'.model = tree'.model
        /\ llm'.key = tree'.key[tree'.provider] /\ llm'.url = tree'.url[tree'.provider]
        /\ llm'.url.of = tree'.provider /\ llm'.key.of = tree'.provider
    BY <1>1, <1>4, LoadOwn
  <2> QED
    BY <1>1, <2>1, <2>2 DEF Agreed, Pair
<1>8. Working'
  <2>1. NoWork \in WorkType /\ ~NoWork.preset
    BY Constants DEF NoWork, Work, WorkType
  <2> QED
    BY <1>1, <2>1 DEF Working
<1>9. Saved'
  <2>1. Parse(file)' = Parse(file)
    BY <1>1 DEF Parse, TooLong
  <2> QED
    BY <1>1, <1>3, <2>1 DEF Saved, Found
<1>10. RequestOfOneProvider'
  BY <1>1 DEF RequestOfOneProvider
<1> QED
  BY <1>5, <1>6, <1>7, <1>8, <1>9, <1>10 DEF SettingsInv

LEMMA SettingsStep == SettingsInv /\ [Next]_vars => SettingsInv'
  BY ConfigInv, PresetInv, ListInv, GetInv, ModelInv, ProviderInv, KeyInv, UrlInv, SaveLastInv,
     SaverInv, LastInv, AskInv, QuietInv, RestartInv DEF Next, Page, Handler

LEMMA SettingsAlways == Spec => []SettingsInv
  BY SettingsInit, SettingsStep, PTL DEF Spec
-----------------------------------------------------------------------------
LEMMA ListTyped ==
  ASSUME NEW R, R \subseteq Presets, NEW list \in Short(R) PROVE IsList(list)
  BY ShortList DEF IsList

LEMMA TextTyped == ASSUME NEW text \in Texts PROVE IsText(text)
<1>1. OwnPreset \subseteq Presets /\ OwnTree \subseteq Trees
  BY DEF OwnPreset, OwnTree
<1> QED
  BY <1>1, TextFields, ListTyped DEF IsText

(* The type invariant: of the settings, the list of presets, the file and the
   text on its way to it, whatever the messages, the saves that fail and the
   restarts.                                                                  *)
THEOREM TypeCorrect == Spec => []TypeOK
<1>1. SettingsInv => TypeOK
  <2> SUFFICES ASSUME SettingsInv PROVE TypeOK
    OBVIOUS
  <2>1. IsText(Now) /\ IsText(file) /\ IsText(snapshot)
    BY TextTyped DEF SettingsInv, Texted
  <2>2. SentPreset \subseteq Presets
    BY DEF SentPreset
  <2>3. IsList(page)
    BY <2>2, ListTyped DEF SettingsInv, Texted
  <2>4. Counting /\ Working /\ llm \in LlmType
    BY DEF SettingsInv, Agreed
  <2>5. llm \in [provider : Providers, model : Models,
                 key : [of : Providers, is : AnyKey], url : [of : Providers, is : Urls]]
    BY <2>4 DEF LlmType, KeyFor, UrlFor
  <2> QED
    BY <2>1, <2>3, <2>4, <2>5 DEF TypeOK, Counting, Working, WorkType
<1> QED
  BY <1>1, SettingsAlways, PTL

(* At whatever step of a handler the agent copies the settings, it has the URL
   of its provider and the key, unless the provider had none; and outside the
   steps that set them, the provider and model last named.                     *)
THEOREM RequestsOfOneProvider == Spec => []RequestOfOneProvider
<1>1. SettingsInv => RequestOfOneProvider
  BY DEF SettingsInv
<1> QED
  BY <1>1, SettingsAlways, PTL

(* Between two messages, unless the last save failed, a restart finds the
   configuration, or a file that is too long; and the proxy works with it, but
   for a kept key and what a message without a provider has not told it.      *)
THEOREM SettingsKept == Spec => []SettingsLast
<1>1. SettingsInv => SettingsLast
  <2> SUFFICES ASSUME SettingsInv, Idle PROVE
        /\ ~unsaved => Found
        /\ llm = [Load(tree) EXCEPT !.key = IF kept \/ "key" \in stale THEN llm.key ELSE @,
                                    !.url = IF "url" \in stale THEN llm.url ELSE @]
    BY DEF SettingsLast, Found
  <2>1. Agreed /\ tree \in OwnTree /\ ~ToProvider
    BY Ready
  <2> DEFINE key == IF kept \/ "key" \in stale THEN llm.key ELSE Load(tree).key
             url == IF "url" \in stale THEN llm.url ELSE Load(tree).url
             keyed == [Load(tree) EXCEPT !.key = key]
  <2>2. /\ Load(tree).key = tree.key[llm.provider] /\ Load(tree).url = tree.url[llm.provider]
        /\ Load(tree).provider = llm.provider /\ Load(tree).model = llm.model
        /\ Load(tree) \in LlmType
    BY <2>1, LoadOwn DEF Agreed
  <2>3. key = llm.key /\ url = llm.url
    BY <2>1, <2>2 DEF Agreed
  <2>4. llm \in LlmType
    BY <2>1 DEF Agreed
  <2> HIDE DEF key, url
  <2>5. keyed = [provider |-> llm.provider, model |-> llm.model, key |-> key,
                 url |-> Load(tree).url]
    BY <2>2, LlmFields
  <2> HIDE DEF keyed
  <2>6. [keyed EXCEPT !.url = url] = llm
    BY <2>3, <2>4, <2>5, LlmFields
  <2>7. ~unsaved => Found
    BY DEF SettingsInv, Saved
  <2>8. llm = [Load(tree) EXCEPT !.key = IF kept \/ "key" \in stale THEN llm.key ELSE @,
                                 !.url = IF "url" \in stale THEN llm.url ELSE @]
    BY <2>6 DEF keyed, key, url
  <2> QED
    BY <2>7, <2>8
<1> QED
  BY <1>1, SettingsAlways, PTL

(* Whatever list the page has, however old it is, and whatever it makes of it: a
   preset has the key typed for it, unless it was sent with its mask when the
   program had not exactly one of its name and model, its own.                  *)
THEOREM KeysKept == Spec => []KeysFollowPresets
<1>1. SettingsInv => KeysFollowPresets
  <2> SUFFICES ASSUME SettingsInv, NEW i \in DOMAIN presets
               PROVE  presets[i].lost \/ presets[i].key = presets[i].typed
    BY DEF KeysFollowPresets
  <2>1. presets[i] \in OwnPreset
    BY NowFields, ShortList DEF SettingsInv
  <2> QED
    BY <2>1 DEF OwnPreset
<1> QED
  BY <1>1, SettingsAlways, PTL
=============================================================================
