--------------------------- MODULE MCConfigUpdate ---------------------------
EXTENDS ConfigUpdate, FiniteSets, TLC

(* Messages as the settings form sends them, with a provider and a model that
   may not belong together, and a key of the provider or a URL of the other one;
   and messages of one field alone, which leave out provider, model or both.    *)
Fields(m) ==
  Cardinality({p \in Providers : m.key[p] # NoKey}) + Cardinality({p \in Providers : m.url[p] # None})
FormMessages ==
  {m \in AllMessages :
     /\ m.provider # None /\ m.model # None
     /\ Fields(m) = 0 \/ (Fields(m) = 1 /\ m.model = "other")
     /\ \A p \in Providers : m.key[p] # NoKey => p = m.provider
     /\ \A p \in Providers : m.url[p] # None => p # m.provider /\ m.url[p] = "other"}
FieldMessages ==
  {m \in AllMessages :
     /\ \/ Fields(m) = 0 /\ (m.provider = None) # (m.model = None)
        \/ Fields(m) = 1 /\ m.provider = None /\ m.model = None
     /\ m.key["anthropic"] = NoKey /\ m.url["anthropic"] = None /\ m.url["openai"] # "default"}
SmallMessages == FormMessages \cup FieldMessages

(* No name of a preset is special, and no key. *)
Symmetry == Permutations(Names) \cup Permutations(Keys)
=============================================================================
