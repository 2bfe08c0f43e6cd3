---------------------------- MODULE ModelRouting ----------------------------
(***************************************************************************)
(* Which provider and model a batch is sent to: resolve_model in           *)
(* app/services/routing.py.  The catalogue of the module is the constant   *)
(* Catalogue, the cost rank of each model of each provider it lists.       *)
(*                                                                         *)
(* A text a client or a setting gives is a name, Absent, Empty or Blank;   *)
(* a name stands for its spellings with blanks around it, and the name of  *)
(* a tier also for its spellings in capitals.                              *)
(***************************************************************************)
EXTENDS Integers

CONSTANTS
    Text,         \* the texts of clients, settings and the catalogue
    Catalogue,    \* provider -> model -> rank: MODEL_CATALOG
    ByName,       \* the place of a model among all in the order of their names
    ByEntry       \* its place in the order in which the module lists them

Absent == "(absent)"
Empty  == "(empty)"
Blank  == "(blank)"

ASSUME TextAssumption ==
    {Absent, Empty, Blank, "mock", "economy", "openai-gpt-oss-20b"} \subseteq Text

Listed(provider) ==
    IF provider \in DOMAIN Catalogue THEN DOMAIN Catalogue[provider] ELSE {}
Rank(provider, model) == Catalogue[provider][model]

ASSUME RanksAssumption ==
    \A p \in DOMAIN Catalogue : \A m \in DOMAIN Catalogue[p] :
        m \in Text /\ Catalogue[p][m] \in Nat
ASSUME OrderAssumption ==
    \A p \in DOMAIN Catalogue : \A m \in DOMAIN Catalogue[p] :
        ByName[m] \in Nat /\ ByEntry[m] \in Nat

Given(text)      == text \notin {Absent, Empty}
Strip(text)      == IF text = Blank THEN Empty ELSE text
OrElse(text, or) == IF Given(text) THEN text ELSE or

(* COST_TIER_MAX_RANK.                                                     *)
MaxRank == [economy |-> 2, standard |-> 5, premium |-> 99]
Tier    == DOMAIN MaxRank

TierOf(asked, settings) ==
    LET pref == Strip(OrElse(asked, OrElse(settings.cost_preference, "economy")))
    IN  IF pref \in Tier THEN pref ELSE "economy"

ProviderOf(asked, settings) ==
    Strip(OrElse(asked, OrElse(settings.provider, "mock")))

(* The configured model is refused only if it is listed and too expensive. *)
(* A mutant: whatever the tier.                                            *)
FitsAny(provider, model, cap) == TRUE
Fits(provider, model, cap) ==
    model \notin Listed(provider) \/ Rank(provider, model) <= cap

Eligible(provider, cap) == {m \in Listed(provider) : Rank(provider, m) <= cap}

(* The least of some models by rank, then by the given order.              *)
Cheapest(provider, models, order) ==
    CHOOSE m \in models : \A n \in models :
        \/ Rank(provider, m) < Rank(provider, n)
        \/ Rank(provider, m) = Rank(provider, n) /\ order[m] <= order[n]

(* A blank model is none, except where it is the last resort.              *)
Named(text) == Given(text) /\ text # Blank

ModelOf(asked, provider, cap, settings) ==
    IF Named(asked) THEN asked
    ELSE IF Named(settings.model) /\ Fits(provider, settings.model, cap)
         THEN settings.model
    ELSE IF Eligible(provider, cap) # {}
         THEN Cheapest(provider, Eligible(provider, cap), ByName)
    ELSE IF Listed(provider) # {}
         THEN Cheapest(provider, Listed(provider), ByEntry)
    ELSE OrElse(settings.model, "openai-gpt-oss-20b")

Cap(asked, settings) == MaxRank[TierOf(asked.cost_preference, settings)]

ResolveModel(asked, settings) ==
    LET provider == ProviderOf(asked.provider, settings)
    IN  [provider |-> provider,
         model    |-> ModelOf(asked.model, provider, Cap(asked, settings), settings)]
============================================================================
