------------------------------ MODULE Providers ------------------------------
(* Which providers and models there are, from the catalogue, the             *)
(* configuration, the environment and the loaders of single providers, and   *)
(* how concurrent calls get the language of a model through two caches       *)
(* (provider/provider.ts).  Options are functions from names to values; a    *)
(* model is its api id, package, headers and status.                         *)
EXTENDS Integers

CONSTANTS
  Catalogue,     \* provider -> [vars, url, models: model -> [api, npm, headers, alpha]]
  Settings,      \* configurations: [disabled, enabled, experimental, given: provider ->
                 \*   [options, black, only, models: model -> [from, headers]]]; without
                 \*   a list, enabled and only hold all there is
  Environments,  \* sets of variables that are set
  Loaders,       \* provider -> [autoload, options, getModel]
  Bundled,       \* packages that need no installing
  ModelCallers

VARIABLES
  settings,      \* the configuration
  registry,      \* the providers, worked out once
  sdks,          \* cache: key -> sdk
  languages,     \* cache: provider and model -> language
  modelCall      \* each caller: where it is, its model, sdk and language

providerVars == <<settings, registry, sdks, languages, modelCall>>

None == [k \in {} |-> "none"]
Known(f, k) == k \in DOMAIN f
Entry(k, v) == [x \in {k} |-> v]
\* What one function says, and what another says of the rest.
Over(f, g) == [k \in DOMAIN f \cup DOMAIN g |-> IF Known(f, k) THEN f[k] ELSE g[k]]
Only(f, keys) == [k \in DOMAIN f \cap keys |-> f[k]]

-----------------------------------------------------------------------------
(* The registry *)

isProviderAllowed(c, p) == p \in c.enabled \ c.disabled

fromModelsDevProvider(p) ==
  [vars |-> Catalogue[p].vars, url |-> Catalogue[p].url, options |-> None, key |-> "none",
   models |-> Catalogue[p].models]

\* A model of the configuration, over the one of the catalogue it is made from.
ParsedModel(models, id, given) ==
  LET from == IF given.from = "itself" THEN id ELSE given.from
      old == IF Known(models, from) THEN models[from]
             ELSE [api |-> from, npm |-> "openai-compatible", headers |-> None, alpha |-> FALSE]
  IN [old EXCEPT !.api = IF given.from = "itself" THEN @ ELSE from, !.headers = Over(given.headers, @)]

\* The catalogue, extended by the providers and models of the configuration.
Database(c) ==
  LET catalogue == [p \in DOMAIN Catalogue |-> fromModelsDevProvider(p)]
      base(p) == IF Known(catalogue, p) THEN catalogue[p]
                 ELSE [vars |-> {}, url |-> "none", options |-> None, key |-> "none", models |-> None]
      parsed(p) == [m \in DOMAIN c.given[p].models |-> ParsedModel(base(p).models, m, c.given[p].models[m])]
  IN Over([p \in DOMAIN c.given |-> [base(p) EXCEPT !.options = Over(c.given[p].options, @),
                                                    !.models = Over(parsed(p), @)]],
          catalogue)

\* A provider that is there already is extended, one of the database added.
mergeProvider(providers, database, p, key, options) ==
  LET old == IF Known(providers, p) THEN providers[p] ELSE database[p] IN
  [old EXCEPT !.options = Over(options, @), !.key = IF key = "none" THEN @ ELSE key]

\* The key is known when the provider has one variable only.
LoadEnv(c, database, env) ==
  [p \in {q \in DOMAIN database \ c.disabled : database[q].vars \cap env # {}} |->
     [database[p] EXCEPT !.key = IF \E v \in env : database[p].vars = {v}
                                 THEN CHOOSE v \in env : database[p].vars = {v} ELSE "none"]]
CustomLoader(providers, c, p) ==
  /\ p \notin c.disabled /\ Known(Loaders, p)
  /\ Loaders[p].autoload \/ Known(providers, p)
LoadCustom(c, database, providers) ==
  Over([p \in {q \in DOMAIN database : CustomLoader(providers, c, q)} |->
          mergeProvider(providers, database, p, "none", Loaders[p].options)],
       providers)
LoadConfig(c, database, providers) ==
  Over([p \in DOMAIN c.given |-> mergeProvider(providers, database, p, "none", c.given[p].options)],
       providers)

\* The models that remain, and the providers that have some.
Kept(c, p, models) ==
  Only(models, {m \in DOMAIN models :
    /\ ~models[m].alpha \/ c.experimental
    /\ Known(c.given, p) => m \in c.given[p].only \ c.given[p].black})
Filtered(c, providers) ==
  LET left == [p \in {q \in DOMAIN providers : isProviderAllowed(c, q)} |->
                 [providers[p] EXCEPT !.models = Kept(c, p, @)]]
  IN Only(left, {p \in DOMAIN left : DOMAIN left[p].models # {}})

state(c, env) ==
  LET database == Database(c) IN
  Filtered(c, LoadConfig(c, database, LoadCustom(c, database, LoadEnv(c, database, env))))

-----------------------------------------------------------------------------
(* Calls *)

NoCall == [at |-> "idle", model |-> <<>>, sdk |-> None, language |-> None]
ProvidersInit ==
  /\ settings \in Settings
  /\ \E env \in Environments : registry = state(settings, env)
  /\ sdks = None /\ languages = None
  /\ modelCall = [c \in ModelCallers |-> NoCall]

Info(model) == registry[model[1]].models[model[2]]

\* A model that is asked for by name, or the default one: that of the
\* configuration, unchecked, or one of the first provider that is configured.
getModel(c, p, m) ==
  /\ modelCall[c].at = "idle"
  /\ modelCall' = [modelCall EXCEPT ![c] =
       [NoCall EXCEPT !.at = IF Known(registry, p) /\ Known(registry[p].models, m) THEN "language" ELSE "failed",
                      !.model = <<p, m>>]]
  /\ UNCHANGED <<settings, registry, sdks, languages>>
defaultModel(c) ==
  \E p \in DOMAIN registry :
    /\ DOMAIN settings.given # {} => Known(settings.given, p)
    /\ \E m \in DOMAIN registry[p].models : getModel(c, p, m)

\* The options of an sdk: those of the provider, where to find it, the key,
\* and the headers of the model over the provider's.
Options(model) ==
  LET provider == registry[model[1]]
      Set(name, value) == IF value = "none" \/ Known(provider.options, name) THEN None ELSE Entry(name, value)
  IN Over(Set("baseURL", provider.url),
          Over(Set("apiKey", provider.key), Over(Info(model).headers, provider.options)))

\* Mutant: the models of a provider share its sdk.
SdkKeyOfProvider(model) == model[1]

SdkKey(model) == <<Info(model).npm, Options(model)>>
Sdk(model) == [name |-> model[1], npm |-> Info(model).npm, options |-> Options(model)]

\* A language that is known is answered at once; otherwise the sdk is taken
\* from its cache, made, or installed first.
getLanguage(c) ==
  LET model == modelCall[c].model
      Continue(at, sdk) == modelCall' = [modelCall EXCEPT ![c].at = at, ![c].sdk = sdk]
  IN /\ modelCall[c].at = "language"
     /\ \/ /\ Known(languages, model)
           /\ modelCall' = [modelCall EXCEPT ![c].at = "done", ![c].language = languages[model]]
           /\ UNCHANGED sdks
        \/ /\ ~Known(languages, model) /\ Known(sdks, SdkKey(model))
           /\ Continue("loading", sdks[SdkKey(model)]) /\ UNCHANGED sdks
        \/ /\ ~Known(languages, model) /\ ~Known(sdks, SdkKey(model)) /\ Info(model).npm \in Bundled
           /\ sdks' = Over(Entry(SdkKey(model), Sdk(model)), sdks) /\ Continue("loading", Sdk(model))
        \/ /\ ~Known(languages, model) /\ ~Known(sdks, SdkKey(model)) /\ Info(model).npm \notin Bundled
           /\ Continue("installing", None) /\ UNCHANGED sdks
     /\ UNCHANGED <<settings, registry, languages>>

\* Another caller may have installed it, too: the later sdk replaces the other.
getSDK(c) ==
  LET model == modelCall[c].model IN
  /\ modelCall[c].at = "installing"
  /\ \/ /\ sdks' = Over(Entry(SdkKey(model), Sdk(model)), sdks)
        /\ modelCall' = [modelCall EXCEPT ![c].at = "loading", ![c].sdk = Sdk(model)]
     \/ modelCall' = [modelCall EXCEPT ![c].at = "failed"] /\ UNCHANGED sdks
  /\ UNCHANGED <<settings, registry, languages>>

\* The provider's own loader, or the sdk, makes the language; it may not know
\* the model.
Language(model, sdk) ==
  [sdk |-> sdk, api |-> Info(model).api,
   loader |-> Known(Loaders, model[1]) /\ Loaders[model[1]].getModel]
LanguageLoaded(c) ==
  LET language == Language(modelCall[c].model, modelCall[c].sdk) IN
  /\ modelCall[c].at = "loading"
  /\ \/ /\ languages' = Over(Entry(modelCall[c].model, language), languages)
        /\ modelCall' = [modelCall EXCEPT ![c].at = "done", ![c].language = language]
     \/ modelCall' = [modelCall EXCEPT ![c].at = "failed"] /\ UNCHANGED languages
  /\ UNCHANGED <<settings, registry, sdks>>
Answered(c) ==
  /\ modelCall[c].at \in {"done", "failed"}
  /\ modelCall' = [modelCall EXCEPT ![c] = NoCall]
  /\ UNCHANGED <<settings, registry, sdks, languages>>

\* Models that may be asked for by name, those that were hidden among them.
Named(p) ==
  (IF Known(Catalogue, p) THEN DOMAIN Catalogue[p].models ELSE {})
    \cup IF Known(registry, p) THEN DOMAIN registry[p].models ELSE {}

ProvidersNext ==
  \E c \in ModelCallers :
    \/ \E p \in DOMAIN Catalogue \cup DOMAIN registry : \E m \in Named(p) : getModel(c, p, m)
    \/ defaultModel(c) \/ getLanguage(c) \/ getSDK(c) \/ LanguageLoaded(c) \/ Answered(c)

-----------------------------------------------------------------------------
\* The language a call gets reaches its own model, as it is configured now,
\* whichever models were asked for before or meanwhile: the right api id and
\* package, the address, key and headers of its provider and model.  The
\* provider is one that is allowed and has a reason to be there, and the
\* model one that is not hidden.
LanguagesAreTheirOwn ==
  \A c \in ModelCallers : modelCall[c].at = "done" =>
    LET p == modelCall[c].model[1]
        m == modelCall[c].model[2]
        language == modelCall[c].language
    IN /\ isProviderAllowed(settings, p)
       /\ Known(settings.given, p) => m \notin settings.given[p].black
       /\ Known(Catalogue, p) \/ Known(settings.given, p)
       /\ language.api = Info(<<p, m>>).api /\ language.sdk.npm = Info(<<p, m>>).npm
       /\ language.sdk.options = Options(<<p, m>>)
=============================================================================
