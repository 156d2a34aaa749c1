----------------------------- MODULE ApiStartup -----------------------------
(***************************************************************************)
(* Startup and shutdown of an API process: the settings, the lifespan and  *)
(* the resources it opens, above all the LangGraph checkpointer in which   *)
(* the conversations are kept.                                             *)
(***************************************************************************)
EXTENDS Naturals, FiniteSets

CONSTANTS
    Configs,   \* environments the process may be started in, see ConfigType
    Keys       \* Bearer secrets

Environments == {"development", "staging", "production"}
\* "broken_settings": CONNECTOR_ID unknown, no URL for http, RAG disabled for
\* rag; "no_credentials": SharePoint or Drive without its credentials.
Connectors == {"off", "on", "broken_settings", "no_credentials"}
\* The Literal LLMProvider; "other" is what it does not list.
Providers == {"anthropic", "openai", "google", "bedrock", "azure", "ollama", "mock", "other"}
ConfigType ==
    [env : Environments,
     backend : {"sqlite", "redis", "postgres"},  \* MEMORY_BACKEND
     postgresUrl : BOOLEAN,     \* POSTGRES_URL is set
     redisUrl : BOOLEAN,        \* REDIS_URL has a known scheme
     saverPackage : BOOLEAN,    \* the langgraph-checkpoint package is installed
     provider : Providers,      \* LLM_PROVIDER
     llmPackage : BOOLEAN,      \* its langchain package is installed
     credentials : {"complete", "partial", "none"},  \* API key, endpoint, AWS keys
     apiKey : SUBSET Keys,      \* API_KEY, at most one
     apiKeys : SUBSET Keys,     \* API_KEYS
     connector : Connectors,
     pack : BOOLEAN]            \* DEFAULT_PACK_ID is registered

ASSUME ConfigAssumption == Configs \subseteq ConfigType

VARIABLES
    config,      \* the environment of this process
    phase,       \* progress of the process, see Phases
    llm,         \* state.shared_llm is set
    saver,       \* state.shared_checkpointer, see Savers
    open,        \* context managers of savers that are entered and not exited
    registered   \* _active_async_checkpointer_cm and _active_checkpointer_cm

startupVars == <<config, phase, llm, saver, open, registered>>

\* "setup": the saver is connected and creates its tables; "blocked":
\* executor.shutdown(wait=True); "cleanup": the saver is being closed.
Phases == {"settings", "stores", "llm", "saver", "setup", "packs", "history", "live",
           "blocked", "cleanup", "closed", "failed"}
Savers == {"none", "MemorySaver", "durable"}

StartupInit ==
    /\ config \in Configs
    /\ phase = "settings"
    /\ llm = FALSE
    /\ saver = "none"
    /\ open = {}
    /\ registered = {}
-----------------------------------------------------------------------------
(* Plausible bugs, used to show that the properties are sensitive to them.  *)

\* Staging falls back like development.
FallbackInStaging == config.env # "production"

\* The keys are not required.
KeysOptional ==
    /\ config.redisUrl /\ config.provider # "other"
    /\ config.backend = "postgres" => config.postgresUrl
    /\ config.connector # "broken_settings"
-----------------------------------------------------------------------------
resolved_api_keys == config.apiKey \cup config.apiKeys

\* The validator of REDIS_URL, which has a default.
redis_url_scheme == config.redisUrl

\* Settings(): the validators of the fields and of the model.
ValidSettings ==
    /\ redis_url_scheme
    /\ config.provider # "other"
    /\ config.backend = "postgres" => config.postgresUrl
    /\ config.env = "production" => resolved_api_keys # {}
    /\ config.connector # "broken_settings"

\* app.py loads the settings when it is imported.
get_settings ==
    /\ phase = "settings"
    /\ phase' = IF ValidSettings THEN "stores" ELSE "failed"
    /\ UNCHANGED <<config, llm, saver, open, registered>>

\* Rate limiter, session registry, review store and thread pool; the lifespan
\* repeats the check of the URLs.
OpenStores ==
    /\ phase = "stores"
    /\ phase' = IF config.backend = "postgres" => config.postgresUrl
                THEN "llm" ELSE "failed"
    /\ UNCHANGED <<config, llm, saver, open, registered>>

\* _bedrock_chat_kwargs: both static AWS keys, or neither.
BedrockKeys == config.credentials # "partial"

\* get_llm returns a model: the package of the provider and its credentials are
\* there.  Everything else is an ImportError or a ValueError.
get_llm ==
    CASE config.provider = "mock" -> TRUE
      [] config.provider = "ollama" -> config.llmPackage
      [] config.provider = "bedrock" -> config.llmPackage /\ BedrockKeys
      [] OTHER -> config.llmPackage /\ config.credentials = "complete"

\* The except clause of _init_llm_and_checkpointer: both are given up.
GiveUpBoth ==
    /\ llm' = FALSE
    /\ saver' = "none"
    /\ phase' = "packs"

InitLlm ==
    /\ phase = "llm"
    /\ IF get_llm THEN llm' = TRUE /\ phase' = "saver" /\ UNCHANGED saver ELSE GiveUpBoth
    /\ UNCHANGED <<config, open, registered>>

\* _fallback_or_raise: MemorySaver, or a RuntimeError.
FallbackAllowed == config.env = "development"

\* What has to be there before a saver of the backend is entered.
InitSqlite == config.saverPackage
InitRedis == config.saverPackage
InitPostgres == config.postgresUrl /\ config.saverPackage

SaverInstalled ==
    CASE config.backend = "sqlite" -> InitSqlite
      [] config.backend = "redis" -> InitRedis
      [] config.backend = "postgres" -> InitPostgres

\* init_checkpointer without a saver.
FallBack ==
    /\ phase = "saver" /\ ~SaverInstalled
    /\ \/ FallbackAllowed /\ saver' = "MemorySaver" /\ phase' = "packs"
       \/ ~FallbackAllowed /\ phase' = "failed" /\ UNCHANGED saver
    /\ UNCHANGED <<config, llm, open, registered>>

\* init_checkpointer as far as __aenter__.  The errors of a backend that does
\* not answer end the startup; a ValueError, say of a bad URL, is caught.
init_checkpointer ==
    /\ phase = "saver" /\ SaverInstalled
    /\ \/ open' = open \cup {"shared"} /\ phase' = "setup" /\ UNCHANGED <<llm, saver>>
       \/ GiveUpBoth /\ UNCHANGED open
       \/ phase' = "failed" /\ UNCHANGED <<llm, saver, open>>
    /\ UNCHANGED <<config, registered>>

\* _enter_async_checkpointer_cm from setup() on; only a saver whose setup
\* succeeded is registered for cleanup.
SetupSaver ==
    /\ phase = "setup"
    /\ \/ saver' = "durable" /\ registered' = {"shared"} /\ phase' = "packs" /\ UNCHANGED llm
       \/ GiveUpBoth /\ UNCHANGED registered
       \/ phase' = "failed" /\ UNCHANGED <<llm, saver, registered>>
    /\ UNCHANGED <<config, open>>

\* create_connector of a connector that passed the settings.
resolve_connector == config.connector # "no_credentials"

\* The default pack, the plugins, the connector and the pack routers.
ResolvePacks ==
    /\ phase = "packs"
    /\ phase' = IF config.pack /\ resolve_connector THEN "history" ELSE "failed"
    /\ UNCHANGED <<config, llm, saver, open, registered>>

\* create_run_history, then the drain flag is cleared and requests are served.
GoLive ==
    /\ phase = "history"
    /\ phase' = "live"
    /\ UNCHANGED <<config, llm, saver, open, registered>>
-----------------------------------------------------------------------------
\* The drain flag is set and executor.shutdown blocks the loop.
BeginShutdown ==
    /\ phase = "live"
    /\ phase' = "blocked"
    /\ UNCHANGED <<config, llm, saver, open, registered>>

PoolDrained ==
    /\ phase = "blocked"
    /\ phase' = "cleanup"
    /\ UNCHANGED <<config, llm, saver, open, registered>>

\* cleanup_checkpointer exits the saver that a run registered last.
cleanup_checkpointer(remaining) == remaining \ registered

\* cleanup_checkpointer_async exits the shared one first; then the stores.
Cleanup ==
    /\ phase = "cleanup"
    /\ phase' = "closed"
    /\ open' = cleanup_checkpointer(open \ (registered \cap {"shared"}))
    /\ registered' = {}
    /\ UNCHANGED <<config, llm, saver>>

StartupNext ==
    \/ get_settings \/ OpenStores \/ InitLlm \/ FallBack \/ init_checkpointer \/ SetupSaver
    \/ ResolvePacks \/ GoLive \/ BeginShutdown \/ PoolDrained \/ Cleanup
=============================================================================
