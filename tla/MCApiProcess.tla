---------------------------- MODULE MCApiProcess ----------------------------
(* Deployments that differ in one respect from a plain one, and three        *)
(* requests from two clients, one behind a proxy, with keys of two tenants.  *)
EXTENDS ApiProcess, TLC

CONSTANTS ann, bob, client, gateway, s1, s2, s3

Plain ==
    [env |-> "staging", backend |-> "redis", postgresUrl |-> FALSE, redisUrl |-> TRUE,
     saverPackage |-> TRUE, provider |-> "openai", llmPackage |-> TRUE,
     credentials |-> "complete", apiKey |-> {ann}, apiKeys |-> {ann, bob},
     connector |-> "off", pack |-> TRUE]

MCConfigs ==
    {[Plain EXCEPT !.env = e, !.saverPackage = p] : e \in Environments, p \in BOOLEAN}
    \cup {[Plain EXCEPT !.env = e, !.saverPackage = FALSE, !.credentials = "none"] :
            e \in {"development", "production"}}
    \cup {[Plain EXCEPT !.env = "production", !.apiKey = k, !.apiKeys = {}] : k \in {{}, {ann}}}
    \cup {[Plain EXCEPT !.backend = "sqlite", !.apiKey = {}, !.apiKeys = {}, !.provider = p] :
            p \in {"mock", "other"}}
    \cup {[Plain EXCEPT !.backend = "postgres", !.postgresUrl = u, !.provider = "bedrock",
                        !.credentials = "partial"] : u \in BOOLEAN}
    \cup {[Plain EXCEPT !.redisUrl = FALSE], [Plain EXCEPT !.pack = FALSE],
          [Plain EXCEPT !.provider = "ollama", !.llmPackage = FALSE]}
    \cup {[Plain EXCEPT !.connector = c] : c \in Connectors \ {"on"}}

Run == [path |-> "/run", scheme |-> "Bearer", token |-> ann, peer |-> gateway,
        xff |-> client, forwarded |-> None, declared |-> {1}, garbled |-> FALSE,
        length |-> 1, text |-> "plain"]

MCShapes ==
    {Run,
     [Run EXCEPT !.token = bob, !.declared = {}, !.xff = None, !.forwarded = client],
     [Run EXCEPT !.token = None, !.xff = None],
     [Run EXCEPT !.scheme = "bearer", !.text = "long"],
     [Run EXCEPT !.scheme = "none", !.peer = client, !.text = "blank"],
     [Run EXCEPT !.declared = {2}, !.length = 2],
     [Run EXCEPT !.path = "/packs"],
     [Run EXCEPT !.path = "/packs", !.text = "binary"],
     [Run EXCEPT !.path = "/packs", !.text = "malformed"],
     [Run EXCEPT !.path = "/docs"],
     [Run EXCEPT !.path = "/health"],
     [Run EXCEPT !.path = "/ready"]}

SlotSymmetry == Permutations(Slots)
=============================================================================
