------------------------------- MODULE LlmForm -------------------------------
(***************************************************************************)
(* The form of the language model (LLMSettings) and the configuration the  *)
(* service keeps for it.  The fields are not locked while a save is under  *)
(* way, and every answer of the service overwrites them.                   *)
(***************************************************************************)
EXTENDS Naturals, FiniteSets

VARIABLES
  llm,        \* what the service keeps: the provider and whether it has a key
  llmform,    \* config, baseUrl, apiKey; asked and read: requests for llm
  llmsaves    \* saves under way; here: the form is still the one it began in

Providers == {"ollama", "openai"}
NoConfig == [provider |-> "none", key |-> FALSE]
Configs == [provider: Providers, key: BOOLEAN]

\* config.has_api_key, the fields, and what is under way.
LlmFormFresh == [provider |-> "ollama", hasKey |-> FALSE, url |-> FALSE, key |-> FALSE,
                 loading |-> TRUE, saving |-> FALSE,
                 asked |-> TRUE, read |-> {}]

LlmType ==
  /\ llm \in Configs \cup {NoConfig}
  /\ llmform \in [provider: Providers, hasKey: BOOLEAN, url: BOOLEAN, key: BOOLEAN,
                  loading: BOOLEAN, saving: BOOLEAN,
                  asked: BOOLEAN, read: SUBSET (Configs \cup {NoConfig})]
  /\ llmsaves \subseteq [provider: Providers, key: BOOLEAN, here: BOOLEAN]

LlmInit == llm = NoConfig /\ llmform = LlmFormFresh /\ llmsaves = {}

\* fetchConfig(), at the start and whenever the token is renewed.
LlmTokenRenewed(f) == [f EXCEPT !.asked = TRUE]
LlmRead ==
  /\ llmform.asked
  /\ llmform' = [llmform EXCEPT !.asked = FALSE, !.read = @ \cup {llm}]
  /\ UNCHANGED <<llm, llmsaves>>

\* A 404 leaves the form as it is.
Loaded(f, c) ==
  [f EXCEPT !.provider = IF c = NoConfig THEN @ ELSE c.provider,
            !.hasKey = IF c = NoConfig THEN @ ELSE c.key,
            !.url = IF c = NoConfig THEN @ ELSE c.provider = "ollama",
            !.loading = FALSE, !.read = @ \ {c}]
LlmArrives ==
  /\ \E c \in llmform.read :
       llmform' \in {Loaded(llmform, c),
                     [llmform EXCEPT !.loading = FALSE, !.read = @ \ {c}]}
  /\ UNCHANGED <<llm, llmsaves>>

EditLlm ==
  /\ ~llmform.loading
  /\ \E provider \in Providers, url \in BOOLEAN, key \in BOOLEAN :
       llmform' = [llmform EXCEPT !.provider = provider,
                     !.url = IF provider = "ollama" THEN url ELSE @,
                     !.key = IF provider = "openai" THEN key ELSE @]
  /\ UNCHANGED <<llm, llmsaves>>

\* isFormValid() and handleSave().
LlmValid(f) == IF f.provider = "ollama" THEN f.url ELSE f.key \/ f.hasKey

SaveLlm ==
  /\ ~llmform.loading /\ ~llmform.saving /\ LlmValid(llmform)
  /\ llmform' = [llmform EXCEPT !.saving = TRUE]
  /\ llmsaves' = llmsaves \cup
       {[provider |-> llmform.provider, here |-> TRUE,
         key |-> llmform.provider = "openai" /\ llmform.key]}
  /\ UNCHANGED llm

\* SaveLLMConfig(): a new key, or the one there is; any other provider
\* forgets it.
LlmAccepts(s) == s.provider = "ollama" \/ s.key \/ llm.key
Kept(s) == [provider |-> s.provider, key |-> s.provider = "openai"]

LlmSaved(s, ok) ==
  /\ s \in llmsaves /\ llmsaves' = llmsaves \ {s}
  /\ ok => LlmAccepts(s)
  /\ llm' \in IF ok THEN {Kept(s)} ELSE {llm} \cup IF LlmAccepts(s) THEN {Kept(s)} ELSE {}
  /\ llmform' =
       IF ~s.here THEN llmform
       ELSE IF ~ok THEN [llmform EXCEPT !.saving = FALSE]
       ELSE [llmform EXCEPT !.saving = FALSE,
               !.provider = s.provider, !.hasKey = s.provider = "openai",
               !.key = @ /\ s.provider # "openai"]

LlmStep == LlmRead \/ LlmArrives \/ EditLlm \/ SaveLlm
=============================================================================
