---------------------------- MODULE ConfigDialog ----------------------------
(***************************************************************************)
(* The form of the transcription parameters (TranscriptionConfigDialog).   *)
(* It is reset when it opens, and again whenever the tracks of what it is  *)
(* opened for change under it; fields of one model family come and go with *)
(* the family and with the switches above them.                            *)
(***************************************************************************)
CONSTANTS Families,     \* model families and diarizers the runs choose from
          Diarizers

VARIABLE config

FamilyNames == {"whisper", "nvidia_parakeet", "nvidia_canary",
                "mistral_voxtral", "openai"}
DiarizerNames == {"pyannote", "nvidia_sortformer"}
ASSUME ConfigAssumption ==
  /\ "whisper" \in Families /\ Families \subseteq FamilyNames
  /\ "pyannote" \in Diarizers /\ Diarizers \subseteq DiarizerNames

\* The parameters the rest depends on.
Params == [family: Families, multi: BOOLEAN, diarize: BOOLEAN,
           diarizer: Diarizers]
DefaultParams == [family |-> "whisper", multi |-> FALSE, diarize |-> FALSE,
                  diarizer |-> "pyannote"]

ConfigType == [params: Params, checking: BOOLEAN,
               verdict: {"idle", "valid", "invalid"}]
ConfigFresh == [params |-> DefaultParams, checking |-> FALSE, verdict |-> "idle"]
ConfigInit == config = ConfigFresh

\* The effect that runs when the form opens or what it is for changes.
ConfigReset(c, base, multi) ==
  [c EXCEPT !.params = [base EXCEPT !.multi = multi,
                                    !.diarize = @ /\ ~multi]]

ConfigClosed(c) == [c EXCEPT !.params = DefaultParams]

\* The fields of each family.  "speech", "advanced" ... are fields nothing
\* else depends on.
DiarizationSection(p) ==
  {"diarize"} \cup IF p.diarize THEN {"diarizer", "speakers"} ELSE {}
WhisperConfig(p, multi) ==
  {"speech", "advanced"} \cup IF multi THEN {} ELSE DiarizationSection(p)
ParakeetConfig(p, multi) ==
  {"context"} \cup IF multi THEN {} ELSE DiarizationSection(p)
CanaryConfig(p, multi) ==
  {"language"} \cup IF multi THEN {} ELSE DiarizationSection(p)
OpenAIConfig == {"key", "model", "language"}
VoxtralConfig == {"language", "tokens"}

ConfigForm(p, multi) ==
  {"family"} \cup
  CASE p.family = "whisper" -> WhisperConfig(p, multi)
    [] p.family = "nvidia_parakeet" -> ParakeetConfig(p, multi)
    [] p.family = "nvidia_canary" -> CanaryConfig(p, multi)
    [] p.family = "openai" -> OpenAIConfig
    [] OTHER -> VoxtralConfig

\* updateParam(): the Whisper family brings its own diarizer.
UpdateParam(p, field) ==
  CASE field = "family" ->
         {[p EXCEPT !.family = f,
                    !.diarizer = IF f = "whisper" THEN "pyannote" ELSE @] :
             f \in Families}
    [] field = "diarize" -> {[p EXCEPT !.diarize = ~@]}
    [] field = "diarizer" -> {[p EXCEPT !.diarizer = d] : d \in Diarizers}
    [] OTHER -> {p}

EditConfig(multi) ==
  \E field \in ConfigForm(config.params, multi) :
    \E p \in UpdateParam(config.params, field) :
      config' = [config EXCEPT !.params = p]

\* The key is tried at the service; the answer may come after the form was
\* closed, opened again or given another key.
ValidateKey ==
  /\ "key" \in ConfigForm(config.params, FALSE) /\ ~config.checking
  /\ config' = [config EXCEPT !.checking = TRUE, !.verdict = "idle"]

KeyAnswered ==
  /\ config.checking
  /\ \E verdict \in {"valid", "invalid"} :
       config' = [config EXCEPT !.checking = FALSE, !.verdict = verdict]
=============================================================================
