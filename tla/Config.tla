------------------------------- MODULE Config -------------------------------
(***************************************************************************)
(* The configuration (config.rs): the user's layer over the built-in       *)
(* defaults, the project's layer over both.                                *)
(***************************************************************************)
EXTENDS ForkFile

DurationKeys == {"default_idle_deadline", "session_timeout", "quiet_period", "wake_debounce"}
TagKeys == {"enable_tags", "disable_tags"}

GlobalOnly == {"quiet_period"}

\* A layer that sets nothing.  A value is Num, Text or Unset, or a list for the
\* tags; `other` holds the keys of older versions, warned about and ignored.
BlankLayer ==
    [toml |-> TRUE, default_idle_deadline |-> Unset, session_timeout |-> Unset,
     quiet_period |-> Unset, wake_debounce |-> Unset, enable_tags |-> Unset,
     disable_tags |-> Unset, tag_throttles |-> <<>>, other |-> {}]

DefaultConfig ==
    [default_idle_deadline |-> 600, session_timeout |-> 12 * 3600, quiet_period |-> 20 * 60,
     wake_debounce |-> 5, enable_tags |-> None, disable_tags |-> None, tag_throttles |-> <<>>]

\* parse_toml_duration.
ParseTomlDuration(v) == ParseDurationYaml(v)

\* load_layer: TOML, with the typed keys of their type, or the layer is ignored.
LoadLayer(raw) ==
    IF raw.toml /\ \A key \in TagKeys : raw[key].k \in {"unset", "list"} THEN raw ELSE BlankLayer

\* Mutant of ApplyLayer: a value that is not understood resets the key.
ApplyLayerResets(cfg, raw, projectLevel) ==
    [key \in DOMAIN cfg |->
        IF key \in DurationKeys /\ raw[key].k # "unset"
        THEN IF ParseTomlDuration(raw[key]) = None THEN DefaultConfig[key] ELSE ParseTomlDuration(raw[key])
        ELSE cfg[key]]

\* apply_layer: a valid value replaces the one below; tag throttles extend.
ApplyLayer(cfg, raw, projectLevel) ==
    LET dur(key) == IF projectLevel /\ key \in GlobalOnly THEN None ELSE ParseTomlDuration(raw[key])
        over(key) == IF key \in DurationKeys THEN dur(key) ELSE raw[key].v
        gaps == raw.tag_throttles
        valid == {tag \in DOMAIN gaps : ParseTomlDuration(gaps[tag]) # None}
        extended == [tag \in valid \cup DOMAIN cfg.tag_throttles |->
                        IF tag \in valid THEN ParseTomlDuration(gaps[tag]) ELSE cfg.tag_throttles[tag]]
    IN  [key \in DOMAIN cfg |-> IF key = "tag_throttles" THEN extended
                               ELSE IF over(key) # None THEN over(key) ELSE cfg[key]]

\* load_config_at: the project's layer counts once when it is the user's own.
LoadConfigAt(projectLayer, userLayer, same) ==
    LET user == ApplyLayer(DefaultConfig, LoadLayer(userLayer), FALSE)
    IN  IF same THEN user ELSE ApplyLayer(user, LoadLayer(projectLayer), TRUE)

\* tags_from_env: nothing when the variable names no tag.
TagsFromEnv(pieces) ==
    LET tags == IF pieces = None THEN <<>> ELSE ParseTags(Str(pieces))
    IN  IF tags = <<>> THEN None ELSE tags

\* Mutant of EffectiveTags: a variable that names no tag overrides too.
EffectiveTagsSet(env, cfg, key) ==
    CASE env[key] # None -> Range(ParseTags(Str(env[key])))
      [] env[key] = None /\ cfg[key] # None -> Range(cfg[key])
      [] OTHER -> {}

\* The session's filter overrides the configured one (select_forks).
EffectiveTags(env, cfg, key) ==
    LET tags == IF TagsFromEnv(env[key]) # None THEN TagsFromEnv(env[key]) ELSE cfg[key]
    IN  IF tags = None THEN {} ELSE Range(tags)
=============================================================================
