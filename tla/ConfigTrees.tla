------------------------------ MODULE ConfigTrees ------------------------------
(***************************************************************************)
(* load_config of config.py: the YAML file and the TTS_DAEMON__* variables *)
(* of the environment become one tree of settings.                         *)
(*                                                                         *)
(* A tree is a mapping from keys to trees, or a scalar:                    *)
(*   [map |-> f]  or  [scalar |-> v].                                      *)
(* The environment is a sequence of variables in the order in which it is  *)
(* read; a variable is [path |-> keys, value |-> tree], because its text   *)
(* is parsed as YAML and may be a mapping.                                 *)
(*                                                                         *)
(* A definition marked "Mutant" is not part of the model: it is a bug that *)
(* the definition after it could have had, and that a property catches.    *)
(***************************************************************************)
LOCAL INSTANCE Naturals
LOCAL INSTANCE SequencesExt

IsMap(t) == DOMAIN t = {"map"}
Map(f) == [map |-> f]
Scalar(v) == [scalar |-> v]
NoSettings == Map([k \in {} |-> 0])

Has(t, k) == IsMap(t) /\ k \in DOMAIN t.map
With(t, k, v) == Map([x \in DOMAIN t.map \cup {k} |-> IF x = k THEN v ELSE t.map[x]])

\* Mutant: a mapping replaces a mapping.
ShallowMerge(base, override) ==
    Map([k \in DOMAIN base.map \cup DOMAIN override.map |->
            IF k \in DOMAIN override.map THEN override.map[k] ELSE base.map[k]])

\* _deep_merge: mappings are merged, anything else is replaced.
RECURSIVE DeepMerge(_, _)
DeepMerge(base, override) ==
    Map([k \in DOMAIN base.map \cup DOMAIN override.map |->
            IF k \notin DOMAIN override.map THEN base.map[k]
            ELSE IF Has(base, k) /\ IsMap(base.map[k]) /\ IsMap(override.map[k])
            THEN DeepMerge(base.map[k], override.map[k])
            ELSE override.map[k]])

\* One variable of _env_overrides: what is no mapping on the way to the last
\* key gives way to one.
RECURSIVE Assign(_, _, _)
Assign(tree, path, value) ==
    IF Len(path) = 1 THEN With(tree, path[1], value)
    ELSE LET sub == IF Has(tree, path[1]) /\ IsMap(tree.map[path[1]])
                    THEN tree.map[path[1]] ELSE NoSettings
         IN  With(tree, path[1], Assign(sub, Tail(path), value))

\* _env_overrides
EnvOverrides(env) ==
    FoldLeft(LAMBDA tree, v : Assign(tree, v.path, v.value), NoSettings, env)

\* load_config, up to the validation of the result.
Settings(file, env) == DeepMerge(file, EnvOverrides(env))

=============================================================================
