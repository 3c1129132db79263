------------------------------ MODULE ConfigLoad ------------------------------
(* ForgeclawConfig::load_layered (crates/core/src/config): the user's file,   *)
(* the project's file over it, the environment over both, then                *)
(* deserialization and validation; and ForgeclawConfig::load, which takes one *)
(* file as it is.  Files may be edited while they are loaded and the          *)
(* environment is read in no particular order.                                *)
EXTENDS Naturals, SequencesExt, FiniteSets, ConfigTypes

CONSTANTS
    Trees,          \* tables a file may hold
    Values,         \* the values in them, and an empty table
    Depth,          \* a value -> how deep its tables nest
    Variables,      \* FORGECLAW_ variables: [path, raw], path split at __
    Toml,           \* a raw text that is TOML -> its value
    Lower,          \* a word -> the word in lower case
    MaxVariables,   \* bound: variables set at once
    MaxEdits,       \* bound: edits of files while they are loaded
    MaxPath         \* bound: the length of the paths the properties look at

\* TOML nests as deep as it likes, but not for ever.
ASSUME ValuesAssumption ==
    /\ Trees \subseteq Values /\ EmptyTable \in Values
    /\ \A t \in Trees : IsTable(t)
    /\ Depth \in [Values -> Nat]
    /\ \A v \in Values :
          /\ IsTable(v) => v = Table([k \in Keys(v) |-> v.table[k]])
          /\ ~IsTable(v) => Keys(v) = {}
          /\ \A k \in Keys(v) : v.table[k] \in Values /\ Depth[v.table[k]] < Depth[v]
\* The words of a variable's name have a lower case.
ASSUME VariablesAssumption == \A v \in Variables : v.path \in Seq(DOMAIN Lower)
ASSUME BoundAssumption == MaxVariables \in Nat /\ MaxEdits \in Nat /\ MaxPath \in Nat

VARIABLES
    mode,       \* "layered" or "single", for good
    disk,       \* file -> what is on disk
    edits,      \* edits so far
    phase,      \* where load_layered is
    file,       \* the file it is at
    merged,     \* the value built so far
    read,       \* file -> the table that was read, or an empty one (history)
    env,        \* the variables, as they are set
    pending,    \* those not applied yet, and to be applied
    filesOnly,  \* merged before the environment (history)
    result      \* what load_layered returned

vars == <<mode, disk, edits, phase, file, merged, read, env, pending, filesOnly, result>>

Files == {"user", "project"}

MAP_SECTIONS == {"providers", "groups", "channels", "budget_pools"}

-----------------------------------------------------------------------------
(* TOML values, put together                                                 *)

Insert(v, key, new) ==
    Table([k \in Keys(v) \cup {key} |-> IF k = key THEN new ELSE v.table[k]])

\* Mutant: one level deep only, a section of the overlay hides the base's.
deep_merge_Shallow(base, overlay) ==
    IF IsTable(base) /\ IsTable(overlay)
    THEN Table([k \in Keys(base) \cup Keys(overlay) |->
                   IF k \in Keys(overlay) THEN overlay.table[k] ELSE base.table[k]])
    ELSE overlay

\* Tables are merged key by key; whatever else overlay has replaces base.
Merge[base \in Values] == [overlay \in Values |->
    IF IsTable(base) /\ IsTable(overlay)
    THEN Table([k \in Keys(base) \cup Keys(overlay) |->
                   IF k \notin Keys(overlay) THEN base.table[k]
                   ELSE IF k \notin Keys(base) THEN overlay.table[k]
                   ELSE Merge[base.table[k]][overlay.table[k]]])
    ELSE overlay]

deep_merge(base, overlay) == Merge[base][overlay]

\* What a path leads to, segment by segment; a table is made where nothing is.
Along(root, path) ==
    LET at[i \in 0..Len(path)] ==
            IF i = 0 THEN root
            ELSE IF path[i] \in Keys(at[i - 1]) THEN at[i - 1].table[path[i]] ELSE EmptyTable
    IN at

\* Mutant: a table that is missing on the way is not made.
set_nested_NoTables(root, path, value) ==
    LET at == Along(root, path)
        new[i \in 0..Len(path)] ==
            IF i = Len(path) THEN value
            ELSE IF IsTable(at[i]) /\ (i + 1 = Len(path) \/ path[i + 1] \in Keys(at[i]))
                 THEN Insert(at[i], path[i + 1], new[i + 1]) ELSE at[i]
    IN IF path = <<>> THEN root ELSE new[0]

\* And what takes its place, back from the last segment.  Nothing is set below
\* a value that is not a table.
set_nested(root, path, value) ==
    LET at == Along(root, path)
        new[i \in 0..Len(path)] ==
            IF i = Len(path) THEN value
            ELSE IF IsTable(at[i]) THEN Insert(at[i], path[i + 1], new[i + 1]) ELSE at[i]
    IN IF path = <<>> THEN root ELSE new[0]

\* A name in a section of names keeps its spelling.
normalize_env_path(parts) ==
    [i \in DOMAIN parts |->
        IF i = 2 /\ Lower[parts[1]] \in MAP_SECTIONS THEN parts[i] ELSE Lower[parts[i]]]

\* Without a separator it is a secret, and no part of the configuration.
IsOverride(variable) == Len(variable.path) >= 2

\* A scalar, an array or an inline table if it reads as one, or else a string.
parse_env_value(raw) == IF raw \in DOMAIN Toml THEN Toml[raw] ELSE String(raw)

Override(root, variable) ==
    set_nested(root, normalize_env_path(variable.path), parse_env_value(variable.raw))

-----------------------------------------------------------------------------
Absent == [state |-> "absent", tree |-> EmptyTable]

\* A file is not there, is not text or not TOML, is above MAX_CONFIG_SIZE, or is fine.
OnDisk == {Absent} \cup {[state |-> "broken", tree |-> EmptyTable]}
              \cup [state : {"huge", "fine"}, tree : Trees]

\* Where the layers begin: without HOME there is no user's file.
home_config_path == {"user", "project"}

\* load is given a file that it does not look for first.
Init ==
    /\ \/ mode = "layered" /\ phase = "exists" /\ file \in home_config_path
       \/ mode = "single" /\ phase = "guard" /\ file = "project"
    /\ disk \in [Files -> {Absent} \cup [state : {"fine"}, tree : Trees]]
    /\ file = "project" => disk["user"] = Absent
    /\ edits = 0
    /\ merged = EmptyTable
    /\ read = [f \in Files |-> EmptyTable]
    /\ env \in {e \in SUBSET Variables : Cardinality(e) <= MaxVariables}
    /\ pending = IF mode = "layered" THEN env ELSE {}
    /\ filesOnly = EmptyTable
    /\ result = "none"

\* Of a file that is still to be read: another one is not looked at again.
Edit ==
    /\ edits < MaxEdits
    /\ edits' = edits + 1
    /\ phase \in {"exists", "guard", "read"}
    /\ \E f \in {file, "project"}, new \in OnDisk : disk' = [disk EXCEPT ![f] = new]
    /\ UNCHANGED <<mode, phase, file, merged, read, env, pending, filesOnly, result>>

Return(res) ==
    /\ phase' = "returned"
    /\ result' = res
    /\ UNCHANGED <<mode, disk, edits, file, merged, read, env, pending, filesOnly>>

\* Mutant: a user's file that was found is all there is.
NextLayer_Env == file' = file /\ phase' = "env"

\* The layer is done: on to the project's file, or to the environment.
NextLayer ==
    IF file = "user" THEN file' = "project" /\ phase' = "exists"
                     ELSE file' = file /\ phase' = "env"

\* A file that is not there is passed over.
Passed ==
    /\ phase = "exists"
    /\ disk[file].state = "absent"
    /\ NextLayer
    /\ filesOnly' = merged
    /\ UNCHANGED <<mode, disk, edits, merged, read, env, pending, result>>

Exists ==
    /\ phase = "exists"
    /\ disk[file].state # "absent"
    /\ phase' = "guard"
    /\ UNCHANGED <<mode, disk, edits, file, merged, read, env, pending, filesOnly, result>>

\* The size is taken first, and the file is read by another call.
read_guarded ==
    /\ phase = "guard"
    /\ disk[file].state \in {"broken", "fine"}
    /\ phase' = "read"
    /\ UNCHANGED <<mode, disk, edits, file, merged, read, env, pending, filesOnly, result>>

GuardFails ==
    /\ phase = "guard"
    /\ \/ disk[file].state = "absent" /\ Return("Io")
       \/ disk[file].state = "huge" /\ Return("Validation")

\* A file that has grown since its size was taken is read as well.
read_toml ==
    /\ phase = "read"
    /\ disk[file].state \in {"huge", "fine"}
    /\ merged' = deep_merge(merged, disk[file].tree)
    /\ read' = [read EXCEPT ![file] = disk[file].tree]
    /\ filesOnly' = merged'
    /\ NextLayer
    /\ UNCHANGED <<mode, disk, edits, env, pending, result>>

\* What is not UTF-8 is not read, what is not TOML not parsed.
ReadFails ==
    /\ phase = "read"
    /\ \/ disk[file].state \in {"absent", "broken"} /\ Return("Io")
       \/ disk[file].state = "broken" /\ Return("Parse")

\* Mutant: a secret is put at the top level.
apply_env_overrides_Secrets ==
    /\ phase = "env"
    /\ \E variable \in pending :
          /\ pending' = pending \ {variable}
          /\ merged' = Override(merged, variable)
    /\ UNCHANGED <<mode, disk, edits, phase, file, read, env, filesOnly, result>>

\* One variable after the other, in the order std::env::vars has them.
apply_env_overrides ==
    /\ phase = "env"
    /\ \E variable \in pending :
          /\ pending' = pending \ {variable}
          /\ merged' = IF IsOverride(variable)
                       THEN Override(merged, variable)
                       ELSE merged
    /\ UNCHANGED <<mode, disk, edits, phase, file, read, env, filesOnly, result>>

\* Mutant: what the files say is validated, before the environment is applied.
Finish_ValidatesFiles ==
    /\ phase = "env" /\ pending = {}
    /\ Return(IF ~ForgeclawConfig(merged) THEN "Parse"
              ELSE IF ForgeclawConfig(filesOnly) /\ ~validate(filesOnly) THEN "Validation" ELSE "ok")

Finish ==
    /\ phase = "env" /\ pending = {}
    /\ Return(IF ~ForgeclawConfig(merged) THEN "Parse"
              ELSE IF ~validate(merged) THEN "Validation" ELSE "ok")

load_layered ==
    \/ Passed \/ Exists \/ read_guarded \/ GuardFails \/ read_toml \/ ReadFails
    \/ apply_env_overrides \/ Finish

Next == load_layered \/ Edit

Spec == Init /\ [][Next]_vars

-----------------------------------------------------------------------------
(* Properties                                                                *)

\* The values in a value with the paths to them, up to a length.
Below(v, length) ==
    LET within[n \in Nat] ==
            IF n = 0 THEN {<<<<>>, v>>}
            ELSE LET shorter == within[n - 1]
                 IN shorter \cup UNION {{<<Append(x[1], k), x[2].table[k]>> : k \in Keys(x[2])} :
                                           x \in shorter}
    IN within[length]

\* A value less what is below it.
Leaf(v) == Value(v.kind, v.data, <<>>, v.items)

\* A value by its paths: each with what is there.
Nodes(v) == {[path |-> x[1], leaf |-> Leaf(x[2])] : x \in Below(v, MaxPath)}

TypeOK ==
    /\ disk \in [Files -> OnDisk]
    /\ edits \in 0..MaxEdits
    /\ phase \in {"exists", "guard", "read", "env", "returned"}
    /\ file \in Files
    /\ phase = "env" => file = "project"
    /\ read \in [Files -> Trees \cup {EmptyTable}]
    /\ pending \subseteq env /\ env \subseteq Variables
    /\ result \in ConfigError \cup {"none", "ok"}
    /\ mode = "single" => file = "project" /\ pending = {}
    /\ IsTable(merged)

\* The files by paths: what the project's file has at a path stands, and what
\* the user's file has stands where the project's has nothing at the path and
\* no scalar above it.
ProjectOverUser ==
    LET user == Nodes(read["user"])
        project == Nodes(read["project"])
    IN Nodes(filesOnly) = project \cup
          {n \in user :
              /\ \A p \in project : p.path # n.path
              /\ \A p \in project : ~IsTable(p.leaf) => ~IsStrictPrefix(p.path, n.path)}

\* The environment changes the paths its variables name, spelled as in the
\* files, and those above and below them: everything else is as the files have
\* it, and no secret is anywhere.
EnvironmentStaysInPlace ==
    LET paths == {normalize_env_path(v.path) : v \in {w \in env : IsOverride(w)}}
        Touched(path) == \E p \in paths : IsPrefix(p, path) \/ IsPrefix(path, p)
        now == Nodes(merged)
        before == Nodes(filesOnly)
    IN \A n \in (now \ before) \cup (before \ now) : Touched(n.path)

\* What is returned is consistent across its sections, whichever layers they
\* came from: every provider, channel and pool that a group names exists.
ReferencesHold ==
    result = "ok" =>
        LET nodes == Nodes(merged)
            Defined(section, name) ==
                \E m \in nodes : m.path = <<section, name>> /\ IsTable(m.leaf)
        IN \A n \in nodes :
              Len(n.path) = 3 /\ n.path[1] = "groups" =>
                CASE n.path[3] = "channel"     -> Defined("channels", n.leaf.data)
                  [] n.path[3] = "provider"    -> Defined("providers", n.leaf.data)
                  [] n.path[3] = "budget_pool" -> Defined("budget_pools", n.leaf.data)
                  [] n.path[3] = "fallback"    ->
                         \A i \in DOMAIN n.leaf.items :
                             Defined("providers", n.leaf.items[i].table["provider"].data)
                  [] OTHER -> TRUE

\* Whatever order the environment comes in: a variable that has been applied is
\* in the configuration from then on, spelled as in the files, if no other one
\* names its path or one above or below, in whatever spelling, and no file has a
\* scalar above it (there set_nested drops it).
UncontestedOverridesWin ==
    LET overrides == {v \in env : IsOverride(v)}
        Path(v) == normalize_env_path(v.path)
        Contested(v) == \E w \in overrides \ {v} :
                            IsPrefix(Path(v), Path(w)) \/ IsPrefix(Path(w), Path(v))
        HasScalarAbove(path) == \E n \in Nodes(filesOnly) :
                                    ~IsTable(n.leaf) /\ IsStrictPrefix(n.path, path)
    IN mode = "layered" =>
          \A v \in overrides \ pending :
              Contested(v) \/ HasScalarAbove(Path(v))
                  \/ [path |-> Path(v), leaf |-> Leaf(parse_env_value(v.raw))] \in Nodes(merged)
=============================================================================
