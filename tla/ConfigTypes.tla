----------------------------- MODULE ConfigTypes -----------------------------
(* The configuration as a TOML value (crates/core/src/config/types.rs and     *)
(* mod.rs): what serde takes for a ForgeclawConfig, every section of it, and  *)
(* the references between sections.                                           *)
(*                                                                            *)
(* Times, sizes and paths are strings to the code, and so they are here.      *)
(* Integers below zero are a kind of their own; widths are left out.          *)
EXTENDS Sequences

Value(kind, data, table, items) ==
    [kind |-> kind, data |-> data, table |-> table, items |-> items]

String(s)    == Value("string", s, <<>>, <<>>)
Integer(n)   == Value("integer", n, <<>>, <<>>)
Array(items) == Value("array", "", <<>>, items)
Table(t)     == Value("table", "", t, <<>>)

EmptyTable == Table(<<>>)
IsTable(v) == v.kind = "table"
Keys(v)    == DOMAIN v.table

-----------------------------------------------------------------------------
(* What serde accepts                                                        *)

Text(v)          == v.kind = "string"
Unsigned(v)      == v.kind = "integer"
Number(v)        == v.kind \in {"integer", "negative", "float"}
Bool(v)          == v.kind = "boolean"
OneOf(v, names)  == Text(v) /\ v.data \in names
MapOf(v, T(_))   == IsTable(v) /\ \A k \in Keys(v) : T(v.table[k])
ArrayOf(v, T(_)) == v.kind = "array" /\ \A i \in DOMAIN v.items : T(v.items[i])

\* deny_unknown_fields; a field that is an Option or has a default may be missing.
Struct(v, required, optional) ==
    IsTable(v) /\ required \subseteq Keys(v) /\ Keys(v) \subseteq required \cup optional

Fields(v, names, T(_)) == \A k \in names \cap Keys(v) : T(v.table[k])

RuntimeConfig(v) ==
    /\ Struct(v, {"data_dir", "max_concurrent_containers", "warm_pool_size"},
                 {"log_level", "event_bus_capacity"})
    /\ Fields(v, {"data_dir", "log_level"}, Text)
    /\ Fields(v, {"max_concurrent_containers", "warm_pool_size", "event_bus_capacity"}, Unsigned)

StoreBackend(v) == OneOf(v, {"sqlite", "postgres"})

StoreConfig(v) ==
    /\ Struct(v, {"backend", "url"}, {})
    /\ Fields(v, {"backend"}, StoreBackend) /\ Fields(v, {"url"}, Text)

ProviderKind(v) == OneOf(v, {"anthropic", "openai_compat"})

ProviderConfig(v) ==
    /\ Struct(v, {"type"}, {"base_url"})
    /\ Fields(v, {"type"}, ProviderKind) /\ Fields(v, {"base_url"}, Text)

ExhaustAction(v) == OneOf(v, {"fallback", "pause", "notify"})

BudgetPoolConfig(v) ==
    /\ Struct(v, {"daily_limit", "monthly_limit", "action_on_exhaust"}, {"alert_thresholds"})
    /\ Fields(v, {"daily_limit", "monthly_limit"}, Unsigned)
    /\ Fields(v, {"action_on_exhaust"}, ExhaustAction)
    /\ Fields(v, {"alert_thresholds"}, LAMBDA a : ArrayOf(a, Number))

FallbackEntry(v) ==
    Struct(v, {"provider", "model"}, {}) /\ Fields(v, {"provider", "model"}, Text)

TokenBudget(v) ==
    Struct(v, {"daily", "monthly"}, {}) /\ Fields(v, {"daily", "monthly"}, Unsigned)

GroupConfig(v) ==
    /\ Struct(v, {"provider", "model", "channel"},
                 {"fallback", "is_main", "token_budget", "budget_pool", "allowed_compose_services"})
    /\ Fields(v, {"provider", "model", "channel", "budget_pool"}, Text)
    /\ Fields(v, {"fallback"}, LAMBDA a : ArrayOf(a, FallbackEntry))
    /\ Fields(v, {"is_main"}, Bool)
    /\ Fields(v, {"token_budget"}, TokenBudget)
    /\ Fields(v, {"allowed_compose_services"}, LAMBDA a : ArrayOf(a, Text))

ContainerDefaults(v) ==
    /\ Struct(v, {"image", "timeout", "idle_ttl", "memory_limit", "cpu_limit"}, {})
    /\ Fields(v, {"image", "timeout", "idle_ttl", "memory_limit"}, Text)
    /\ Fields(v, {"cpu_limit"}, Unsigned)

TanrenConfig(v) ==
    /\ Struct(v, {"api_url"}, {"poll_interval", "max_concurrent_dispatches"})
    /\ Fields(v, {"api_url", "poll_interval"}, Text)
    /\ Fields(v, {"max_concurrent_dispatches"}, Unsigned)

ChannelKind(v) == OneOf(v, {"discord", "telegram", "slack", "webhook"})

\* The settings are whatever the platform wants.
ChannelConfig(v) ==
    /\ Struct(v, {"type"}, {"name", "settings"})
    /\ Fields(v, {"type"}, ChannelKind) /\ Fields(v, {"name"}, Text)
    /\ Fields(v, {"settings"}, IsTable)

ForgeclawConfig(v) ==
    /\ Struct(v, {"runtime", "store", "providers", "groups", "channels", "container"},
                 {"budget_pools", "tanren"})
    /\ Fields(v, {"runtime"}, RuntimeConfig) /\ Fields(v, {"store"}, StoreConfig)
    /\ Fields(v, {"container"}, ContainerDefaults) /\ Fields(v, {"tanren"}, TanrenConfig)
    /\ Fields(v, {"providers"}, LAMBDA m : MapOf(m, ProviderConfig))
    /\ Fields(v, {"budget_pools"}, LAMBDA m : MapOf(m, BudgetPoolConfig))
    /\ Fields(v, {"groups"}, LAMBDA m : MapOf(m, GroupConfig))
    /\ Fields(v, {"channels"}, LAMBDA m : MapOf(m, ChannelConfig))

-----------------------------------------------------------------------------
(* What the sections say of each other                                       *)

Names(v, section) == UNION {Keys(v.table[s]) : s \in {section} \cap Keys(v)}

\* The entries that a group refers to, as <<section, name>>.
References(group) ==
    {<<"providers", group.table["provider"].data>>, <<"channels", group.table["channel"].data>>}
    \cup {<<"budget_pools", group.table[k].data>> : k \in {"budget_pool"} \cap Keys(group)}
    \cup UNION {{<<"providers", group.table[k].items[i].table["provider"].data>> :
                    i \in DOMAIN group.table[k].items} : k \in {"fallback"} \cap Keys(group)}

validate(v) ==
    /\ Names(v, "groups") # {} => Names(v, "channels") # {}
    /\ \A g \in Names(v, "groups") :
          \A r \in References(v.table["groups"].table[g]) : r[2] \in Names(v, r[1])

\* What a load fails with.
ConfigError == {"Io", "Parse", "Validation"}
=============================================================================
