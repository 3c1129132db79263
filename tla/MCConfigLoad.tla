---------------------------- MODULE MCConfigLoad ----------------------------
(* Small instances of ConfigLoad: one group g of provider p; channels c and   *)
(* C, with a setting a that is a scalar, a table or missing.                  *)
EXTENDS ConfigLoad, TLC

Config(groups, channels) == "groups" :> groups @@ "channels" :> channels

Group(channel) ==
    Table("g" :> Table("provider" :> String("p") @@ "model" :> String("m")
                       @@ "channel" :> String(channel)
                       @@ "fallback" :> Array(<<Table("provider" :> String("p") @@ "model" :> String("n"))>>)))

Channel(name, a) ==
    Table(name :> Table("type" :> String("discord") @@ "settings" :> Table("a" :> a)))

\* The sections that nothing refers to, and the provider.
Others ==
    "runtime" :> Table("data_dir" :> String("d") @@ "max_concurrent_containers" :> Integer("4")
                       @@ "warm_pool_size" :> Integer("1"))
    @@ "store" :> Table("backend" :> String("sqlite") @@ "url" :> String("u"))
    @@ "container" :> Table("image" :> String("i") @@ "timeout" :> String("30m")
                            @@ "idle_ttl" :> String("5m") @@ "memory_limit" :> String("4g")
                            @@ "cpu_limit" :> Integer("2"))
    @@ "providers" :> Table("p" :> Table("type" :> String("anthropic")))

SomeTrees ==
    { Table(Config(Group("c"), Channel("c", String("x"))) @@ Others),
      Table(Config(Group("C"), Channel("C", Table("b" :> String("y"))))),
      Table(Config(EmptyTable, Channel("c", Table("b" :> String("z")))) @@ Others),
      Table("groups" :> Group("c")),
      Table("channels" :> Channel("C", String("x"))),
      Table("channels" :> String("x")) }

RECURSIVE Within(_)
Within(v) == {v} \cup UNION {Within(v.table[k]) : k \in Keys(v)}

SomeValues == UNION {Within(t) : t \in SomeTrees \cup {EmptyTable}}

RECURSIVE Nesting(_)
Nesting(v) == IF Keys(v) = {} THEN 0 ELSE 1 + Max({Nesting(v.table[k]) : k \in Keys(v)})

SomeDepths == [v \in SomeValues |-> Nesting(v)]

SomeVariables ==
    { [path |-> <<"CHANNELS", "c", "SETTINGS", "A">>, raw |-> "e"],
      [path |-> <<"CHANNELS", "c", "SETTINGS", "A", "B">>, raw |-> "e"],
      [path |-> <<"channels", "C", "settings", "a">>, raw |-> "{ b = 1 }"],
      [path |-> <<"GROUPS", "g", "CHANNEL">>, raw |-> "C"],
      [path |-> <<"GROUPS", "g", "BUDGET_POOL">>, raw |-> "q"],
      [path |-> <<"STORE", "URL">>, raw |-> "1"],
      [path |-> <<"TOKEN">>, raw |-> "t"] }

SomeToml == "1" :> Integer("1") @@ "{ b = 1 }" :> Table("b" :> Integer("1"))

LowerCase ==
    [ w \in {"groups", "channels", "settings", "channel", "a", "b", "c", "g"} |-> w ]
        @@ ("GROUPS" :> "groups" @@ "CHANNELS" :> "channels" @@ "SETTINGS" :> "settings"
        @@ "CHANNEL" :> "channel" @@ "BUDGET_POOL" :> "budget_pool" @@ "STORE" :> "store"
        @@ "URL" :> "url" @@ "A" :> "a" @@ "B" :> "b" @@ "C" :> "c" @@ "TOKEN" :> "token")
=============================================================================
