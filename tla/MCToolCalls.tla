---------------------------- MODULE MCToolCalls ----------------------------
(***************************************************************************)
(* An instance of ToolCalls: the cards of the engines that read them in    *)
(* different ways, the tools with a limit at its boundaries, the calls     *)
(* with a deadline below and at WriteTimeout, and a message of every kind  *)
(* that no tool answers.                                                   *)
(***************************************************************************)
EXTENDS ToolCalls

Call(tool, engine) ==
    [method |-> "tools/call", tool |-> tool, engine |-> engine,
     sample |-> TRUE, timeout |-> 1, limit |-> 1, maxFields |-> 1, maxIndices |-> 1,
     comment |-> FALSE]
WithLimit(tool, engine, limits) == {[Call(tool, engine) EXCEPT !.limit = n] : n \in limits}

MCMessages ==
    {[Call("none", "none") EXCEPT !.method = w] :
        w \in {"GET", "OPTIONS", "ping", "notifications/initialized",
               "notifications/roots/list_changed", "unreadable"}}
    \cup {Call("no_such_tool", "none")}
    \cup {[Call("db_table_card_full", "postgres") EXCEPT !.sample = FALSE],
          Call("db_table_card_full", "clickhouse")}
    \cup {Call("db_table_card", e) : e \in {"mysql", "sqlite", "mongodb"}}
    \cup {Call("db_list_columns", e) : e \in {"mysql", "elasticsearch"}}
    \cup {Call("db_list_tables", e) : e \in {"clickhouse", "elasticsearch", "redis"}}
    \cup {Call("db_list_schemas", "sqlite"), Call("db_table_card", "redis")}
    \cup {Call("db_find_relationships", e) : e \in {"clickhouse", "mysql"}}
    \cup {Call("db_execute_query", e) : e \in {"postgres", "sqlite", "mongodb"}}
    \cup {[Call("db_execute_query", e) EXCEPT !.comment = TRUE] : e \in {"mysql", "redis"}}
    \cup WithLimit("mongo_find", "mongodb", {-1, 0})
    \cup WithLimit("mongo_aggregate", "mongodb", {0, 1})
    \cup WithLimit("redis_keys", "redis", {-1, 0, 1, 3})
    \cup {Call("redis_get", "redis")}
    \cup {Call("es_list_indices", "elasticsearch")}
    \cup WithLimit("es_search", "elasticsearch", {-1, 1})
    \cup {[Call("es_search", "elasticsearch") EXCEPT !.timeout = 2]}
    \cup WithLimit("es_describe_index", "elasticsearch", {0})

\* A card is long and sees one change, a call of one or two requests sees two.
MCMaxChanges == [m \in MCMessages |->
    IF m.tool \in {"db_table_card", "db_table_card_full", "es_describe_index"} THEN 1 ELSE 2]

\* A signal may come during every call but a card.
MCSignalled == {m \in MCMessages : m.tool \notin {"db_table_card", "db_table_card_full"}}

MCItems == {"c1", "p1", "p2", "r1", "n1", "s1", "s2", "t1", "i1", "i2", "d1", "d2",
            "f1", "h1", "k1", "k2", "l1", "l2", "v1"}
MCPartOf == [i \in MCItems |->
    CASE i = "c1" -> "columns" [] i \in {"p1", "p2"} -> "primary_key"
      [] i = "r1" -> "stats" [] i = "n1" -> "index_names" [] i \in {"s1", "s2"} -> "sample"
      [] i = "t1" -> "tables" [] i \in {"i1", "i2"} -> "indices"
      [] i = "f1" -> "fields" [] i = "h1" -> "hits"
      [] i \in {"d1", "d2"} -> "documents" [] i \in {"k1", "k2"} -> "keys"
      [] OTHER -> "value"]
MCTypeOf == [i \in MCItems |-> IF i = "v1" THEN "string" ELSE "list"]
=============================================================================
