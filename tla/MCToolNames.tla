---------------------------- MODULE MCToolNames ----------------------------
(* Five tools with three joined names: "a" as a function and a custom tool, *)
(* "a!" that is sanitised to "a" too, and "n__a" with and without namespace. *)
EXTENDS AdapterTools

Tool(type, name, namespace) == [type |-> type, name |-> name, namespace |-> namespace]

FiveTools ==
  {Tool("function", "a", ""), Tool("custom", "a", ""), Tool("function", "a!", ""),
   Tool("function", "a", "n"), Tool("function", "n__a", "")}

Joined ==
  [tool \in FiveTools |-> IF tool.namespace = "n" THEN "n__a" ELSE tool.name]

Sanitised == [raw \in {"a", "a!", "n__a"} |-> IF raw = "a!" THEN "a" ELSE raw]

==============================================================================
