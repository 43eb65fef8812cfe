------------------------------ MODULE Builtins ------------------------------
(***************************************************************************)
(* Built-in functions (ast/builtins.py) on JSON values.  An array is       *)
(* <<"array", sequence>>, a set <<"set", set>> and an object               *)
(* <<"object", function>>.  An exception that is no EvalError is Crash: it *)
(* leaves the evaluator.  Numbers are integers.                            *)
(***************************************************************************)
EXTENDS Ast, GraphSearch, FiniteSets, SequencesExt, FiniteSetsExt, TLC

Crash == <<"crash">>
Error == <<"error">>                        \* EvalError
Undefined == <<"undefined">>                \* UndefinedError
Raised(v) == Kind(v) \in {"crash", "error", "undefined"}

IsCollection(v) == Kind(v) \in {"array", "set", "object"}
Elements(v) ==                              \* what iterating over v yields
  CASE Kind(v) = "array" -> ToSet(v[2])
    [] Kind(v) = "set" -> v[2]
    [] Kind(v) = "object" -> DOMAIN v[2]
    [] OTHER -> {}
Members(v) == IF Kind(v) = "object" THEN Range(v[2]) ELSE Elements(v)
Without(f, keys) == [k \in DOMAIN f \ keys |-> f[k]]
With1(f, k, v) == (k :> v) @@ f

\* str() of a key
TextOf(v) ==
  CASE Kind(v) = "num" -> ToString(v[2])
    [] Kind(v) = "bool" -> IF v[2] THEN "True" ELSE "False"
    [] Kind(v) \in {"str", "unbound"} -> v[2]
    [] OTHER -> "?"

\* The value of int() of a key, or no value where int() raises.
Numerals == "-1" :> -1 @@ "0" :> 0 @@ "1" :> 1 @@ "2" :> 2
IntOf(k) ==
  CASE Kind(k) = "num" -> {k[2]}
    [] Kind(k) = "bool" -> {IF k[2] THEN 1 ELSE 0}
    [] Kind(k) = "str" /\ k[2] \in DOMAIN Numerals -> {Numerals[k[2]]}
    [] OTHER -> {}

\* s[int(k)] of a Python list: a negative index counts from the end.
ItemAt(s, k) ==
  LET at == {IF i < 0 THEN Len(s) + i + 1 ELSE i + 1 : i \in IntOf(k)} \cap 1..Len(s)
  IN IF at = {} THEN Crash ELSE s[Min(at)]

Compare(op, a, b) ==
  CASE op = "equal" -> Bool(a = b)
    [] op = "neq" -> Bool(a # b)
    [] {Kind(a), Kind(b)} # {"num"} -> Crash
    [] op = "lt" -> Bool(a[2] < b[2])
    [] op = "lte" -> Bool(a[2] <= b[2])
    [] op = "gt" -> Bool(a[2] > b[2])
    [] op = "gte" -> Bool(a[2] >= b[2])

Arithmetic(op, a, b) ==
  CASE op = "minus" /\ {Kind(a), Kind(b)} = {"set"} -> SetOf(a[2] \ b[2])
    [] {Kind(a), Kind(b)} # {"num"} -> Crash
    [] op = "plus" -> Num(a[2] + b[2])
    [] op = "minus" -> Num(a[2] - b[2])
    [] op = "mul" -> Num(a[2] * b[2])
    [] op = "rem" -> IF b[2] = 0 THEN Crash ELSE Num(a[2] % b[2])

NumbersRange(a, b) ==
  Array(IF a <= b THEN [i \in 1..(b - a + 1) |-> Num(a + i - 1)]
        ELSE [i \in 1..(a - b + 1) |-> Num(a - i + 1)])

\* count, sum, max and min of an array or a set of numbers.
Aggregate(op, v) ==
  LET ns == IF Kind(v) = "array" THEN [i \in DOMAIN v[2] |-> v[2][i][2]]
            ELSE SetToSeq({x[2] : x \in Elements(v)})
  IN CASE ~IsCollection(v) -> Crash
       [] op = "count" -> Num(IF Kind(v) = "array" THEN Len(v[2]) ELSE Cardinality(Elements(v)))
       [] op = "sum" -> Num(FoldLeft(LAMBDA x, y : x + y, 0, ns))
       [] ns = <<>> -> Crash
       [] op = "max" -> Num(Max(ToSet(ns)))
       [] op = "min" -> Num(Min(ToSet(ns)))

\* arr[start:stop]: a negative index counts from the end.
Slice(s, start, stop) ==
  LET At(i) == IF i < 0 THEN Max({0, Len(s) + i}) ELSE Min({i, Len(s)})
  IN SubSeq(s, At(start) + 1, At(stop))

UnionOf(sets) == SetOf(UNION {Elements(s) : s \in Elements(sets)})
\* and, or and set_diff take whatever can be iterated over.
SetOp(op, a, b) ==
  CASE ~(IsCollection(a) /\ IsCollection(b)) -> Crash
    [] op = "and" -> SetOf(Elements(a) \cap Elements(b))
    [] op = "or" -> SetOf(Elements(a) \cup Elements(b))
    [] op = "set_diff" -> SetOf(Elements(a) \ Elements(b))

IntersectionOf(sets) ==
  SetOf(IF Elements(sets) = {} THEN {}
        ELSE {x \in UnionOf(sets)[2] : \A s \in Elements(sets) : x \in Elements(s)})

ObjectGet(o, k, default) == IF k \in DOMAIN o THEN o[k] ELSE default
ObjectUnion(objects) == FoldLeft(LAMBDA acc, o : o[2] @@ acc, <<>>, objects)
KeysOf(v) == IF IsCollection(v) THEN Elements(v) ELSE {v}
ObjectRemove(o, keys) == Without(o, KeysOf(keys))
ObjectFilter(o, keys) == Without(o, DOMAIN o \ KeysOf(keys))

RECURSIVE IsSubset(_, _)
IsSubset(super, sub) ==
  IF {Kind(super), Kind(sub)} = {"object"}
  THEN \A k \in DOMAIN sub[2] : k \in DOMAIN super[2] /\ IsSubset(super[2][k], sub[2][k])
  ELSE IF {Kind(super), Kind(sub)} = {"set"} THEN sub[2] \subseteq super[2]
  ELSE super = sub

TypeName(v) ==
  CASE Kind(v) = "bool" -> "boolean" [] Kind(v) = "num" -> "number"
    [] Kind(v) = "str" -> "string" [] OTHER -> Kind(v)

-----------------------------------------------------------------------------
(* json.filter, json.remove and json.patch on objects; a path is a sequence *)
(* of keys without empty segments.  Only reading follows it into a list:    *)
(* a write there raises and a removal does nothing.                         *)
RECURSIVE GetNested(_, _), SetNested(_, _, _), DelNested(_, _)

GetNested(v, path) ==
  IF path = <<>> THEN v
  ELSE IF Kind(v) = "object" THEN GetNested(ObjectGet(v[2], Head(path), Null), Tail(path))
  ELSE IF Kind(v) = "array" THEN GetNested(ItemAt(v[2], Head(path)), Tail(path))
  ELSE IF Raised(v) THEN v
  ELSE Null

\* Descending into a value that is not an object raises a TypeError.
SetNested(v, path, x) ==
  IF path = <<>> THEN v
  ELSE IF Kind(v) # "object" THEN Crash
  ELSE IF Raised(x) THEN x
  ELSE IF Len(path) = 1 THEN Object(With1(v[2], Head(path), x))
  ELSE LET child == SetNested(ObjectGet(v[2], Head(path), Object(<<>>)), Tail(path), x)
       IN IF Raised(child) THEN child ELSE Object(With1(v[2], Head(path), child))

\* Mutant: the parent goes with the key.
DelNestedParent(v, path) == IF path = <<>> THEN v ELSE Object(Without(v[2], {Head(path)}))

DelNested(v, path) ==
  IF path = <<>> \/ Kind(v) # "object" \/ Head(path) \notin DOMAIN v[2] THEN v
  ELSE IF Len(path) = 1 THEN Object(Without(v[2], {Head(path)}))
  ELSE Object([v[2] EXCEPT ![Head(path)] = DelNested(@, Tail(path))])

JsonFilter(v, paths) ==
  IF Kind(v) # "object" THEN v
  ELSE FoldLeft(LAMBDA acc, p : SetNested(acc, p, GetNested(v, p)), Object(<<>>), paths)

JsonRemove(v, paths) == FoldLeft(DelNested, v, paths)

Moved(v, from, path) == SetNested(DelNested(v, from), path, GetNested(v, from))

PatchOne(v, patch) ==
  CASE patch.op \in {"add", "replace"} -> SetNested(v, patch.path, patch.value)
    [] patch.op = "remove" -> DelNested(v, patch.path)
    [] patch.op = "move" -> Moved(v, patch.from, patch.path)
    [] patch.op = "copy" -> SetNested(v, patch.path, GetNested(v, patch.from))
    [] patch.op = "test" -> IF GetNested(v, patch.path) = patch.value THEN v ELSE Crash
    [] OTHER -> v

JsonPatch(v, patches) ==
  FoldLeft(LAMBDA acc, p : IF Raised(acc) THEN acc ELSE PatchOne(acc, p), v, patches)

-----------------------------------------------------------------------------
(* graph.reachable and graph.reachable_paths; a graph maps a node to the    *)
(* array or set of its neighbours.                                          *)
Neighbours(graph, n) ==
  LET ns == ObjectGet(graph, n, Array(<<>>))
  IN IF Kind(ns) \in {"array", "set"} THEN Elements(ns) ELSE {}

Reachable(graph, initial) ==
  Search([n \in DOMAIN graph |-> Neighbours(graph, n)], SetToSeq(KeysOf(initial)))

RECURSIVE PathsFrom(_, _)
PathsFrom(graph, path) ==
  {path} \cup UNION {PathsFrom(graph, Append(path, n)) :
                       n \in Neighbours(graph, path[Len(path)]) \ ToSet(path)}

ReachablePaths(graph, initial) == UNION {PathsFrom(graph, <<n>>) : n \in KeysOf(initial)}

RECURSIVE Walk(_, _)
Walk(v, path) ==
  {<<path, v>>} \cup
  CASE Kind(v) = "object" -> UNION {Walk(v[2][k], Append(path, k)) : k \in DOMAIN v[2]}
    [] Kind(v) = "array" -> UNION {Walk(v[2][i], Append(path, Num(i - 1))) : i \in DOMAIN v[2]}
    [] OTHER -> {}

-----------------------------------------------------------------------------
IsMember(x, coll) == IsCollection(coll) /\ x \in Members(coll)

\* The key of an array is a number; -1 is its last index.
IsEntry(k, x, coll) ==
  CASE Kind(coll) = "object" -> ObjectGet(coll[2], k, Null) = x
    [] Kind(coll) = "array" /\ Kind(k) = "num" ->
         LET i == IF k[2] < 0 THEN Len(coll[2]) + k[2] ELSE k[2]
         IN i + 1 \in DOMAIN coll[2] /\ coll[2][i + 1] = x
    [] OTHER -> FALSE

Infix == [x \in {"==", "!=", "<", "<=", ">", ">=", "+", "-", "*", "%", "&", "|"} |->
  CASE x = "==" -> "equal" [] x = "!=" -> "neq" [] x = "<" -> "lt" [] x = "<=" -> "lte"
    [] x = ">" -> "gt" [] x = ">=" -> "gte" [] x = "+" -> "plus" [] x = "-" -> "minus"
    [] x = "*" -> "mul" [] x = "%" -> "rem" [] x = "&" -> "and" [] x = "|" -> "or"]

\* The built-ins that policies of this model call.
Registered == {"equal", "neq", "lt", "lte", "gt", "gte", "plus", "minus", "mul", "rem",
               "count", "sum", "max", "min", "union", "intersection", "and", "or", "set_diff",
               "numbers.range", "array.slice", "object.get", "object.keys", "object.union",
               "object.remove", "object.filter", "object.subset", "type_name", "graph.reachable",
               "internal.member_2", "internal.member_3"}

Apply(name, args) ==
  CASE name \in {"equal", "neq", "lt", "lte", "gt", "gte"} -> Compare(name, args[1], args[2])
    [] name \in {"plus", "minus", "mul", "rem"} -> Arithmetic(name, args[1], args[2])
    [] name \in {"count", "sum", "max", "min"} -> Aggregate(name, args[1])
    [] name = "union" -> UnionOf(args[1])
    [] name = "intersection" -> IntersectionOf(args[1])
    [] name \in {"and", "or", "set_diff"} -> SetOp(name, args[1], args[2])
    [] name = "numbers.range" -> NumbersRange(args[1][2], args[2][2])
    [] name = "array.slice" -> Array(Slice(args[1][2], args[2][2], args[3][2]))
    [] name = "object.union" -> Object(ObjectUnion(args))
    [] name = "object.remove" -> Object(ObjectRemove(args[1][2], args[2]))
    [] name = "object.filter" -> Object(ObjectFilter(args[1][2], args[2]))
    [] name = "object.subset" -> Bool(IsSubset(args[1], args[2]))
    [] name = "type_name" -> Str(TypeName(args[1]))
    [] name = "graph.reachable" -> SetOf(Reachable(args[1][2], args[2]))
    [] name = "object.get" -> ObjectGet(args[1][2], args[2], args[3])
    [] name = "object.keys" -> SetOf(DOMAIN args[1][2])
    [] name = "internal.member_2" -> Bool(IsMember(args[1], args[2]))
    [] name = "internal.member_3" -> Bool(IsEntry(args[1], args[2], args[3]))
=============================================================================
