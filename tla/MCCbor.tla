------------------------------- MODULE MCCbor -------------------------------
(***************************************************************************)
(* An instance of Cbor for TLC: of each type the zero value and a full     *)
(* one, and each of them with one field set to every value of its kind.    *)
(* A node of another version writes the full one.                          *)
(***************************************************************************)
EXTENDS Cbor, WireTypes

MCFieldsOf ==
    [T \in DOMAIN WireWriters |->
        LET fields == Range(WireWriters[T].fields)
            written == [f \in {x[1] : x \in fields} |-> (CHOOSE x \in fields : x[1] = f)[2]]
        IN  IF T \in DOMAIN WireUnwritten THEN written @@ WireUnwritten[T] ELSE written]

Strings == {"", "s", TooLong}
Links == {"", "c"}
MCUnknown ==
    {Item("uint", 1), Item("array", 2) \o Item("cid", "c") \o Item("text", "ID"),
     Item("map", 1) \o Item("text", "ID") \o Item("array", 0)}

RECURSIVE Full(_)
Full(kind) ==
    CASE kind[1] \in {"uint", "int"} -> 2
      [] kind[1] = "bool" -> TRUE
      [] kind[1] \in {"text", "bytes", "cid", "address", "ext"} -> "full"
      [] kind[1] = "big" -> <<2>>
      [] kind[1] = "any" -> << Item("map", 1) \o Item("text", "a") \o Item("uint", 1) >>
      [] kind[1] \in {"ptr", "list"} -> << Full(kind[2]) >>
      [] kind[1] = "struct" -> [f \in DOMAIN FieldsOf[kind[2]] |-> Full(FieldsOf[kind[2]][f])]

RECURSIVE Some(_)
Some(kind) ==
    CASE kind[1] = "uint" -> {0, 1, 2 * Half - 1}
      [] kind[1] = "int" -> {-Half, -1, 0, Half - 1}
      [] kind[1] = "bool" -> BOOLEAN
      [] kind[1] \in {"text", "bytes"} -> Strings
      [] kind[1] \in {"cid", "address"} -> Links
      [] kind[1] = "ext" -> {"x"}
      [] kind[1] = "big" -> {<<>>, <<0>>, <<1>>}
      [] kind[1] = "any" -> {<<>>, << <<Null>> >>, << Item("uint", 1) >>}
      [] kind[1] = "ptr" -> {<<>>} \cup {<<v>> : v \in Some(kind[2])}
      [] kind[1] = "list" ->
           {[i \in 1..n |-> Full(kind[2])] : n \in 0..MaxLength + 1}
             \cup {<<v>> : v \in Some(kind[2])}
      [] kind[1] = "struct" -> {Zero(kind), Full(kind)}

MCValues ==
    [T \in DOMAIN Marshaler |->
        {Full(Struct(T))} \cup {[base EXCEPT ![x[1]] = x[2]] : base \in {Zero(Struct(T)), Full(Struct(T))},
          x \in UNION {{f} \X Some(FieldsOf[T][f]) : f \in DOMAIN FieldsOf[T]}}]

MCEvolving == [T \in DOMAIN Marshaler |-> {Full(Struct(T))}]
=============================================================================
