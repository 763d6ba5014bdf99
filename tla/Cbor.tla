-------------------------------- MODULE Cbor --------------------------------
(***************************************************************************)
(* Values on their way through the generated CBOR methods: what one node   *)
(* writes to a datastore or a stream, and what it or another node, perhaps *)
(* of another version, reads.  An encoding is a sequence of items          *)
(* <<major type, argument>>; strings, links and the values of other        *)
(* modules are one item each.  A pointer, an amount and a Deferred are <<>> *)
(* when nil.                                                               *)
(***************************************************************************)
EXTENDS Integers, Sequences, SequencesExt

CONSTANTS
    Marshaler,  \* by type: "map" or "array", the count and the fields written
    MapReader,  \* by type that is a map: the kinds of the fields, by name
    TupleReader,\* by type that is a tuple: the count and the fields read
    FieldsOf,   \* by type: the kinds of all fields, the unwritten ones too
    Half,       \* 2^63: the integers are -Half..Half-1 and 0..2*Half-1
    MaxLength,  \* cbg.MaxLength, for lists
    TooLong,    \* a string longer than cbg.MaxLength or cbg.ByteArrayMaxLen
    Values,     \* the values of each type that are written
    Evolving,   \* those of them that a node of another version writes
    Unknown     \* encodings of a field that the reader does not know

ASSUME CborAssumption == Half \in Nat \ {0} /\ MaxLength \in Nat

VARIABLES
    type, val,  \* what is written
    wire,       \* its encoding
    at,         \* "memory", "wire", "refused" or "read"
    writer,     \* the version that wrote it: "none" yet, "same" or "other"
    lost,       \* the fields that the other version does not write
    cut,        \* whether the stream ended early
    got,        \* the result of UnmarshalCBOR: res, v and the rest of the wire
    offers      \* what handleOffer gave to the receiver, with PeekOfferID's result

vars == <<type, val, wire, at, writer, lost, cut, got, offers>>

Null == <<"other", 22>>
Error == <<"error", 0>>
Item(maj, arg) == << <<maj, arg>> >>
StringItem(maj, s) == IF s = TooLong THEN <<Error>> ELSE Item(maj, s)

StructKind(T) == <<"struct", T>>

RECURSIVE Zero(_)
Zero(kind) ==
    CASE kind[1] \in {"uint", "int"} -> 0
      [] kind[1] = "bool" -> FALSE
      [] kind[1] \in {"text", "bytes", "cid", "address", "ext"} -> ""
      [] kind[1] = "struct" -> [f \in DOMAIN FieldsOf[kind[2]] |-> Zero(FieldsOf[kind[2]][f])]
      [] OTHER -> <<>>
-----------------------------------------------------------------------------
WriteInt(v) == IF v >= 0 THEN Item("uint", v) ELSE Item("neg", -v - 1)

\* MarshalCBOR of a field, of the elements of a list and of the fields of a
\* struct from the i-th on.  A Cid or an address that is not defined is an
\* error.
RECURSIVE Write(_, _)
RECURSIVE WriteList(_, _, _)
RECURSIVE WriteFields(_, _, _)

Write(kind, v) ==
    CASE kind[1] = "uint" -> Item("uint", v)
      [] kind[1] = "int" -> WriteInt(v)
      [] kind[1] = "bool" -> Item("other", IF v THEN 21 ELSE 20)
      [] kind[1] \in {"text", "bytes"} -> StringItem(kind[1], v)
      [] kind[1] \in {"cid", "address"} -> IF v = "" THEN <<Error>> ELSE Item(kind[1], v)
      [] kind[1] = "ext" -> Item("ext", v)
      [] kind[1] = "big" -> Item("big", IF v = <<>> THEN 0 ELSE v[1])
      [] kind[1] = "any" -> IF v = <<>> THEN <<Null>> ELSE v[1]
      [] kind[1] = "ptr" -> IF v = <<>> THEN <<Null>> ELSE Write(kind[2], v[1])
      [] kind[1] = "list" ->
           IF Len(v) > MaxLength THEN <<Error>>
           ELSE Item("array", Len(v)) \o WriteList(kind[2], 1, v)
      [] kind[1] = "struct" ->
           Item(Marshaler[kind[2]].as, Marshaler[kind[2]].n) \o WriteFields(kind[2], 1, v)

WriteList(kind, i, vs) ==
    IF i > Len(vs) THEN <<>> ELSE Write(kind, vs[i]) \o WriteList(kind, i + 1, vs)

WriteFields(T, i, v) ==
    IF i > Len(Marshaler[T].fields) THEN <<>>
    ELSE LET f == Marshaler[T].fields[i]
         IN  (IF Marshaler[T].as = "map" THEN Item("text", f[1]) ELSE <<>>)
               \o Write(f[2], v[f[1]]) \o WriteFields(T, i + 1, v)

\* cbg.ScanForLinks: reads until no item is owed; an error is not looked at.
Owed(item) ==
    CASE item[1] = "array" -> item[2] [] item[1] = "map" -> 2 * item[2] [] OTHER -> 0

RECURSIVE Scan(_, _)
Scan(owed, w) ==
    IF owed = 0 \/ w = <<>> THEN w ELSE Scan(owed - 1 + Owed(Head(w)), Tail(w))

\* Mutant: only the header of the unknown value is skipped.
MutSkip(w) == IF w = <<>> THEN w ELSE Tail(w)

Skip(w) == Scan(1, w)
-----------------------------------------------------------------------------
Done(v, rest) == [res |-> "ok", v |-> v, rest |-> rest]
Failed(res, v) == [res |-> res, v |-> v, rest |-> <<>>]

\* int64: the argument must not have the sign bit set.
ReadInt(item, rest) ==
    CASE item[1] \notin {"uint", "neg"} \/ item[2] >= Half -> Failed("bad", 0)
      [] item[1] = "uint" -> Done(item[2], rest)
      [] item[1] = "neg" -> Done(-1 - item[2], rest)

\* cbg.ReadStringBuf: a text string.
ReadString(w) ==
    IF w = <<>> THEN Failed("eof", "")
    ELSE IF w[1][1] # "text" THEN Failed("bad", "")
    ELSE Done(w[1][2], Tail(w))

\* A field of the struct t was read, or there was an error.
SetField(t, name, field) ==
    IF field.res = "ok" THEN Done([t EXCEPT ![name] = field.v], field.rest)
    ELSE Failed(field.res, t)

\* UnmarshalCBOR of a field, of the elements of a list and of the fields of a
\* struct.  The result holds what was read before an error; "eof" is an error
\* that wraps io.EOF.
RECURSIVE Read(_, _)
RECURSIVE ReadList(_, _, _)
RECURSIVE ReadTuple(_, _, _)
RECURSIVE ReadMap(_, _, _)

ReadItem(kind, item, rest) ==
    CASE kind[1] = "int" -> ReadInt(item, rest)
      [] kind[1] = "bool" ->
           IF item \in {<<"other", 20>>, <<"other", 21>>} THEN Done(item[2] = 21, rest)
           ELSE Failed("bad", FALSE)
      [] kind[1] = "big" ->
           IF item[1] = "big" THEN Done(<<item[2]>>, rest) ELSE Failed("bad", <<>>)
      [] kind[1] = "list" ->
           IF item[1] = "array" /\ item[2] <= MaxLength
           THEN ReadList(kind[2], item[2], Done(<<>>, rest)) ELSE Failed("bad", <<>>)
      [] kind[1] = "struct" /\ kind[2] \in DOMAIN MapReader ->
           IF item[1] = "map" THEN ReadMap(kind[2], item[2], Done(Zero(kind), rest))
           ELSE Failed("bad", Zero(kind))
      [] kind[1] = "struct" /\ kind[2] \in DOMAIN TupleReader ->
           IF item = <<"array", TupleReader[kind[2]].n>>
           THEN ReadTuple(TupleReader[kind[2]].fields, 1, Done(Zero(kind), rest))
           ELSE Failed("bad", Zero(kind))
      [] kind[1] \in {"text", "bytes"} ->
           IF item[1] = kind[1] /\ item[2] # TooLong THEN Done(item[2], rest)
           ELSE Failed("bad", "")
      [] OTHER -> IF item[1] = kind[1] THEN Done(item[2], rest) ELSE Failed("bad", "")

Read(kind, w) ==
    CASE w = <<>> -> Failed("eof", "")
      [] w # <<>> /\ kind[1] = "any" ->
           Done(<<SubSeq(w, 1, Len(w) - Len(Scan(1, w)))>>, Scan(1, w))
      [] w # <<>> /\ kind[1] = "ptr" ->
           IF w[1] = Null THEN Done(<<>>, Tail(w))
           ELSE [Read(kind[2], w) EXCEPT !.v = <<@>>]
      [] OTHER -> ReadItem(kind, w[1], Tail(w))

\* What is left to do after the part in acc: n elements, the fields from the
\* i-th on, n entries.
ReadList(kind, n, acc) ==
    LET Element(vs, e) ==
          IF e.res = "ok" THEN Done(Append(vs, e.v), e.rest) ELSE Failed(e.res, vs)
    IN  IF n = 0 \/ acc.res # "ok" THEN acc
        ELSE ReadList(kind, n - 1, Element(acc.v, Read(kind, acc.rest)))

ReadTuple(fields, i, acc) ==
    IF i > Len(fields) \/ acc.res # "ok" THEN acc
    ELSE ReadTuple(fields, i + 1,
                   SetField(acc.v, fields[i][1], Read(fields[i][2], acc.rest)))

ReadMap(T, n, acc) ==
    LET Entry(t, name) ==
          CASE name.res # "ok" -> Failed(name.res, t)
            [] name.res = "ok" /\ name.v \in DOMAIN MapReader[T] ->
                 SetField(t, name.v, Read(MapReader[T][name.v], name.rest))
            [] OTHER -> Done(t, Skip(name.rest))
    IN  IF n = 0 \/ acc.res # "ok" THEN acc
        ELSE ReadMap(T, n - 1, Entry(acc.v, ReadString(acc.rest)))
-----------------------------------------------------------------------------
\* The loop of PeekOfferID: reads names and skips the values, but the one of
\* "ID".  The items that are read are copied.
RECURSIVE PeekFields(_, _)
PeekFields(n, acc) ==
    LET Entry(id, name) ==
          CASE name.res = "ok" /\ name.v = "ID" -> ReadString(name.rest)
            [] name.res = "ok" /\ name.v # "ID" -> Done(id, Scan(1, name.rest))
            [] OTHER -> name
    IN  IF n = 0 \/ acc.res # "ok" THEN acc
        ELSE PeekFields(n - 1, Entry(acc.v, ReadString(acc.rest)))

\* Mutant: stops at the ID, which MarshalCBOR writes first.
MutPeekOfferID(w) ==
    IF w = <<>> THEN Failed("eof", "") ELSE PeekFields(1, Done("", Tail(w)))

PeekOfferID(w) ==
    IF w = <<>> THEN Failed("eof", "") ELSE PeekFields(w[1][2], Done("", Tail(w)))

\* marshallChannelInfo puts an address where there is none, in the record of
\* the caller, and unmarshallChannelInfo removes it.
EmptyAddr == "empty"
MarshallChannelInfo(ci) ==
    IF ci.Channel = <<>> THEN [ci EXCEPT !.Channel = <<EmptyAddr>>] ELSE ci

UnmarshallChannelInfo(ci) ==
    IF ci.Channel = <<EmptyAddr>> THEN [ci EXCEPT !.Channel = <<>>] ELSE ci

Copied(w) == SubSeq(w, 1, Len(w) - Len(PeekOfferID(w).rest))

Init ==
    /\ type \in DOMAIN Marshaler
    /\ val \in Values[type]
    /\ wire = <<>> /\ at = "memory" /\ writer = "none" /\ lost = {} /\ cut = FALSE
    /\ got = Done(Zero(StructKind(type)), <<>>) /\ offers = <<>>

\* The encoding is written unless MarshalCBOR returned an error.
Sent(w) ==
    /\ wire' = w
    /\ at' = IF Error \in Range(wire') THEN "refused" ELSE "wire"

Marshal ==
    /\ at = "memory"
    /\ \E v \in {IF type = "ChannelInfo" THEN MarshallChannelInfo(val) ELSE val} :
         val' = v /\ Sent(Write(StructKind(type), v))
    /\ writer' = "same"
    /\ UNCHANGED <<type, lost, cut, got, offers>>

\* The writer has another version of a type that is a map: it writes the
\* fields in another order, lacks one or has one more.
OtherVersion ==
    /\ at = "memory" /\ type \in DOMAIN MapReader /\ val \in Evolving[type]
    /\ LET fields == Marshaler[type].fields
           n == Len(fields)
           entries == [i \in 1..n |-> Item("text", fields[i][1])
                                        \o Write(fields[i][2], val[fields[i][1]])]
           SentMap(es) == Sent(Item("map", Len(es)) \o FlattenSeq(es))
       IN  \E i \in 1..n :
             \/ /\ SentMap(SubSeq(entries, i, n) \o SubSeq(entries, 1, i - 1))
                /\ UNCHANGED lost
             \/ /\ SentMap(RemoveAt(entries, i))
                /\ lost' = {fields[i][1]}
             \/ /\ \E u \in Unknown :
                     SentMap(InsertAt(entries, i, Item("text", "Unknown") \o u))
                /\ UNCHANGED lost
    /\ writer' = "other"
    /\ UNCHANGED <<type, val, cut, got, offers>>

\* The stream of an offer ends before all of it is written.
EndEarly ==
    /\ at = "wire" /\ type = "Offer" /\ ~cut
    /\ \E k \in 0..Len(wire) - 1 : wire' = SubSeq(wire, 1, k)
    /\ cut' = TRUE
    /\ UNCHANGED <<type, val, at, writer, lost, got, offers>>

\* handleOffer at a node that did not publish the query: what PeekOfferID has
\* copied is written to the next node, or nothing.
Forward ==
    /\ at = "wire" /\ type = "Offer"
    /\ IF PeekOfferID(wire).res = "ok"
       THEN wire' = Copied(wire) /\ UNCHANGED at
       ELSE at' = "refused" /\ UNCHANGED wire
    /\ UNCHANGED <<type, val, writer, lost, cut, got, offers>>

\* handleOffer at the node that published it: an offer that ends early is
\* not an error.
HandleOffer ==
    /\ at = "wire" /\ type = "Offer" /\ offers = <<>>
    /\ LET id == PeekOfferID(wire)
           r == Read(StructKind("Offer"), Copied(wire))
       IN  IF id.res = "ok" /\ r.res \in {"ok", "eof"}
           THEN /\ offers' = << [offer |-> r.v, id |-> id.v] >>
                /\ at' = "read"
           ELSE at' = "refused" /\ UNCHANGED offers
    /\ UNCHANGED <<type, val, wire, writer, lost, cut, got>>

Unmarshal ==
    /\ at = "wire" /\ type # "Offer"
    /\ got' = LET r == Read(StructKind(type), wire) IN
              IF type = "ChannelInfo" /\ r.res = "ok"
              THEN [r EXCEPT !.v = UnmarshallChannelInfo(@)] ELSE r
    /\ at' = "read"
    /\ UNCHANGED <<type, val, wire, writer, lost, cut, offers>>

Next ==
    Marshal \/ OtherVersion \/ EndEarly \/ Forward \/ HandleOffer \/ Unmarshal

Spec == Init /\ [][Next]_vars
-----------------------------------------------------------------------------
\* What a value is after it was stored and loaded: an amount that was nil is
\* 0, a Deferred that was nil holds null, a field that is not written is zero.
Written(T) == {f[1] : f \in Range(Marshaler[T].fields)}

RECURSIVE Loaded(_, _)
Loaded(kind, v) ==
    CASE kind[1] = "big" /\ v = <<>> -> <<0>>
      [] kind[1] = "any" /\ v = <<>> -> << <<Null>> >>
      [] kind[1] \in {"ptr", "list"} -> [i \in DOMAIN v |-> Loaded(kind[2], v[i])]
      [] kind[1] = "struct" ->
           [f \in DOMAIN v |-> IF f \in Written(kind[2]) THEN Loaded(FieldsOf[kind[2]][f], v[f])
                                ELSE Zero(FieldsOf[kind[2]][f])]
      [] OTHER -> v

\* Every type is read the way it is written: a value that MarshalCBOR accepts
\* comes back field by field with nothing left over, a channel without an
\* address still without one, and is then written with the same encoding
\* again, so that records that are loaded and stored many times do not drift
\* (the MarshalCBOR and UnmarshalCBOR methods, marshallChannelInfo).
RoundTrip ==
    at = "read" /\ type # "Offer" /\ writer = "same" =>
        LET loaded == Loaded(StructKind(type), val)
        IN  /\ got.res = "ok" /\ got.rest = <<>>
            /\ IF type = "ChannelInfo"
               THEN /\ got.v = [loaded EXCEPT !.Channel = SelectSeq(@, LAMBDA a : a # EmptyAddr)]
                    /\ Write(StructKind(type), MarshallChannelInfo(got.v)) = wire
               ELSE got.v = loaded /\ Write(StructKind(type), got.v) = wire

\* A node reads what a node of another version writes: fields in any order,
\* with unknown ones skipped whatever they hold and missing ones zero
\* (the default case of the UnmarshalCBOR methods, cbg.ScanForLinks).
ReadsOtherVersions ==
    at = "read" /\ type \in DOMAIN MapReader \ {"Offer"} =>
        /\ got.res = "ok" /\ got.rest = <<>>
        /\ \A f \in DOMAIN FieldsOf[type] :
             got.v[f] = IF f \in lost THEN Zero(FieldsOf[type][f])
                        ELSE Loaded(FieldsOf[type][f], val[f])

\* Over any number of relays an offer arrives as it was sent, and is matched
\* with its query by the ID it holds; one whose stream ended early is dropped
\* or, because handleOffer accepts io.EOF, lacks one field: the last
\* (routing.go: PeekOfferID, handleOffer).
OfferArrives ==
    type = "Offer" =>
        /\ at = "refused" => cut \/ Error \in Range(wire)
        /\ at = "read" =>
             LET Kept(f) ==
                   offers[1].offer[f] = IF f \in lost THEN Zero(FieldsOf[type][f])
                                        ELSE Loaded(FieldsOf[type][f], val[f])
             IN  /\ offers[1].id = offers[1].offer["ID"]
                 /\ \A f, g \in DOMAIN val : Kept(f) \/ (cut /\ (Kept(g) \/ f = g))
=============================================================================
