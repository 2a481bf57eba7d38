--------------------------------- MODULE Configs ---------------------------------
(***************************************************************************)
(* What config.ts describes and configProvider.ts loads.  A Config is a       *)
(* record with the tag of config.ts; a part of a path is a name with an index *)
(* (Plain if it has none, and the name is "" in "[3]"); a text is the         *)
(* sequence of the pieces between its delimiters; a value carries its kind.   *)
(* An Either or the exit of a load is [ok, value] or [ok, error]; messages    *)
(* and descriptions are left out.                                             *)
(*                                                                         *)
(* The specification loads configs from small providers.  The input is a      *)
(* provider (a map, or the environment), what wraps it, and a config; the     *)
(* result is what the load comes to, and what the same config gives with its  *)
(* names nested in the config instead of the provider.                        *)
(***************************************************************************)
EXTENDS Integers, Sequences, SequencesExt, FiniteSets, TLC

CONSTANT SeqDelim      \* the piece of a text that delimits it

VARIABLES
  input,
  result

vars == <<input, result>>

Right(value) == [ok |-> TRUE, value |-> value]
Left(error)  == [ok |-> FALSE, error |-> error]

\* The values of all, or the first error (core.forEachSequential).
forEachSequential(s, f) ==
  LET each == [i \in DOMAIN s |-> f[s[i]]]
      bad  == {i \in DOMAIN s : ~each[i].ok}
  IN IF bad = {} THEN Right([i \in DOMAIN s |-> each[i].value])
     ELSE each[CHOOSE i \in bad : \A j \in bad : i <= j]

Then(self, f) == IF self.ok THEN f[self.value] ELSE self
----------------------------------------------------------------------------
(* Errors (configError.ts).                                                *)

And(self, that) == [tag |-> "And", left |-> self, right |-> that]
Or(self, that) == [tag |-> "Or", left |-> self, right |-> that]
InvalidData(path) == [tag |-> "InvalidData", path |-> path]
MissingData(path) == [tag |-> "MissingData", path |-> path]
Unsupported(path) == [tag |-> "Unsupported", path |-> path]

RECURSIVE prefixed(_, _)
prefixed(self, prefix) ==
  IF self.tag \in {"And", "Or"}
  THEN [self EXCEPT !.left = prefixed(@, prefix), !.right = prefixed(@, prefix)]
  ELSE [self EXCEPT !.path = prefix \o @]

\* A reducer gives what comes of the two sides of an And and an Or, and of the tag of a leaf.
RECURSIVE reduceWithContext(_, _)
reduceWithContext(self, reducer) ==
  CASE self.tag = "And" ->
         reducer.andCase[reduceWithContext(self.left, reducer), reduceWithContext(self.right, reducer)]
    [] self.tag = "Or" ->
         reducer.orCase[reduceWithContext(self.left, reducer), reduceWithContext(self.right, reducer)]
    [] OTHER -> reducer.leaf[self.tag]

bothSides                == [left, right \in BOOLEAN |-> left /\ right]
eitherSide               == [left, right \in BOOLEAN |-> left \/ right]
missingOnly              == [tag \in {"InvalidData", "MissingData", "Unsupported"} |-> tag = "MissingData"]
IsMissingDataOnlyReducer == [andCase |-> bothSides, orCase |-> bothSides, leaf |-> missingOnly]

isMissingOfSome(self)   == reduceWithContext(self, [IsMissingDataOnlyReducer EXCEPT !.orCase = eitherSide])
isMissingDataOnly(self) == reduceWithContext(self, IsMissingDataOnlyReducer)
----------------------------------------------------------------------------
(* Configs (config.ts).  f names a function that mapOrFail or zipWith calls. *)

Constant(value)   == [tag |-> "Constant", value |-> value]
Described(config) == [tag |-> "Described", config |-> config]
Fail              == [tag |-> "Fail"]
Fallback(first, second, condition) ==
  [tag |-> "Fallback", first |-> first, second |-> second, condition |-> condition]
Lazy(config)           == [tag |-> "Lazy", config |-> config]
mapOrFail(self, f)     == [tag |-> "MapOrFail", original |-> self, f |-> f]
nested(self, name)     == [tag |-> "Nested", name |-> name, config |-> self]
primitive(parse)       == [tag |-> "Primitive", parse |-> parse]
repeat(self)           == [tag |-> "Sequence", config |-> self]
Table(config)          == [tag |-> "Table", valueConfig |-> config]
zipWith(self, that, f) == [tag |-> "ZipWith", left |-> self, right |-> that, f |-> f]

Named(config, name) == IF name = <<>> THEN config ELSE nested(config, name[1])

succeed(value)                  == Constant(value)
suspend(config)                 == Lazy(config)
sync(value)                     == suspend(succeed(value))
withDescription(self)           == Described(self)
map(self, f)                    == mapOrFail(self, f)
mapAttempt(self, f)             == mapOrFail(self, f)
validate(self, f)               == mapOrFail(self, f)
orElseIf(self, that, condition) == Fallback(self, suspend(that), condition)
orElse(self, that)              == orElseIf(self, that, "always")
optional(self)                  == orElseIf(map(self, "some"), succeed(<<"option">>), "isMissingDataOnly")
withDefault(self, def)          == orElseIf(self, succeed(def), "isMissingDataOnly")
zip(self, that)                 == zipWith(self, that, "pair")

bool(name)            == Named(primitive("boolean"), name)
date(name)            == Named(primitive("date"), name)
float(name)           == Named(primitive("float"), name)
integer(name)         == Named(primitive("integer"), name)
secret(name)          == Named(primitive("secret"), name)
string(name)          == Named(primitive("string"), name)
logLevel(name)        == Named(mapOrFail(string(<<>>), "logLevel"), name)
chunkOf(config, name) == map(Named(repeat(config), name), "chunk")
arrayOf(config, name) == map(chunkOf(config, name), "array")
setOf(config, name)   == Named(map(chunkOf(config, <<>>), "set"), name)
table(config, name)   == Named(Table(config), name)

\* The first as a list of one, then each that follows appended to it.
Listed(configs) ==
  FoldLeft(LAMBDA sofar, config : zipWith(sofar, config, "append"), map(configs[1], "single"), Tail(configs))

tuple(configs) == IF configs = <<>> THEN succeed(<<"list", <<>>>>) ELSE Listed(configs)
\* entries are <<key, config>>; the record is the list of its values, in the order of the keys.
struct(entries) == Listed([i \in DOMAIN entries |-> entries[i][2]])
all(configs)    == IF Len(configs) = 1 THEN map(configs[1], "single") ELSE tuple(configs)
\* A config, or the entries of a record of wrapped configs.
RECURSIVE unwrap(_)
unwrap(wrapped) ==
  IF wrapped[1] = "config" THEN wrapped[2]
  ELSE struct([i \in DOMAIN wrapped[2] |-> <<wrapped[2][i][1], unwrap(wrapped[2][i][2])>>])
----------------------------------------------------------------------------
(* What the functions of a config do.                                      *)

Yes    == {"true", "yes", "on", "1"}
No     == {"false", "no", "off", "0"}
Digits == [d \in {"0", "1", "2"} |-> IF d = "0" THEN 0 ELSE IF d = "1" THEN 1 ELSE 2]
\* The labels of core.allLogLevels, as toUpperCase gives them.
Labels == [All |-> "ALL", Fatal |-> "FATAL", Error |-> "ERROR", Warn |-> "WARN", Info |-> "INFO",
           Debug |-> "DEBUG", Trace |-> "TRACE", Off |-> "OFF"]

\* parseInt and parseFloat read as much of the beginning as is a number.
Parsed(parse, text) ==
  LET first == IF text = <<>> THEN "" ELSE text[1] IN
  CASE parse \in {"string", "secret"} -> Right(<<parse, text>>)
    [] parse = "boolean" /\ Len(text) = 1 /\ first \in Yes \cup No -> Right(<<parse, first \in Yes>>)
    [] parse \in {"integer", "float"} /\ first \in DOMAIN Digits -> Right(<<parse, Digits[first]>>)
    [] parse = "date" /\ Len(text) = 1 /\ first = "2" -> Right(<<parse, first>>)
    [] OTHER -> Left(InvalidData(<<>>))

Mapped(f, a) ==
  CASE f = "some"   -> Right(<<"option", a>>)
    [] f = "single" -> Right(<<"list", <<a>>>>)
    [] f \in {"chunk", "array"} -> Right(<<"list", a[2]>>)
    [] f = "set"    -> Right(<<"set", ToSet(a[2])>>)
    [] f = "positive" /\ a[2] > 0 -> Right(a)                             \* a validate
    [] f = "throwing" /\ a[2] # 0 -> Right(a)                             \* a mapAttempt
    [] f = "logLevel" /\ Len(a[2]) = 1 /\ a[2][1] \in DOMAIN Labels -> Right(<<f, Labels[a[2][1]]>>)
    [] OTHER -> Left(InvalidData(<<>>))

Zipped(f, left, right) ==
  IF f = "pair" THEN <<"pair", <<left, right>>>> ELSE <<"list", Append(left[2], right)>>

Holds(condition, error) == condition = "always" \/ isMissingDataOnly(error)
----------------------------------------------------------------------------
(* Paths and their patches (configProvider/pathPatch.ts).                  *)

Plain         == 0 - 1
Part(name)    == [name |-> name, index |-> Plain]
Quoted(index) == [name |-> "", index |-> index]

toUpperCase(part) ==
  [part EXCEPT !.name = CASE @ = "a" -> "A" [] @ = "b" -> "B" [] OTHER -> @]
toLowerCase(part) ==
  [part EXCEPT !.name = CASE @ = "A" -> "a" [] @ = "B" -> "b" [] OTHER -> @]
Renamed(f, part) == IF f \in {"constantCase", "upperCase"} THEN toUpperCase(part) ELSE toLowerCase(part)

Empty                     == [tag |-> "Empty"]
andThen(self, that)       == [tag |-> "AndThen", first |-> self, second |-> that]
mapName(self, f)          == andThen(self, [tag |-> "MapName", f |-> f])
nestedPatch(self, name)   == andThen(self, [tag |-> "Nested", name |-> name])
unnestedPatch(self, name) == andThen(self, [tag |-> "Unnested", name |-> name])

RECURSIVE patch(_, _)
RECURSIVE patchOuter(_, _)
\* The outer patch before the inner one.
patchOuter(path, p) ==
  CASE p.tag = "AndThen" -> Then(patchOuter(path, p.second), [output \in Any |-> patchOuter(output, p.first)])
    [] p.tag = "Empty"   -> Right(path)
    [] p.tag = "MapName" -> Right([i \in DOMAIN path |-> Renamed(p.f, path[i])])
    [] p.tag = "Nested"  -> Right(<<Part(p.name)>> \o path)
    [] OTHER -> IF path # <<>> /\ path[1] = Part(p.name) THEN Right(Tail(path)) ELSE Left(MissingData(path))
patch(path, p) ==
  CASE p.tag = "Empty"   -> Right(path)
    [] p.tag = "AndThen" -> Then(patch(path, p.first), [output \in Any |-> patch(output, p.second)])
    [] p.tag = "MapName" -> Right([i \in DOMAIN path |-> Renamed(p.f, path[i])])
    [] p.tag = "Nested"  -> Right(<<Part(p.name)>> \o path)
    [] p.tag = "Unnested" /\ path # <<>> /\ path[1] = Part(p.name) -> Right(Tail(path))
    [] OTHER -> Left(MissingData(path))
----------------------------------------------------------------------------
(* Providers.  A flat provider is [load, patch]; load is a source of texts,   *)
(* or the flat providers that load and enumerateChildren delegate to.         *)

makeFlat(load, p) == [load |-> load, patch |-> p]

\* A text on its own, or each of its pieces between the delimiters.
Pieces(text) ==
  LET cut[i \in 0..Len(text)] ==
        IF i = 0 THEN <<<<>>>>
        ELSE IF text[i] = SeqDelim THEN Append(cut[i - 1], <<>>)
        ELSE [cut[i - 1] EXCEPT ![Len(cut[i - 1])] = Append(@, text[i])]
  IN cut[Len(text)]

parsePrimitive(text, path, config, split) ==
  LET texts == IF split THEN Pieces(text) ELSE <<text>>
      parsed == forEachSequential(texts, [t \in Any |-> Parsed(config.parse, t)])
  IN IF parsed.ok THEN parsed ELSE Left(prefixed(parsed.error, path))

loadText(texts, path, config, split) ==
  IF path \in DOMAIN texts THEN parsePrimitive(texts[path], path, config, split)
  ELSE Left(MissingData(path))

childrenOf(paths, path) ==
  {keyPath[Len(path) + 1] : keyPath \in {k \in paths : Len(k) > Len(path) /\ IsPrefix(path, k)}}

\* A key "name[3]" is the two parts "name" and "[3]" of a path.
splitIndexFrom(part) ==
  IF part.name # "" /\ part.index # Plain THEN <<Part(part.name), Quoted(part.index)>> ELSE <<part>>
splitIndexInKeys(texts) ==
  LET split(path) == FlattenSeq([i \in DOMAIN path |-> splitIndexFrom(path[i])])
      paths == {split(path) : path \in DOMAIN texts}
  IN [p \in paths |-> texts[CHOOSE path \in DOMAIN texts : split(path) = p]]

fromMap(texts) == makeFlat([tag |-> "map", texts |-> splitIndexInKeys(texts)], Empty)
fromEnv(texts) == makeFlat([tag |-> "env", texts |-> texts], Empty)

mapInputPath(self, f)        == makeFlat(self.load, mapName(self.patch, f))
nestedProvider(self, name)   == makeFlat([tag |-> "always split", flat |-> self], nestedPatch(self.patch, name))
unnestedProvider(self, name) == makeFlat([tag |-> "always split", flat |-> self], unnestedPatch(self.patch, name))
orElseFlat(self, that)       == makeFlat([tag |-> "orElse", self |-> self, that |-> that], Empty)
within(self, path, f) ==
  orElseFlat(FoldRight(LAMBDA name, provider : nestedProvider(provider, name), path,
                       f[FoldLeft(LAMBDA provider, name : unnestedProvider(provider, name), self, path)]), self)

RECURSIVE load(_, _, _, _)
load(source, path, config, split) ==
  CASE source.tag \in {"map", "env"} -> loadText(source.texts, path, config, split)
    [] source.tag = "always split" -> load(source.flat.load, path, config, TRUE)
    [] source.tag = "orElse" ->
         LET tried(flat) == Then(patch(path, flat.patch), [p \in Any |-> load(flat.load, p, config, split)])
             first  == tried(source.self)
             second == tried(source.that)
         IN IF first.ok THEN first ELSE IF second.ok THEN second ELSE Left(Or(first.error, second.error))

RECURSIVE enumerateChildren(_, _)
enumerateChildren(source, path) ==
  CASE source.tag = "map" -> Right(childrenOf(DOMAIN source.texts, path))
    [] source.tag = "env" ->
         Right(childrenOf({[i \in DOMAIN k |-> toUpperCase(k[i])] : k \in DOMAIN source.texts}, path))
    [] source.tag = "always split" -> enumerateChildren(source.flat.load, path)
    [] source.tag = "orElse" ->
         LET tried(flat) == Then(patch(path, flat.patch), [p \in Any |-> enumerateChildren(flat.load, p)])
             left  == tried(source.self)
             right == tried(source.that)
         IN CASE left.ok /\ right.ok -> Right(left.value \cup right.value)
              [] left.ok  -> left
              [] right.ok -> right
              [] OTHER -> Left(And(left.error, right.error))
----------------------------------------------------------------------------
(* Loading (fromFlatLoop): the sequence of the values, one of each element.  *)

byNumber(m, n) == m < n

\* The indices in their order, or none if a child is not an index.
indicesFrom(children) ==
  IF \A child \in children : child.name = "" /\ child.index # Plain
  THEN SetToSortSeq({child.index : child \in children}, byNumber) ELSE <<>>

\* The shorter of two is filled up with failures, so that zipping fails there (extend).
extend(self, that, prefix) ==
  [i \in 1..(IF Len(self) < Len(that) THEN Len(that) ELSE Len(self)) |->
     IF i <= Len(self) THEN Right(self[i]) ELSE Left(MissingData(prefix))]

\* One row of each column of the first; what is too short has undefined there.
transpose(matrix) ==
  [column \in DOMAIN matrix[1] |-> [row \in DOMAIN matrix |->
     IF column \in DOMAIN matrix[row] THEN matrix[row][column] ELSE <<"undefined">>]]

\* Both sides are loaded; what is missing on one of them fails for the element it is of.
zipLoaded(left, right, f, prefix) ==
  CASE ~left.ok /\ ~right.ok -> Left(And(left.error, right.error))
    [] ~left.ok /\ right.ok  -> left
    [] left.ok /\ ~right.ok  -> right
    [] OTHER ->
         LET lefts  == extend(left.value, right.value, prefix)
             rights == extend(right.value, left.value, prefix)
         IN forEachSequential([i \in DOMAIN lefts |-> <<lefts[i], rights[i]>>], [pair \in Any |->
              Then(pair[1], [l \in Any |-> Then(pair[2], [r \in Any |-> Right(Zipped(f, l, r))])])])

RECURSIVE fromFlatLoop(_, _, _, _)
fromFlatLoop(flat, prefix, op, split) ==
  LET loop(config) == fromFlatLoop(flat, prefix, config, split) IN
  CASE op.tag = "Constant" -> Right(<<op.value>>)
    [] op.tag \in {"Described", "Lazy"} -> loop(op.config)
    [] op.tag = "Fail" -> Left(MissingData(prefix))
    [] op.tag = "Fallback" ->
         LET first  == loop(op.first)
             second == loop(op.second)
         IN CASE first.ok -> first
              [] ~first.ok /\ ~Holds(op.condition, first.error) -> first
              [] OTHER -> IF second.ok THEN second ELSE Left(Or(first.error, second.error))
    [] op.tag = "MapOrFail" ->
         Then(loop(op.original), [values \in Any |-> forEachSequential(values,
           [a \in Any |-> LET r == Mapped(op.f, a) IN IF r.ok THEN r ELSE Left(prefixed(r.error, prefix))])])
    [] op.tag = "Nested" -> fromFlatLoop(flat, Append(prefix, Part(op.name)), op.config, split)
    [] op.tag = "Primitive" -> Then(patch(prefix, flat.patch), [path \in Any |-> load(flat.load, path, op, split)])
    [] op.tag = "Sequence" ->
         Then(patch(prefix, flat.patch), [patched \in Any |->
           Then(enumerateChildren(flat.load, patched), [children \in Any |->
             LET indices == indicesFrom(children) IN
             IF indices = <<>>
             THEN Then(fromFlatLoop(flat, patched, op.config, TRUE),
                        [values \in Any |-> Right(<<<<"list", values>>>>)])
             ELSE Then(forEachSequential(indices, [index \in Any |->
                         fromFlatLoop(flat, Append(prefix, Quoted(index)), op.config, TRUE)]),
                       [chunks \in Any |-> Right(<<<<"list", FlattenSeq(chunks)>>>>)])])])
    [] op.tag = "Table" ->
         Then(patch(prefix, flat.patch), [patched \in Any |->
           Then(enumerateChildren(flat.load, patched), [children \in Any |->
             LET keys == SetToSeq(children) IN
             Then(forEachSequential(keys, [key \in Any |->
                    fromFlatLoop(flat, Append(patched, key), op.valueConfig, split)]),
                  [values \in Any |->
                    Right(IF values = <<>> THEN <<<<"table", {}>>>>
                          ELSE LET rows == transpose(values) IN
                               [i \in DOMAIN rows |->
                                  <<"table", {<<keys[j], rows[i][j]>> : j \in DOMAIN keys}>>])])])])
    [] op.tag = "ZipWith" -> zipLoaded(loop(op.left), loop(op.right), op.f, prefix)

\* The one value of a structure (fromFlat).
loadConfig(flat, config) ==
  Then(fromFlatLoop(flat, <<>>, config, FALSE),
       [values \in Any |-> IF values = <<>> THEN Left(MissingData(<<>>)) ELSE Right(values[1])])
----------------------------------------------------------------------------
NotYet == [exit |-> "running"]
----------------------------------------------------------------------------
(* Inputs.                                                                 *)

Names == {"a", "b"}
Texts == {<<"1">>, <<"x">>}
Plains == {<<Part("a")>>, <<Part("b")>>}

\* Two names, perhaps under another, with a text that may be malformed or delimited.
PlainSources ==
  LET under == {<<>>, <<Part("a")>>, <<Part("b"), Part("a")>>} IN
  UNION {UNION {[{u \o k : k \in keys} -> Texts \cup {<<"1", SeqDelim, "2">>}] : u \in under} : keys \in SUBSET Plains}
\* The elements of a list, with their indices in their keys or after them.
ListSources ==
  LET key(n, i) == [name |-> n, index |-> i] IN
  UNION {[{<<key("a", i)>> : i \in is} -> {<<"0">>, <<"1">>, <<"2">>}] : is \in SUBSET {0, 2, 10}}

Reads == {<<"integer", n>> : n \in Names} \cup {<<"string", "a">>}
Shapes ==
  Reads \cup {<<how, l, r>> : how \in {"zip", "orElse"}, l \in Reads, r \in Reads}
Guarded == Shapes \cup {<<how, s>> : how \in {"withDefault", "optional"}, s \in Shapes}
Others == {<<kind>> : kind \in {"boolean", "float", "date", "secret", "logLevel", "validate", "mapAttempt",
                                "table", "all", "unwrap", "fail", "sync", "tuple"}}
Lists == {<<kind>> : kind \in {"array", "chunk", "set", "zipped"}}

RECURSIVE Built(_)
Built(s) ==
  CASE s[1] = "integer" -> integer(<<s[2]>>)
    [] s[1] = "string"  -> string(<<s[2]>>)
    [] s[1] = "zip"     -> zip(Built(s[2]), Built(s[3]))
    [] s[1] = "orElse"  -> withDescription(orElse(Built(s[2]), Built(s[3])))
    [] s[1] = "withDefault" -> withDefault(Built(s[2]), <<"default", 0>>)
    [] s[1] = "optional"    -> optional(Built(s[2]))
    [] s[1] = "boolean" -> bool(<<"a">>)
    [] s[1] = "float"   -> float(<<"a">>)
    [] s[1] = "date"    -> date(<<"a">>)
    [] s[1] = "secret"  -> secret(<<"a">>)
    [] s[1] = "logLevel" -> logLevel(<<"a">>)
    [] s[1] = "validate" -> validate(integer(<<"a">>), "positive")
    [] s[1] = "mapAttempt" -> mapAttempt(integer(<<"a">>), "throwing")
    [] s[1] = "table"   -> table(integer(<<>>), <<>>)
    [] s[1] = "all"     -> all(<<integer(<<"a">>), integer(<<"b">>)>>)
    [] s[1] = "tuple"   -> tuple(<<>>)
    [] s[1] = "unwrap"  -> unwrap(<<"struct", <<<<"a", <<"config", integer(<<"a">>)>>>>>>>>)
    [] s[1] = "fail"    -> Fail
    [] s[1] = "sync"    -> sync(<<"default", 0>>)
    [] s[1] = "array"   -> arrayOf(integer(<<>>), <<"a">>)
    [] s[1] = "chunk"   -> chunkOf(integer(<<>>), <<"a">>)
    [] s[1] = "set"     -> setOf(integer(<<>>), <<"a">>)
    [] s[1] = "zipped"  -> zip(arrayOf(integer(<<>>), <<"a">>), arrayOf(integer(<<>>), <<"a">>))

\* The names a provider is nested in, innermost first.
Nestings == {<<>>, <<"a">>, <<"a", "b">>}
Wrapped(flat, names) == FoldLeft(LAMBDA p, name : nestedProvider(p, name), flat, names)
Prefixed(config, names) == FoldLeft(LAMBDA c, name : nested(c, name), config, names)

\* Providers that come to the same as the one they are made of.
Around(how, flat) ==
  CASE how = "itself"   -> flat
    [] how = "lower"    -> mapInputPath(flat, "lowerCase")
    [] how = "orElse"   -> orElseFlat(flat, flat)
    [] how = "unnested" -> unnestedProvider(nestedProvider(flat, "b"), "b")
    [] how = "within"   -> within(flat, <<"c">>, [p \in Any |-> p])

Arounds == {"itself", "lower", "orElse", "unnested", "within"}

Init ==
  /\ input \in [texts : PlainSources, shape : Guarded, names : Nestings, around : {"itself"}] \cup
               [texts : PlainSources, shape : Reads \cup Others, names : {<<>>, <<"a">>}, around : Arounds] \cup
               [texts : ListSources, shape : Lists, names : {<<>>}, around : {"itself"}]
  /\ result = NotYet

Load ==
  /\ result = NotYet
  /\ result' = LET flat   == Around(input.around, fromMap(input.texts))
                   config == Built(input.shape)
               IN [wrapped     |-> loadConfig(Wrapped(flat, input.names), config),
                   prefixed    |-> loadConfig(flat, Prefixed(config, input.names)),
                   environment |-> loadConfig(fromEnv(input.texts), config)]
  /\ UNCHANGED input

Next == Load

Spec == Init /\ [][Next]_vars
----------------------------------------------------------------------------
(* Properties.                                                             *)

Loaded == result # NotYet

\* What a shape reads of the texts, under the names of the provider.
RECURSIVE ReadBy(_)
ReadBy(s)       == IF s \in Reads THEN {s} ELSE UNION {ReadBy(s[i]) : i \in 2..Len(s)}
PathOf(read)    == [i \in DOMAIN input.names |-> Part(input.names[Len(input.names) + 1 - i])] \o <<Part(read[2])>>
Missing(read)   == PathOf(read) \notin DOMAIN input.texts
Malformed(read) == ~Missing(read) /\ read[1] = "integer" /\ input.texts[PathOf(read)][1] = "x"

RECURSIVE LeavesOf(_)
LeavesOf(e) == IF e.tag \in {"And", "Or"} THEN LeavesOf(e.left) \cup LeavesOf(e.right) ELSE {<<e.tag, e.path>>}

\* A default, or the none of an optional, stands in for what is missing and never hides a text that
\* is there and malformed (withDefault, optional, isMissingDataOnly in configError.ts); an error
\* tells of everything that could not be read, wherever it is (OP_ZIP_WITH, OP_FALLBACK).
DefaultsHideNothing ==
  Loaded /\ input.shape \in Guarded /\ input.around = "itself" =>
    LET load1 == result.prefixed
        plain(s) == IF s[1] = "orElse" THEN \E i \in 2..3 : ~Missing(s[i]) /\ ~Malformed(s[i])
                    ELSE \A r \in ReadBy(s) : ~Missing(r) /\ ~Malformed(r)
        s == input.shape IN
    IF s \in Shapes
    THEN /\ load1.ok <=> plain(s)
         /\ ~load1.ok => LeavesOf(load1.error) =
              {<<IF Missing(r) THEN "MissingData" ELSE "InvalidData", PathOf(r)>> :
                 r \in {q \in ReadBy(s) : Missing(q) \/ Malformed(q)}}
    ELSE /\ load1.ok <=> plain(s[2]) \/ \A r \in ReadBy(s[2]) : ~Malformed(r)
         /\ load1.ok /\ ~plain(s[2]) => load1.value \in {<<"default", 0>>, <<"option">>}

\* A list has every element that has an index, in the order of the indices (indicesFrom); to nest a
\* provider is to nest the names of the configs it loads (ConfigProvider.nested), and what is
\* not enumerated reads the same in the environment.
ReadsWhatIsThere ==
  Loaded =>
    /\ input.shape \in {<<"array">>, <<"chunk">>, <<"set">>} /\ DOMAIN input.texts # {} =>
         LET is == SetToSortSeq({p[1].index : p \in DOMAIN input.texts}, byNumber)
             at(i) == Digits[input.texts[<<[name |-> "a", index |-> is[i]]>>][1]]
             list == [i \in DOMAIN is |-> <<"integer", at(i)>>]
         IN result.wrapped = Right(IF input.shape = <<"set">> THEN <<"set", ToSet(list)>> ELSE <<"list", list>>)
    /\ input.shape = <<"zipped">> /\ DOMAIN input.texts # {} => result.wrapped.ok
    /\ input.shape # <<"table">> /\ (\A p \in DOMAIN input.texts : Len(input.texts[p]) = 1) =>
         result.wrapped.ok = result.prefixed.ok /\ (result.wrapped.ok => result.wrapped = result.prefixed)
    /\ input.shape \in Guarded /\ input.names = <<>> /\ input.around = "itself" =>
         result.environment = result.wrapped
    /\ input.around # "itself" /\ input.shape \in Reads /\ (\A p \in DOMAIN input.texts : Len(input.texts[p]) = 1) =>
         result.prefixed.ok <=> \A r \in ReadBy(input.shape) : ~Missing(r) /\ ~Malformed(r)

\* "Returns a new config provider that will automatically nest all configuration under the
\* specified property name." (src/src/Config/Provider.ts:224)  The code does not: see the README.
NestsEverything ==
  Loaded => /\ result.wrapped.ok = result.prefixed.ok
            /\ result.wrapped.ok => result.wrapped = result.prefixed
=============================================================================
