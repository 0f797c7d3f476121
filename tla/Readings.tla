------------------------------ MODULE Readings ------------------------------
(***************************************************************************)
(* Outlines and bytes.  Reads takes indexed files (BodyIndex) to the       *)
(* outlines that the accessors of a record make of them, Written an        *)
(* outline to its one spelling.                                            *)
(***************************************************************************)
EXTENDS Outline

RECURSIVE Reads(_)
ReadsUnit(key, raw) ==
  CASE StartsWith(raw, DLE) -> {LevelUnit(key, body) : body \in UNION {Reads(files) : files \in LevelOf(raw)}}
    [] StartsWith(raw, ENQ) -> {[RefUnit(path) EXCEPT !.key = key] : path \in ParseReference(raw)}
    [] OTHER -> {ValueUnit(key, v) : v \in ValueOf(raw)}

ReadsRecord(raw) ==
  UNION {IF keyed
         THEN UNION {Each([i \in DOMAIN ps |-> ReadsUnit(<<ps[i].key>>, ps[i].raw)]) :
                       ps \in Pairs(raw)}
         ELSE UNION {Each([i \in DOMAIN us |-> ReadsUnit(<<>>, us[i])]) :
                       us \in Fields(raw)}
         : keyed \in IsKeyed(raw)}

(* Headers, the values of the header row. *)
ReadsHeader(raw) ==
  UNION {Each([i \in DOMAIN us |-> ValueOf(us[i])]) : us \in Fields(raw)}

ReadsGroup(g) ==
  {[depth |-> g.depth, name |-> g.name, headers |-> h, records |-> r] :
     h \in Each([i \in DOMAIN g.header |-> ReadsHeader(g.header[i])]),
     r \in Each([i \in DOMAIN g.records |-> ReadsRecord(g.records[i])])}

Reads(files) ==
  Each([i \in DOMAIN files |->
    {[name |-> files[i].name, groups |-> gs] :
       gs \in Each([k \in DOMAIN files[i].groups |-> ReadsGroup(files[i].groups[k])])}])
-----------------------------------------------------------------------------
(* The one spelling of an outline: what the builder writes for it. *)
Joined(sep, parts) ==
  IF parts = <<>> THEN <<>>
  ELSE FoldLeft(LAMBDA x, part : x \o <<sep>> \o part, Head(parts), Tail(parts))

RECURSIVE Written(_)
WrittenUnit(unit) ==
  CASE unit.is = "level" -> <<DLE>> \o Written(unit.body) \o <<CAN>>
    [] unit.is = "reference" ->
         IF Len(unit.path) = 1 THEN <<ENQ>> \o unit.path[1]
         ELSE <<ENQ, STX>> \o Joined(US, unit.path) \o <<ETX>>
    [] OTHER -> Spelled(unit.value)

WrittenRecord(units) ==
  IF units[1].key = <<>> THEN <<RS>> \o Joined(US, [i \in DOMAIN units |-> WrittenUnit(units[i])])
  ELSE <<RS>> \o FlattenSeq([i \in DOMAIN units |->
                              <<SOH>> \o units[i].key[1] \o <<US>> \o WrittenUnit(units[i])])

WrittenGroup(g) ==
  [i \in 1 .. g.depth |-> GS] \o g.name
    \o FlattenSeq([i \in DOMAIN g.headers |-> <<SOH, RS>> \o Joined(US, g.headers[i])])
    \o FlattenSeq([i \in DOMAIN g.records |-> WrittenRecord(g.records[i])])

(* The first file has no line when it is unnamed. *)
Written(files) ==
  FlattenSeq([i \in DOMAIN files |->
    (IF i = 1 /\ files[i].name = <<>> THEN <<>> ELSE <<FS>> \o files[i].name)
      \o FlattenSeq([k \in DOMAIN files[i].groups |-> WrittenGroup(files[i].groups[k])])])

(* No record has a key twice. *)
RECURSIVE KeysOnce(_)
KeysOnce(files) ==
  \A f \in Range(files) : \A g \in Range(f.groups) : \A units \in Range(g.records) :
    /\ \A i, k \in DOMAIN units : i # k => units[i].key # units[k].key \/ units[i].key = <<>>
    /\ \A u \in Range(units) : KeysOnce(u.body)
=============================================================================
