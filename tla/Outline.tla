------------------------------ MODULE Outline ------------------------------
(***************************************************************************)
(* What a caller of the builder means to write: a body is files of groups  *)
(* of records of units, and a unit is a value, a reference or a body       *)
(* again.  The operators add to one as the documentation of Builder's      *)
(* methods says, without its counters.                                     *)
(***************************************************************************)
EXTENDS BodyIndex

(* A unit has a key in a keyed record and none in a positional one. *)
Unit(key, is, value, path, body) ==
  [key |-> key, is |-> is, value |-> value, path |-> path, body |-> body]

ValueUnit(key, v) == Unit(key, "value", v, <<>>, <<>>)
RefUnit(path) == Unit(<<>>, "reference", <<>>, path, <<>>)
LevelUnit(key, body) == Unit(key, "level", <<>>, <<>>, body)

(* A body as it is written: open says whether a record takes more units.   *)
EmptyBody == [files |-> <<>>, open |-> FALSE]

EmptyFile(name) == [name |-> name, groups |-> <<>>]
EmptyGroup(depth, name, headers) ==
  [depth |-> depth, name |-> name, headers |-> headers, records |-> <<>>]

Close(w) == [w EXCEPT !.open = FALSE]

AddFile(w, name) == Close([w EXCEPT !.files = Append(@, EmptyFile(name))])

(* The groups of the last file, the records of its last group. *)
Groups(w) == IF w.files = <<>> THEN <<>> ELSE Last(w.files).groups
RecordsIn(w) == Last(Groups(w)).records

(* Where there is no file line the file is unnamed; so is a group, at 0.   *)
AddGroup(w, name, headers, depth) ==
  LET in == IF w.files = <<>> THEN AddFile(w, <<>>) ELSE w IN
  Close([in EXCEPT !.files[Len(in.files)].groups = Append(@, EmptyGroup(depth, name, headers))])

AddRecord(w, units) ==
  LET in == IF Groups(w) = <<>> THEN AddGroup(w, <<>>, <<>>, 0) ELSE w IN
  [in EXCEPT !.files[Len(in.files)].groups[Len(Groups(in))].records = Append(@, units),
             !.open = TRUE]

(* A header row of its own: of the last group. *)
AddHeader(w, names) ==
  LET in == IF Groups(w) = <<>> THEN AddGroup(w, <<>>, <<>>, 0) ELSE w IN
  Close([in EXCEPT !.files[Len(in.files)].groups[Len(Groups(in))].headers = <<names>>])

OpenUnits(w) == Last(RecordsIn(w))

AddUnit(w, unit) ==
  IF ~w.open THEN AddRecord(w, <<unit>>)
  ELSE [w EXCEPT !.files[Len(w.files)].groups[Len(Groups(w))].records[Len(RecordsIn(w))]
                 = Append(@, unit)]

(* A record without units reads as one with an empty unit, an empty body  *)
(* as an unnamed file.                                                     *)
NormalRecord(units) == IF units = <<>> THEN <<ValueUnit(<<>>, <<>>)>> ELSE units

NormalGroup(g) ==
  [depth |-> g.depth, name |-> g.name, headers |-> g.headers,
   records |-> [r \in DOMAIN g.records |-> NormalRecord(g.records[r])]]

NormalFile(f) ==
  [name |-> f.name, groups |-> [k \in DOMAIN f.groups |-> NormalGroup(f.groups[k])]]

Normal(files) ==
  IF files = <<>> THEN <<EmptyFile(<<>>)>> ELSE [i \in DOMAIN files |-> NormalFile(files[i])]
-----------------------------------------------------------------------------
(* Lookups in a normal body: the last unit of a key, none or one; and the  *)
(* values of a level that is a list, which a header row does not keep from *)
(* being an empty one.                                                     *)
UnitOfKey(units, key) == LastOf(units, [i \in DOMAIN units |-> units[i].key = <<key>>])

IsBareBody(files) ==
  /\ Len(files) = 1 /\ files[1].name = <<>>
  /\ \A g \in Range(files[1].groups) : g.depth = 0

ListIn(files) ==
  LET groups == files[1].groups IN
  CASE ~IsBareBody(files) -> {}
    [] groups = <<>> \/ (groups # <<>> /\ groups[1].records = <<>>) -> {<<>>}
    [] OTHER -> {[i \in DOMAIN units |-> units[i].value] :
                   units \in {us \in Range(groups[1].records) :
                     /\ Len(groups[1].records) = 1 /\ groups[1].headers = <<>>
                     /\ \A u \in Range(us) : u.key = <<>> /\ u.is = "value"}}
=============================================================================
