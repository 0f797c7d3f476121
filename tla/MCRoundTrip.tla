---------------------------- MODULE MCRoundTrip ----------------------------
(***************************************************************************)
(* Builders with values that are empty or full of codes; with names that   *)
(* are empty; and with blob tables.  Ints are of four bits, so that an     *)
(* offset and a length can be more than one holds.  And the properties     *)
(* that compare all that was written with all that is read.                *)
(***************************************************************************)
EXTENDS RoundTrip

R == INSTANCE Readings

Codes == <<ETX, CAN>>

ValueWords == [values |-> {<<>>, Codes}, names |-> { <<97>> }, tables |-> {}, tails |-> {}]
EmptyNameWords == [values |-> {Codes}, names |-> { <<>> }, tables |-> {}, tails |-> {Codes}]

(* The rows of tables: at the edges of a tail of two bytes, of a sum that   *)
(* is no int, without a number, of another name.                           *)
Num(d) == <<48 + d>>
Edges == {<< <<97>>, Num(0), Num(1)>>, << <<97>>, Num(2), Num(0)>>, << <<97>>, Num(1), Num(7)>>}
Others == {<< <<97>>, Num(1), <<120>> >>, << <<98>>, Num(0), Num(2)>>}

TwoRowTables == {[columns |-> A!BlobColumns, rows |-> <<r, q>>] : r \in Edges, q \in Edges \cup Others}
TurnedTables == {[columns |-> <<A!LengthWord, A!NameWord, A!OffsetWord>>,
                  rows |-> << <<r[3], r[1], r[2]>> >>] : r \in Edges}

BlobWords == [values |-> {<<>>}, names |-> { <<97>> }, tables |-> TwoRowTables \cup TurnedTables,
              tails |-> {<<>>, Codes}]

AllWords == {ValueWords, EmptyNameWords, BlobWords}
-----------------------------------------------------------------------------
(* "Builder writes C0DATA in canonical compact form" (builder.go:3), where *)
(* nothing but data is asked for, and no key twice.                        *)
OutputIsCanonical ==
  \A r \in Range(read) :
    bare /\ b.buf # <<>> /\ R!KeysOnce(O!Normal(Body.files)) => r.canonical

(* A document as the accessors read it; a diff's body is not read. *)
ReadsHeading(pairs) ==
  R!Each([i \in DOMAIN pairs |-> R!ReadsUnit(<<pairs[i].key>>, pairs[i].raw)])

Bodies(pairs, files) == IF IsDiff(pairs) THEN {<<>>} ELSE files

ReadsDocument(doc) ==
  UNION {{[heading |-> h, files |-> f] : f \in Bodies(h, R!Reads(doc.files))} :
           h \in ReadsHeading(doc.heading)}

MeantDocument(doc) == [doc EXCEPT !.files = IF IsDiff(doc.heading) THEN <<>> ELSE @]

(* The bytes read back are what was meant, to the last one: the documents, *)
(* the tail, and in each document heading and body                          *)
ReadsBack ==
  \A r \in Range(read) :
    UNION {{[documents |-> docs, tail |-> c.tail] :
              docs \in R!Each([i \in DOMAIN c.documents |-> ReadsDocument(c.documents[i])])} :
             c \in r.containers}
      = {[documents |-> [i \in DOMAIN Written |-> MeantDocument(Written[i])], tail |-> tail]}
=============================================================================
