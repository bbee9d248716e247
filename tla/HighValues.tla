----------------------------- MODULE HighValues -----------------------------
(***************************************************************************)
(* The bounds of a partition, which the dictionary has as one text, are    *)
(* written in short (app/xtru/getmeta/cFunctionalReplace.cpp): the first   *)
(* rule that matches rewrites the text, and its variable fields are put    *)
(* where the rule's other side names them.                                 *)
(*                                                                         *)
(* A text is a sequence of pieces: a literal, or characters that vary and  *)
(* their number.  Fields and literals of a rule lie where those of the     *)
(* text do, or something differs before.                                   *)
(***************************************************************************)
EXTENDS Naturals, Sequences, SequencesExt

Lit(text)       == <<"literal", text>>
Chars(n, value) == <<"chars", n, value>>
Field(n)        == <<"field", n>>    (* "%ns" of a rule's left side.       *)
Placed(i)           == <<"at", i>>       (* "{i}" of its right side, from 0.   *)

(* External: a bound and its text, and the value of several columns.       *)
DateText(b, time) ==
  <<Lit("TO_DATE(' "), Chars(4, b[2]), Lit("-"), Chars(2, b[3]), Lit("-"), Chars(2, b[4]),
    Lit(time), Chars(4, "YYYY"), Lit("-"), Chars(2, "MM"), Lit("-"), Chars(2, "DD"),
    Lit(" HH24:MI:SS', 'NLS_CALENDAR=GREGORIAN')")>>

BoundText(b) ==
  CASE b[1] = "DATE" -> DateText(b, IF b[5] = 0 THEN " 00:00:00', 'S" ELSE " 12:00:00', 'S")
    [] b[1] = "NUMBER" -> <<Chars(2, b[2])>>
    [] OTHER -> <<Lit(b[1])>>

Listed(texts) == FlattenSeq([i \in DOMAIN texts |->
                               (IF i = 1 THEN <<>> ELSE <<Lit(", ")>>) \o texts[i]])

HighValue(bounds) == Listed([i \in DOMAIN bounds |-> BoundText(bounds[i])])

-----------------------------------------------------------------------------
(* The rules of getmeta and of getdata, in the order they are tried.       *)
oFunctionalReplace ==
  <<[szSrc |-> <<Lit("DEFAULT")>>, szDst |-> <<Lit("default")>>],
    [szSrc |-> <<Lit("MAXVALUE")>>, szDst |-> <<Lit("maxvalue")>>],
    [szSrc |-> <<Lit("NULL")>>, szDst |-> <<Lit("null")>>],
    [szSrc |-> <<Lit("TO_DATE(' "), Field(4), Lit("-"), Field(2), Lit("-"), Field(2),
                 Lit(" 00:00:00', 'S"), Field(4), Lit("-"), Field(2), Lit("-"), Field(2),
                 Lit(" HH24:MI:SS', 'NLS_CALENDAR=GREGORIAN')")>>,
     szDst |-> <<Lit("to_date('"), Placed(0), Lit("-"), Placed(1), Lit("-"), Placed(2), Lit("','"),
                 Placed(3), Lit("-"), Placed(4), Lit("-"), Placed(5), Lit("')")>>]>>

IsField(piece) == piece[1] = "field"
Aligned(p, q)  == IF IsField(q) THEN p[1] = "chars" /\ p[2] = q[2] ELSE p = q

(* cTranslator::operator(): the comparison ends with the shorter of both,  *)
(* so a rule matches a value that goes on behind it.                       *)
Discovered(text, oRule) ==
  \A i \in DOMAIN text \cap DOMAIN oRule.szSrc : Aligned(text[i], oRule.szSrc[i])

(* szTbl_: the fields in the order they appear.  Behind the rule's end the *)
(* code reads on; the destination refers to no field it may find there.    *)
vTransferMarkupLocation(text, oRule) ==
  LET Both == [i \in DOMAIN text \cap DOMAIN oRule.szSrc |-> <<oRule.szSrc[i], text[i]>>]
      Fields == SelectSeq(Both, LAMBDA b : IsField(b[1]))
  IN  [i \in DOMAIN Fields |-> Fields[i][2]]

(* What a faulty replacement would do: count the fields from 1.            *)
ReplacedFromOne(szTbl_, oRule) ==
  [i \in DOMAIN oRule.szDst |->
     IF oRule.szDst[i][1] = "at" /\ oRule.szDst[i][2] > 0 THEN szTbl_[oRule.szDst[i][2]]
     ELSE oRule.szDst[i]]

sReplaceMarkupLocation(szTbl_, oRule) ==
  [i \in DOMAIN oRule.szDst |->
     IF oRule.szDst[i][1] = "at" THEN szTbl_[oRule.szDst[i][2] + 1] ELSE oRule.szDst[i]]

(* A value no rule matches stays as it is; of one that a rule matches, all *)
(* that is behind the rule's end is left out.                              *)
sConvertStringFormat(text) ==
  LET Matching == {k \in DOMAIN oFunctionalReplace : Discovered(text, oFunctionalReplace[k])}
      oCur == oFunctionalReplace[CHOOSE k \in Matching : \A l \in Matching : k <= l]
  IN  IF Matching = {} THEN text
      ELSE sReplaceMarkupLocation(vTransferMarkupLocation(text, oCur), oCur)

-----------------------------------------------------------------------------
(* What a reader of the script may take a bound to be: the text of the     *)
(* dictionary, or a shorter one that means the same.                       *)
Readings(b) ==
  {BoundText(b)} \cup
  (CASE b[1] = "DATE" /\ b[5] = 0 ->
          {<<Lit("to_date('"), Chars(4, b[2]), Lit("-"), Chars(2, b[3]), Lit("-"), Chars(2, b[4]),
             Lit("','"), Chars(4, "YYYY"), Lit("-"), Chars(2, "MM"), Lit("-"), Chars(2, "DD"),
             Lit("')")>>}
     [] b[1] = "DEFAULT" -> {<<Lit("default")>>}
     [] b[1] = "MAXVALUE" -> {<<Lit("maxvalue")>>}
     [] b[1] = "NULL" -> {<<Lit("null")>>}
     [] OTHER -> {})

ReadsAs(text, bounds) ==
  \E texts \in [DOMAIN bounds -> UNION {Readings(bounds[i]) : i \in DOMAIN bounds}] :
    /\ \A i \in DOMAIN bounds : texts[i] \in Readings(bounds[i])
    /\ text = Listed(texts)

(* The bounds that have a shorter form; behind one that comes first the    *)
(* other columns' bounds are lost.                                         *)
Shortened(b) == Cardinality(Readings(b)) > 1
=============================================================================
