----------------------------- MODULE MetaPrint -----------------------------
(***************************************************************************)
(* What the describers of the metadata have in common: a list of rows that *)
(* was read and sorted, a way to find the rows of a key in it, and the     *)
(* text a row is turned into.                                              *)
(*                                                                         *)
(* Text is a sequence of items.  An item is said (a clause, named by its   *)
(* kind and by the object it is about) or it is a call of another          *)
(* describer's printer, which is expanded when its turn comes, since a     *)
(* printer reads the list as it finds it.  Names of schemas, objects and   *)
(* columns are numbers, in the order of the database's collation.          *)
(*                                                                         *)
(* d is what a run is given: the parameters (owners in the order of the    *)
(* script, dependent, cmntlvl, me the connected schema, dba whether it may *)
(* read the DBA_ views) and the dictionary, a set of rows for every view.  *)
(***************************************************************************)
EXTENDS HighValues, Integers, FiniteSets, FiniteSetsExt

(* The placeholder "owner in %s" of the queries.                           *)
InOwners(d, S) == {r \in S : \E i \in DOMAIN d.owners : r.owner = d.owners[i]}

(* Where a query has a DBA_ and a USER_ form, the privilege decides.       *)
Accessible(d, S) == InOwners(d, IF d.dba THEN S ELSE {r \in S : r.owner = d.me})

(* operator< of the attributes: the fields are compared one by one.        *)
Less(fields, r, s) ==
  \E i \in DOMAIN fields :
    /\ r[fields[i]] < s[fields[i]]
    /\ \A j \in 1..i - 1 : r[fields[j]] = s[fields[j]]

Least(fields, S) == CHOOSE r \in S : \A s \in S : ~Less(fields, s, r)

(* The list a query leaves after vPostRepeatAction; rest[n] are the rows   *)
(* behind the n-th.                                                        *)
Sorted(fields, S) ==
  LET rest[n \in 0..Cardinality(S)] ==
        IF n = 0 THEN S ELSE LET T == rest[n - 1] IN T \ {Least(fields, T)}
  IN  [n \in 1..Cardinality(S) |-> Least(fields, rest[n - 1])]

(* The elements of q at the places S, in their order.                      *)
Nth(S, n) == CHOOSE i \in S : Cardinality({j \in S : j <= i}) = n

Kept(q, S) == [n \in 1..Cardinality(S) |-> q[Nth(S, n)]]

(* iKeyMatched: the row has the values of the key in the fields of the key.*)
Matches(fields, key, r) == \A i \in DOMAIN fields : r[fields[i]] = key[i]

Say(kind, of) == <<[do |-> "say", kind |-> kind, of |-> of]>>

(* oPrintItems(list, key, true): print the rows of the key and erase them. *)
PrintAll(by, key) == <<[do |-> "print", by |-> by, key |-> key, dispose |-> TRUE, arg |-> <<>>]>>

PrintAllWith(by, key, arg) == <<[do |-> "print", by |-> by, key |-> key, dispose |-> TRUE, arg |-> arg]>>

(* oPrintItems(list, key, false): the rows stay in their list.             *)
PrintKept(by, key) == <<[do |-> "print", by |-> by, key |-> key, dispose |-> FALSE, arg |-> <<>>]>>

(* iSubtractCtxItemList: rows are erased without being printed.            *)
Subtract(by, key) == <<[do |-> "subtract", by |-> by, key |-> key]>>

When(cond, items) == IF cond THEN items ELSE <<>>

(* vPostBulkAction of the partitions: a bound is rewritten when it is read.*)
Rewritten(S) == {[r EXCEPT !.high = When(@ # <<>>, sConvertStringFormat(HighValue(@)))] : r \in S}

(* sGetSubpertitionElement, unless the bound is null, as it is in a hash.  *)
Bounded(type, of, high) ==
  When(high # <<>>,
       Say(IF type = "RANGE" THEN "values less than" ELSE "values", Append(of, high)))

(* --- cCompressObject --------------------------------------------------- *)

(* The words behind "for"; NONE and DISABLED say nothing, and what stands  *)
(* behind QUERY or ARCHIVE is cut off.                                     *)
Operations(c) ==
  IF c.for \in {<<"ALL">>, <<"OLTP">>} THEN c.for
  ELSE IF c.for # <<>> /\ c.for[1] \in {"QUERY", "ARCHIVE"} THEN <<c.for[1]>>
  ELSE <<>>

sGetClause(of, c) == When(c.on = "ENABLED", Say("compress", Append(of, Operations(c))))

(* Fault: what it is compressed for is not compared.                       *)
SameFlag(b, c) == b.on = c.on

SameCompression(b, c) == b = c

Found(store, by, key) ==
  LET q == store[by.list] IN Kept(q, {i \in DOMAIN q : Matches(by.key, key, q[i])})
=============================================================================
