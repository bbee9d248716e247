--------------------------- MODULE GetMetaProofs ---------------------------
(***************************************************************************)
(* The proofs about getmeta.  GetMeta: what the objects of an owner are    *)
(* created from, for every dictionary.  MetaFetch: what a describer's list *)
(* holds, for every set of readers, every result and every array size.     *)
(***************************************************************************)
EXTENDS GetMeta, MetaFetch, FiniteSetTheorems, SequenceTheorems, WellFoundedInduction, TLAPS

(* --- Sequences --------------------------------------------------------- *)

LEMMA FunctionIsSequence ==
  ASSUME NEW n \in Nat, NEW R, NEW q \in [1..n -> R]
  PROVE  IsSequence(q) /\ Len(q) = n /\ DOMAIN q = 1..n
<1> DEFINE S == {q[i] : i \in DOMAIN q}
<1>1. DOMAIN q = 1..n
  OBVIOUS
<1>2. q \in [1..n -> S]
  OBVIOUS
<1>3. q \in Seq(S) /\ Len(q) = n
  BY <1>2
<1> QED
  BY <1>1, <1>3 DEF IsSequence

LEMMA SequenceLength ==
  ASSUME NEW q, IsSequence(q)
  PROVE  /\ Len(q) \in Nat /\ DOMAIN q = 1..Len(q)
         /\ \A R : (\A i \in 1..Len(q) : q[i] \in R) => q \in Seq(R)
<1> DEFINE S == {q[i] : i \in DOMAIN q}
<1>1. q \in Seq(S)
  BY DEF IsSequence
<1> HIDE DEF S
<1>2. Len(q) \in Nat /\ DOMAIN q = 1..Len(q) /\ q \in [1..Len(q) -> S]
  BY <1>1
<1>3. ASSUME NEW R, \A i \in 1..Len(q) : q[i] \in R PROVE q \in Seq(R)
  <2>1. q \in [1..Len(q) -> R]
    BY <1>2, <1>3
  <2> QED
    BY <1>2, <2>1
<1> QED
  BY <1>2, <1>3

LEMMA SeqIsSequence ==
  ASSUME NEW R, NEW q \in Seq(R) PROVE IsSequence(q)
<1>1. q \in [1..Len(q) -> R] /\ Len(q) \in Nat
  OBVIOUS
<1> QED
  BY <1>1, FunctionIsSequence

LEMMA Concatenated ==
  ASSUME NEW s, NEW t, IsSequence(s), IsSequence(t)
  PROVE  IsSequence(s \o t)
<1> DEFINE R == {s[i] : i \in DOMAIN s} \cup {t[i] : i \in DOMAIN t}
<1>1. s \in Seq(R) /\ t \in Seq(R)
  BY SequenceLength
<1> HIDE DEF R
<1>2. s \o t \in Seq(R)
  BY <1>1
<1> QED
  BY <1>2, SeqIsSequence

(* Where an element of a concatenation comes from.                         *)
LEMMA PlacesIn ==
  ASSUME NEW s, NEW t, IsSequence(s), IsSequence(t), NEW i \in DOMAIN (s \o t)
  PROVE  /\ i \in Nat
         /\ \/ i \in DOMAIN s /\ i <= Len(s) /\ (s \o t)[i] = s[i]
            \/ \E j \in DOMAIN t : i = Len(s) + j /\ i > Len(s) /\ (s \o t)[i] = t[j]
<1> DEFINE R == {s[k] : k \in DOMAIN s} \cup {t[k] : k \in DOMAIN t}
<1>1. s \in Seq(R) /\ t \in Seq(R)
  BY SequenceLength
<1> HIDE DEF R
<1>2. /\ Len(s) \in Nat /\ Len(t) \in Nat
      /\ DOMAIN s = 1..Len(s) /\ DOMAIN t = 1..Len(t)
  BY SequenceLength
<1>3. i \in 1..(Len(s) + Len(t))
  BY <1>1
<1>4. CASE i <= Len(s)
  <2>1. (s \o t)[i] = s[i]
    BY <1>1, <1>2, <1>3, <1>4
  <2> QED
    BY <1>2, <1>3, <1>4, <2>1
<1>5. CASE i > Len(s)
  <2>1. PICK j \in 1..Len(t) : i = Len(s) + j
    <3>1. i - Len(s) \in 1..Len(t) /\ i = Len(s) + (i - Len(s))
      BY <1>2, <1>3, <1>5
    <3> QED
      BY <3>1
  <2>2. (s \o t)[i] = t[j]
    BY <1>1, <1>2, <2>1
  <2> QED
    BY <1>2, <1>3, <1>5, <2>1, <2>2
<1> QED
  BY <1>2, <1>3, <1>4, <1>5

LEMMA OneElement ==
  ASSUME NEW x PROVE IsSequence(<<x>>) /\ Len(<<x>>) = 1 /\ DOMAIN <<x>> = {1} /\ <<x>>[1] = x
<1>1. <<x>> \in Seq({x})
  OBVIOUS
<1>2. IsSequence(<<x>>)
  BY <1>1, SeqIsSequence
<1>3. Len(<<x>>) = 1 /\ DOMAIN <<x>> = 1..1 /\ <<x>>[1] = x
  OBVIOUS
<1> QED
  BY <1>2, <1>3

LEMMA NoElement == IsSequence(<<>>) /\ DOMAIN <<>> = {}
<1>1. <<>> \in Seq({})
  OBVIOUS
<1>2. DOMAIN <<>> = {}
  OBVIOUS
<1> QED
  BY <1>1, <1>2, SeqIsSequence

LEMMA TailOf ==
  ASSUME NEW q, IsSequence(q), q # <<>>
  PROVE  /\ IsSequence(Tail(q)) /\ Len(Tail(q)) = Len(q) - 1 /\ 1 \in DOMAIN q
         /\ Head(q) = q[1]
         /\ \A i \in DOMAIN Tail(q) : i + 1 \in DOMAIN q /\ Tail(q)[i] = q[i + 1]
<1> DEFINE R == {q[i] : i \in DOMAIN q}
<1>1. q \in Seq(R)
  BY DEF IsSequence
<1> HIDE DEF R
<1>2. /\ Len(q) \in Nat /\ Len(q) # 0 /\ Tail(q) \in Seq(R) /\ Len(Tail(q)) = Len(q) - 1
      /\ DOMAIN Tail(q) = 1..(Len(q) - 1) /\ DOMAIN q = 1..Len(q) /\ Head(q) = q[1]
      /\ \A i \in 1..(Len(q) - 1) : Tail(q)[i] = q[i + 1]
  BY <1>1
<1>3. IsSequence(Tail(q))
  BY <1>2, SeqIsSequence
<1> QED
  BY <1>2, <1>3

(* --- Parts of a list --------------------------------------------------- *)

(* A set of numbers has a least one.                                       *)
LEMMA LeastOne ==
  ASSUME NEW T \in SUBSET Nat, T # {}
  PROVE  \E x \in T : \A y \in T : x <= y
<1> DEFINE R == OpToRel(<, Nat)
<1>1. PICK x \in T : \A y \in T : ~(<<y, x>> \in R)
  BY NatLessThanWellFounded, WFMin
<1>2. \A y \in T : <<y, x>> \in R <=> y < x
  BY DEF OpToRel
<1> HIDE DEF R
<1>3. ASSUME NEW y \in T PROVE x <= y
  <2>1. x \in Nat /\ y \in Nat
    OBVIOUS
  <2>2. ~(y < x)
    BY <1>1, <1>2
  <2> QED
    BY <2>1, <2>2
<1> QED
  BY <1>3

Upto(S, i) == {j \in S : j <= i}

(* A set of places has an n-th one, for every n up to its size.            *)
LEMMA NthIn ==
  ASSUME NEW N \in Nat, NEW S \in SUBSET (1..N), NEW n \in 1..Cardinality(S)
  PROVE  Nth(S, n) \in S
<1> DEFINE T == {i \in 0..N : Cardinality(Upto(S, i)) >= n}
<1>1. IsFiniteSet(1..N)
  BY FS_Interval
<1>2. ASSUME NEW i PROVE IsFiniteSet(Upto(S, i)) /\ Cardinality(Upto(S, i)) \in Nat
  <2>1. Upto(S, i) \in SUBSET (1..N)
    BY DEF Upto
  <2> QED
    BY <1>1, <2>1, FS_Subset, FS_CardinalityType
<1>3. Upto(S, N) = S
  <2>1. \A j \in S : j <= N
    OBVIOUS
  <2> QED
    BY <2>1 DEF Upto
<1>4. Upto(S, 0) = {}
  <2>1. \A j \in S : ~(j <= 0)
    OBVIOUS
  <2> QED
    BY <2>1 DEF Upto
<1>5. Cardinality(S) \in Nat /\ Cardinality(Upto(S, 0)) = 0
  BY <1>2, <1>3, <1>4, FS_EmptySet
<1>6. N \in T /\ 0 \notin T
  BY <1>3, <1>5
<1>7. T \in SUBSET Nat
  OBVIOUS
<1>8. PICK i \in T : \A k \in T : i <= k
  BY <1>6, <1>7, LeastOne
<1>9. i \in 1..N /\ i - 1 \in 0..N /\ i - 1 \notin T
  BY <1>6, <1>8
<1>10. Cardinality(Upto(S, i - 1)) < n /\ Cardinality(Upto(S, i)) >= n
  <2>1. Cardinality(Upto(S, i - 1)) \in Nat
    BY <1>2
  <2> QED
    BY <1>8, <1>9, <2>1
<1>11. i \in S
  <2> SUFFICES ASSUME i \notin S PROVE FALSE
    OBVIOUS
  <2>1. \A j \in S : j <= i <=> j <= i - 1
    BY <1>9
  <2>2. Upto(S, i) = Upto(S, i - 1)
    BY <2>1 DEF Upto
  <2> QED
    BY <1>2, <1>10, <2>2
<1>12. Upto(S, i) = Upto(S, i - 1) \cup {i}
  <2>1. \A j \in S : j <= i <=> j <= i - 1 \/ j = i
    BY <1>9
  <2> QED
    BY <1>11, <2>1 DEF Upto
<1>13. Cardinality(Upto(S, i)) <= Cardinality(Upto(S, i - 1)) + 1
  <2>1. IsFiniteSet(Upto(S, i - 1)) /\ Cardinality(Upto(S, i - 1)) \in Nat
    BY <1>2
  <2> HIDE DEF T
  <2>2. \/ Cardinality(Upto(S, i - 1) \cup {i}) = Cardinality(Upto(S, i - 1))
        \/ Cardinality(Upto(S, i - 1) \cup {i}) = Cardinality(Upto(S, i - 1)) + 1
    BY <2>1, FS_AddElement
  <2> QED
    BY <1>12, <2>1, <2>2
<1>14. Cardinality(Upto(S, i)) = n
  <2>1. Cardinality(Upto(S, i)) \in Nat /\ Cardinality(Upto(S, i - 1)) \in Nat
    BY <1>2
  <2> QED
    BY <1>10, <1>13, <2>1
<1>15. \E k \in S : Cardinality({j \in S : j <= k}) = n
  BY <1>11, <1>14 DEF Upto
<1> QED
  BY <1>15 DEF Nth

(* What is kept of a list is a list, of elements of it.                    *)
LEMMA KeptOf ==
  ASSUME NEW q, IsSequence(q), NEW S \in SUBSET DOMAIN q
  PROVE  /\ IsSequence(Kept(q, S))
         /\ \A n \in DOMAIN Kept(q, S) : \E i \in S : Kept(q, S)[n] = q[i]
<1>1. Len(q) \in Nat /\ DOMAIN q = 1..Len(q)
  BY SequenceLength
<1>2. IsFiniteSet(S)
  <2>1. IsFiniteSet(1..Len(q))
    BY <1>1, FS_Interval
  <2> QED
    BY <1>1, <2>1, FS_Subset
<1>3. Cardinality(S) \in Nat
  BY <1>2, FS_CardinalityType
<1>4. \A n \in 1..Cardinality(S) : Nth(S, n) \in S
  BY <1>1, NthIn
<1> DEFINE R == {q[i] : i \in S}
           K == [n \in 1..Cardinality(S) |-> q[Nth(S, n)]]
<1>5. K \in [1..Cardinality(S) -> R]
  BY <1>4
<1>6. IsSequence(K) /\ DOMAIN K = 1..Cardinality(S)
  <2> HIDE DEF K, R
  <2> QED
    BY <1>3, <1>5, FunctionIsSequence
<1>7. \A n \in 1..Cardinality(S) : \E i \in S : K[n] = q[i]
  BY <1>4
<1> QED
  BY <1>6, <1>7 DEF Kept

(* What a query has returned is a list when it is sorted.                  *)
LEMMA SortedOf ==
  ASSUME NEW fields, NEW S, IsFiniteSet(S)
  PROVE  IsSequence(Sorted(fields, S))
<1>1. Cardinality(S) \in Nat
  BY FS_CardinalityType
<1> DEFINE rest[n \in 0..Cardinality(S)] ==
             IF n = 0 THEN S ELSE LET T == rest[n - 1] IN T \ {Least(fields, T)}
           R == {Least(fields, rest[n - 1]) : n \in 1..Cardinality(S)}
           K == [n \in 1..Cardinality(S) |-> Least(fields, rest[n - 1])]
<1> HIDE DEF rest
<1>2. K \in [1..Cardinality(S) -> R]
  OBVIOUS
<1>3. IsSequence(K)
  <2> HIDE DEF K, R
  <2> QED
    BY <1>1, <1>2, FunctionIsSequence
<1>4. Sorted(fields, S) = K
  BY DEF Sorted, rest
<1> QED
  BY <1>3, <1>4

(* --- The printers by depth --------------------------------------------- *)

(* What vRun prints itself, what is written inside these, and so on; the   *)
(* leaves write clauses only.                                              *)
Mains ==
  {"UserDbLinks", "AllSequences", "AllObjects", "AllClusters",
   "OutputOrderTbl", "AllMviews", "TablesWithFk", "AllRefresh", "AllViews",
   "AllSynonyms", "UserJobs"}

Firsts ==
  {"AllMviewLogs", "AllTabColumns", "ViewColumns", "ConsOfAKey", "ConsByName",
   "ConsOfFKey", "AllLogGroups", "AllExternalTables", "AllLobs", "UserIndexes",
   "IotIndex", "UsingIndex"}

Seconds ==
  {"AllTables", "IotOverflow", "AllPartIndexes", "AllIndColumns"}

Thirds ==
  {"AllPartTables", "PartTableStorage", "AllIndPartitions",
   "IndPartsByQuantity"}

Fourths ==
  {"AllTabPartitions", "TabPartsByQuantity"}

Leaves ==
  {"AllTabPrivs", "UserObjAuditOpts", "UserAuditObject", "AllTabComments",
   "AllColComments", "AllTriggers", "AllSource", "AllRefreshChildren",
   "AllExternalLocations", "DataDefault", "UserSegments", "AllLogGroupColumns",
   "UserCluColumns", "HashExpr", "DbaMviewLogFilterCols", "AllConsColumnsKey",
   "AllConsColumnsRef", "ConsOfCheck", "EffectiveKeyCons", "ParentWithChild",
   "AllPartKeyColumns", "AllSubPartKeyColumns", "AllTabSubPartitions",
   "AllSubPartitionTemplates", "AllIndExpressions", "AllIndSubPartitions",
   "TabSubPartsByQuantity", "DerivedFromTemplate", "IndSubPartsByQuantity",
   "EffectiveByName", "VirtualColumn"}

(* A name stands for its describer.                                        *)
LEMMA ByName ==
  /\ Describers["UserDbLinks"] = UserDbLinks
  /\ Describers["AllSequences"] = AllSequences
  /\ Describers["AllObjects"] = AllObjects
  /\ Describers["AllClusters"] = AllClusters
  /\ Describers["OutputOrderTbl"] = OutputOrderTbl
  /\ Describers["AllMviews"] = AllMviews
  /\ Describers["TablesWithFk"] = TablesWithFk
  /\ Describers["AllRefresh"] = AllRefresh
  /\ Describers["AllViews"] = AllViews
  /\ Describers["AllSynonyms"] = AllSynonyms
  /\ Describers["UserJobs"] = UserJobs
  /\ Describers["AllMviewLogs"] = AllMviewLogs
  /\ Describers["AllTabColumns"] = AllTabColumns
  /\ Describers["ViewColumns"] = AllTabColumns
  /\ Describers["ConsOfAKey"] = ConsOfAKey
  /\ Describers["ConsByName"] = ConsByName
  /\ Describers["ConsOfFKey"] = ConsOfFKey
  /\ Describers["AllLogGroups"] = AllLogGroups
  /\ Describers["AllExternalTables"] = AllExternalTables
  /\ Describers["AllLobs"] = AllLobs
  /\ Describers["UserIndexes"] = UserIndexes
  /\ Describers["IotIndex"] = IotIndex
  /\ Describers["UsingIndex"] = UsingIndex
  /\ Describers["AllTables"] = AllTables
  /\ Describers["IotOverflow"] = IotOverflow
  /\ Describers["AllPartIndexes"] = AllPartIndexes
  /\ Describers["AllIndColumns"] = AllIndColumns
  /\ Describers["AllPartTables"] = AllPartTables
  /\ Describers["PartTableStorage"] = PartTableStorage
  /\ Describers["AllIndPartitions"] = AllIndPartitions
  /\ Describers["IndPartsByQuantity"] = IndPartsByQuantity
  /\ Describers["AllTabPartitions"] = AllTabPartitions
  /\ Describers["TabPartsByQuantity"] = TabPartsByQuantity
  /\ Describers["AllTabPrivs"] = AllTabPrivs
  /\ Describers["UserObjAuditOpts"] = UserObjAuditOpts
  /\ Describers["UserAuditObject"] = UserAuditObject
  /\ Describers["AllTabComments"] = AllTabComments
  /\ Describers["AllColComments"] = AllColComments
  /\ Describers["AllTriggers"] = AllTriggers
  /\ Describers["AllSource"] = AllSource
  /\ Describers["AllRefreshChildren"] = AllRefreshChildren
  /\ Describers["AllExternalLocations"] = AllExternalLocations
  /\ Describers["DataDefault"] = DataDefault
  /\ Describers["UserSegments"] = UserSegments
  /\ Describers["AllLogGroupColumns"] = AllLogGroupColumns
  /\ Describers["UserCluColumns"] = UserCluColumns
  /\ Describers["HashExpr"] = HashExpr
  /\ Describers["DbaMviewLogFilterCols"] = DbaMviewLogFilterCols
  /\ Describers["AllConsColumnsKey"] = AllConsColumnsKey
  /\ Describers["AllConsColumnsRef"] = AllConsColumnsRef
  /\ Describers["ConsOfCheck"] = ConsOfCheck
  /\ Describers["EffectiveKeyCons"] = EffectiveKeyCons
  /\ Describers["ParentWithChild"] = ParentWithChild
  /\ Describers["AllPartKeyColumns"] = AllPartKeyColumns
  /\ Describers["AllSubPartKeyColumns"] = AllSubPartKeyColumns
  /\ Describers["AllTabSubPartitions"] = AllTabSubPartitions
  /\ Describers["AllSubPartitionTemplates"] = AllSubPartitionTemplates
  /\ Describers["AllIndExpressions"] = AllIndExpressions
  /\ Describers["AllIndSubPartitions"] = AllIndSubPartitions
  /\ Describers["TabSubPartsByQuantity"] = TabSubPartsByQuantity
  /\ Describers["DerivedFromTemplate"] = DerivedFromTemplate
  /\ Describers["IndSubPartsByQuantity"] = IndSubPartsByQuantity
  /\ Describers["EffectiveByName"] = EffectiveByName
  /\ Describers["VirtualColumn"] = VirtualColumn
<1>1. /\ Describers["UserDbLinks"] = UserDbLinks
     /\ Describers["AllSequences"] = AllSequences
     /\ Describers["AllObjects"] = AllObjects
     /\ Describers["AllClusters"] = AllClusters
     /\ Describers["OutputOrderTbl"] = OutputOrderTbl
     /\ Describers["AllMviews"] = AllMviews
     /\ Describers["TablesWithFk"] = TablesWithFk
     /\ Describers["AllRefresh"] = AllRefresh
     /\ Describers["AllViews"] = AllViews
     /\ Describers["AllSynonyms"] = AllSynonyms
     /\ Describers["UserJobs"] = UserJobs
     /\ Describers["AllMviewLogs"] = AllMviewLogs
     /\ Describers["AllTabColumns"] = AllTabColumns
     /\ Describers["ViewColumns"] = AllTabColumns
     /\ Describers["ConsOfAKey"] = ConsOfAKey
     /\ Describers["ConsByName"] = ConsByName
  BY DEF Describers
<1>2. /\ Describers["ConsOfFKey"] = ConsOfFKey
     /\ Describers["AllLogGroups"] = AllLogGroups
     /\ Describers["AllExternalTables"] = AllExternalTables
     /\ Describers["AllLobs"] = AllLobs
     /\ Describers["UserIndexes"] = UserIndexes
     /\ Describers["IotIndex"] = IotIndex
     /\ Describers["UsingIndex"] = UsingIndex
     /\ Describers["AllTables"] = AllTables
     /\ Describers["IotOverflow"] = IotOverflow
     /\ Describers["AllPartIndexes"] = AllPartIndexes
     /\ Describers["AllIndColumns"] = AllIndColumns
     /\ Describers["AllPartTables"] = AllPartTables
     /\ Describers["PartTableStorage"] = PartTableStorage
     /\ Describers["AllIndPartitions"] = AllIndPartitions
     /\ Describers["IndPartsByQuantity"] = IndPartsByQuantity
     /\ Describers["AllTabPartitions"] = AllTabPartitions
  BY DEF Describers
<1>3. /\ Describers["TabPartsByQuantity"] = TabPartsByQuantity
     /\ Describers["AllTabPrivs"] = AllTabPrivs
     /\ Describers["UserObjAuditOpts"] = UserObjAuditOpts
     /\ Describers["UserAuditObject"] = UserAuditObject
     /\ Describers["AllTabComments"] = AllTabComments
     /\ Describers["AllColComments"] = AllColComments
     /\ Describers["AllTriggers"] = AllTriggers
     /\ Describers["AllSource"] = AllSource
     /\ Describers["AllRefreshChildren"] = AllRefreshChildren
     /\ Describers["AllExternalLocations"] = AllExternalLocations
     /\ Describers["DataDefault"] = DataDefault
     /\ Describers["UserSegments"] = UserSegments
     /\ Describers["AllLogGroupColumns"] = AllLogGroupColumns
     /\ Describers["UserCluColumns"] = UserCluColumns
     /\ Describers["HashExpr"] = HashExpr
     /\ Describers["DbaMviewLogFilterCols"] = DbaMviewLogFilterCols
  BY DEF Describers
<1>4. /\ Describers["AllConsColumnsKey"] = AllConsColumnsKey
     /\ Describers["AllConsColumnsRef"] = AllConsColumnsRef
     /\ Describers["ConsOfCheck"] = ConsOfCheck
     /\ Describers["EffectiveKeyCons"] = EffectiveKeyCons
     /\ Describers["ParentWithChild"] = ParentWithChild
     /\ Describers["AllPartKeyColumns"] = AllPartKeyColumns
     /\ Describers["AllSubPartKeyColumns"] = AllSubPartKeyColumns
     /\ Describers["AllTabSubPartitions"] = AllTabSubPartitions
     /\ Describers["AllSubPartitionTemplates"] = AllSubPartitionTemplates
     /\ Describers["AllIndExpressions"] = AllIndExpressions
     /\ Describers["AllIndSubPartitions"] = AllIndSubPartitions
     /\ Describers["TabSubPartsByQuantity"] = TabSubPartsByQuantity
     /\ Describers["DerivedFromTemplate"] = DerivedFromTemplate
     /\ Describers["IndSubPartsByQuantity"] = IndSubPartsByQuantity
     /\ Describers["EffectiveByName"] = EffectiveByName
     /\ Describers["VirtualColumn"] = VirtualColumn
  BY DEF Describers
<1> QED
  BY <1>1, <1>2, <1>3, <1>4

(* The list of a describer.                                                *)
LEMMA ListNames ==
  /\ UserDbLinks.list = "UserDbLinks"
  /\ AllSequences.list = "AllSequences"
  /\ AllObjects.list = "AllObjects"
  /\ AllClusters.list = "AllClusters"
  /\ OutputOrderTbl.list = "OutputOrderTbl"
  /\ AllMviews.list = "AllMviews"
  /\ TablesWithFk.list = "TablesWithFk"
  /\ AllRefresh.list = "AllRefresh"
  /\ AllViews.list = "AllViews"
  /\ AllSynonyms.list = "AllSynonyms"
  /\ UserJobs.list = "UserJobs"
  /\ AllMviewLogs.list = "AllMviewLogs"
  /\ AllTabColumns.list = "AllTabColumns"
  /\ ConsOfAKey.list = "ConsOfAKey"
  /\ ConsByName.list = "ConsOfAKey"
  /\ ConsOfFKey.list = "ConsOfFKey"
  /\ AllLogGroups.list = "AllLogGroups"
  /\ AllExternalTables.list = "AllExternalTables"
  /\ AllLobs.list = "AllLobs"
  /\ UserIndexes.list = "UserIndexes"
  /\ IotIndex.list = "UserIndexes"
  /\ UsingIndex.list = "UserIndexes"
  /\ AllTables.list = "AllTables"
  /\ IotOverflow.list = "AllTables"
  /\ AllPartIndexes.list = "AllPartIndexes"
  /\ AllIndColumns.list = "AllIndColumns"
  /\ AllPartTables.list = "AllPartTables"
  /\ PartTableStorage.list = "AllPartTables"
  /\ AllIndPartitions.list = "AllIndPartitions"
  /\ IndPartsByQuantity.list = "AllIndPartitions"
  /\ AllTabPartitions.list = "AllTabPartitions"
  /\ TabPartsByQuantity.list = "AllTabPartitions"
  /\ AllTabPrivs.list = "AllTabPrivs"
  /\ UserObjAuditOpts.list = "UserObjAuditOpts"
  /\ UserAuditObject.list = "UserAuditObject"
  /\ AllTabComments.list = "AllTabComments"
  /\ AllColComments.list = "AllColComments"
  /\ AllTriggers.list = "AllTriggers"
  /\ AllSource.list = "AllSource"
  /\ AllRefreshChildren.list = "AllRefreshChildren"
  /\ AllExternalLocations.list = "AllExternalLocations"
  /\ DataDefault.list = "DataDefault"
  /\ UserSegments.list = "UserSegments"
  /\ AllLogGroupColumns.list = "AllLogGroupColumns"
  /\ UserCluColumns.list = "UserCluColumns"
  /\ HashExpr.list = "HashExpr"
  /\ DbaMviewLogFilterCols.list = "DbaMviewLogFilterCols"
  /\ AllConsColumnsKey.list = "AllConsColumnsKey"
  /\ AllConsColumnsRef.list = "AllConsColumnsRef"
  /\ ConsOfCheck.list = "ConsOfCheck"
  /\ EffectiveKeyCons.list = "EffectiveKeyCons"
  /\ ParentWithChild.list = "ParentWithChild"
  /\ AllPartKeyColumns.list = "AllPartKeyColumns"
  /\ AllSubPartKeyColumns.list = "AllSubPartKeyColumns"
  /\ AllTabSubPartitions.list = "AllTabSubPartitions"
  /\ AllSubPartitionTemplates.list = "AllSubPartitionTemplates"
  /\ AllIndExpressions.list = "AllIndExpressions"
  /\ AllIndSubPartitions.list = "AllIndSubPartitions"
  /\ TabSubPartsByQuantity.list = "AllTabSubPartitions"
  /\ DerivedFromTemplate.list = "AllTabSubPartitions"
  /\ IndSubPartsByQuantity.list = "AllIndSubPartitions"
  /\ EffectiveByName.list = "EffectiveKeyCons"
  /\ VirtualColumn.list = "DataDefault"
BY DEF UserDbLinks, AllSequences, AllObjects, AllClusters, OutputOrderTbl,
       AllMviews, TablesWithFk, AllRefresh, AllViews, AllSynonyms, UserJobs,
       AllMviewLogs, AllTabColumns, ConsOfAKey, ConsByName, ConsOfFKey,
       AllLogGroups, AllExternalTables, AllLobs, UserIndexes, IotIndex,
       UsingIndex, AllTables, IotOverflow, AllPartIndexes, AllIndColumns,
       AllPartTables, PartTableStorage, AllIndPartitions, IndPartsByQuantity,
       AllTabPartitions, TabPartsByQuantity, AllTabPrivs, UserObjAuditOpts,
       UserAuditObject, AllTabComments, AllColComments, AllTriggers,
       AllSource, AllRefreshChildren, AllExternalLocations, DataDefault,
       UserSegments, AllLogGroupColumns, UserCluColumns, HashExpr,
       DbaMviewLogFilterCols, AllConsColumnsKey, AllConsColumnsRef,
       ConsOfCheck, EffectiveKeyCons, ParentWithChild, AllPartKeyColumns,
       AllSubPartKeyColumns, AllTabSubPartitions, AllSubPartitionTemplates,
       AllIndExpressions, AllIndSubPartitions, TabSubPartsByQuantity,
       DerivedFromTemplate, IndSubPartsByQuantity, EffectiveByName,
       VirtualColumn

(* Every describer has a depth, and this is it.                            *)
LEMMA Depths ==
  /\ DOMAIN Describers = Mains \cup Firsts \cup Seconds \cup Thirds \cup Fourths \cup Leaves
  /\ \A by \in Mains : At(by) = 0
  /\ \A by \in Firsts : At(by) = 1
  /\ \A by \in Seconds : At(by) = 2
  /\ \A by \in Thirds : At(by) = 3
  /\ \A by \in Fourths : At(by) = 4
  /\ \A by \in Leaves : At(by) = 5
<1>1. DOMAIN Describers = Mains \cup Firsts \cup Seconds \cup Thirds \cup Fourths \cup Leaves
  BY DEF Describers, Mains, Firsts, Seconds, Thirds, Fourths, Leaves
<1>2. \A by \in Mains : At(by) = 0
  BY ByName, ListNames DEF Mains, At, Depth
<1>3. \A by \in Firsts : At(by) = 1
  BY ByName, ListNames DEF Firsts, At, Depth
<1>4. \A by \in Seconds : At(by) = 2
  BY ByName, ListNames DEF Seconds, At, Depth
<1>5. \A by \in Thirds : At(by) = 3
  BY ByName, ListNames DEF Thirds, At, Depth
<1>6. \A by \in Fourths : At(by) = 4
  BY ByName, ListNames DEF Fourths, At, Depth
<1>7. \A by \in Leaves : At(by) = 5
  <2>1. \A by \in {"AllTabPrivs", "UserObjAuditOpts", "UserAuditObject",
        "AllTabComments", "AllColComments", "AllTriggers", "AllSource",
        "AllRefreshChildren", "AllExternalLocations", "DataDefault",
        "UserSegments"} :
          At(by) = 5
    BY ByName, ListNames DEF At, Depth
  <2>2. \A by \in {"AllLogGroupColumns", "UserCluColumns", "HashExpr",
        "DbaMviewLogFilterCols", "AllConsColumnsKey", "AllConsColumnsRef",
        "ConsOfCheck", "EffectiveKeyCons", "ParentWithChild",
        "AllPartKeyColumns", "AllSubPartKeyColumns"} :
          At(by) = 5
    BY ByName, ListNames DEF At, Depth
  <2>3. \A by \in {"AllTabSubPartitions", "AllSubPartitionTemplates",
        "AllIndExpressions", "AllIndSubPartitions", "TabSubPartsByQuantity",
        "DerivedFromTemplate", "IndSubPartsByQuantity", "EffectiveByName",
        "VirtualColumn"} :
          At(by) = 5
    BY ByName, ListNames DEF At, Depth
  <2> QED
    BY <2>1, <2>2, <2>3 DEF Leaves
<1> QED
  BY <1>1, <1>2, <1>3, <1>4, <1>5, <1>6, <1>7

LEMMA DepthIsNumber == \A list : Depth(list) \in 0..5
BY DEF Depth

(* --- What a printer calls ---------------------------------------------- *)

(* Clauses, and printers of lists deeper than this.                        *)
Callable(a, depth) ==
  \/ a.do \in {"say", "raise", "count"}
  \/ a.do \in {"print", "subtract"} /\ a.by \in DOMAIN Describers /\ At(a.by) > depth

Calls(s, depth) == IsSequence(s) /\ \A i \in DOMAIN s : Callable(s[i], depth)

LEMMA Joined ==
  ASSUME NEW n, NEW s, NEW t, Calls(s, n), Calls(t, n) PROVE Calls(s \o t, n)
<1>1. IsSequence(s) /\ IsSequence(t)
  BY DEF Calls
<1>2. IsSequence(s \o t)
  BY <1>1, Concatenated
<1>3. ASSUME NEW i \in DOMAIN (s \o t) PROVE Callable((s \o t)[i], n)
  BY <1>1, PlacesIn DEF Calls
<1> QED
  BY <1>2, <1>3 DEF Calls

LEMMA SingleCall ==
  ASSUME NEW n, NEW a, Callable(a, n) PROVE Calls(<<a>>, n)
BY OneElement DEF Calls

LEMMA Clauses ==
  /\ \A n : Calls(<<>>, n)
  /\ \A n, kind, of : Calls(Say(kind, of), n)
  /\ \A n : Calls(<<[do |-> "raise"]>>, n)
<1>1. \A n : Calls(<<>>, n)
  BY NoElement DEF Calls
<1>2. ASSUME NEW n, NEW kind, NEW of PROVE Calls(Say(kind, of), n)
  BY SingleCall DEF Say, Callable
<1>3. ASSUME NEW n PROVE Calls(<<[do |-> "raise"]>>, n)
  BY SingleCall DEF Callable
<1> QED
  BY <1>1, <1>2, <1>3

LEMMA Parts ==
  /\ \A n, type, of, high : Calls(Bounded(type, of, high), n)
  /\ \A n, of, c : Calls(sGetClause(of, c), n)
BY Clauses DEF Bounded, sGetClause, When

LEMMA Called ==
  ASSUME NEW n, NEW by \in DOMAIN Describers, At(by) > n, NEW key, NEW arg
  PROVE  /\ Calls(PrintAll(by, key), n) /\ Calls(PrintAllWith(by, key, arg), n)
         /\ Calls(PrintKept(by, key), n) /\ Calls(Subtract(by, key), n)
BY SingleCall DEF PrintAll, PrintAllWith, PrintKept, Subtract, Callable

(* What may be called at each depth.                                       *)
LEMMA FromVRun ==
  ASSUME NEW by \in Mains \cup Firsts \cup Seconds \cup Thirds \cup Fourths \cup Leaves, NEW key, NEW arg
  PROVE  /\ Calls(PrintAll(by, key), -1) /\ Calls(PrintAllWith(by, key, arg), -1)
         /\ Calls(PrintKept(by, key), -1) /\ Calls(Subtract(by, key), -1)
<1>1. by \in DOMAIN Describers /\ At(by) > -1
  BY Depths
<1> QED
  BY <1>1, Called

LEMMA FromMains ==
  ASSUME NEW by \in Firsts \cup Seconds \cup Thirds \cup Fourths \cup Leaves, NEW key, NEW arg
  PROVE  /\ Calls(PrintAll(by, key), 0) /\ Calls(PrintAllWith(by, key, arg), 0)
         /\ Calls(PrintKept(by, key), 0) /\ Calls(Subtract(by, key), 0)
<1>1. by \in DOMAIN Describers /\ At(by) > 0
  BY Depths
<1> QED
  BY <1>1, Called

LEMMA FromFirsts ==
  ASSUME NEW by \in Seconds \cup Thirds \cup Fourths \cup Leaves, NEW key, NEW arg
  PROVE  /\ Calls(PrintAll(by, key), 1) /\ Calls(PrintAllWith(by, key, arg), 1)
         /\ Calls(PrintKept(by, key), 1) /\ Calls(Subtract(by, key), 1)
<1>1. by \in DOMAIN Describers /\ At(by) > 1
  BY Depths
<1> QED
  BY <1>1, Called

LEMMA FromSeconds ==
  ASSUME NEW by \in Thirds \cup Fourths \cup Leaves, NEW key, NEW arg
  PROVE  /\ Calls(PrintAll(by, key), 2) /\ Calls(PrintAllWith(by, key, arg), 2)
         /\ Calls(PrintKept(by, key), 2) /\ Calls(Subtract(by, key), 2)
<1>1. by \in DOMAIN Describers /\ At(by) > 2
  BY Depths
<1> QED
  BY <1>1, Called

LEMMA FromThirds ==
  ASSUME NEW by \in Fourths \cup Leaves, NEW key, NEW arg
  PROVE  /\ Calls(PrintAll(by, key), 3) /\ Calls(PrintAllWith(by, key, arg), 3)
         /\ Calls(PrintKept(by, key), 3) /\ Calls(Subtract(by, key), 3)
<1>1. by \in DOMAIN Describers /\ At(by) > 3
  BY Depths
<1> QED
  BY <1>1, Called

LEMMA FromFourths ==
  ASSUME NEW by \in Leaves, NEW key, NEW arg
  PROVE  /\ Calls(PrintAll(by, key), 4) /\ Calls(PrintAllWith(by, key, arg), 4)
         /\ Calls(PrintKept(by, key), 4) /\ Calls(Subtract(by, key), 4)
<1>1. by \in DOMAIN Describers /\ At(by) > 4
  BY Depths
<1> QED
  BY <1>1, Called

(* --- The printers ------------------------------------------------------ *)

LEMMA SomeClauses ==
  ASSUME NEW n, NEW q, IsSequence(q), NEW S \in SUBSET DOMAIN q,
         \A i \in DOMAIN q : q[i].do = "say"
  PROVE  Calls(Kept(q, S), n)
BY KeptOf DEF Calls, Callable

LEMMA AuditClauses == ASSUME NEW n, NEW r PROVE Calls(PrintAuditOpts(r), n)
<1> DEFINE Audit(o) == [do |-> "say", kind |-> "audit", of |-> <<r.owner, r.name, o>>]
           q == [i \in DOMAIN AuditedActions |-> Audit(AuditedActions[i])]
           S == {i \in DOMAIN AuditedActions : AuditedActions[i] \in r.opts}
<1>1. DOMAIN AuditedActions = 1..16
  BY DEF AuditedActions
<1>2. q \in [1..16 -> {q[i] : i \in 1..16}]
  BY <1>1
<1>3. IsSequence(q)
  <2> HIDE DEF q
  <2> QED
    BY <1>2, FunctionIsSequence
<1>4. \A i \in DOMAIN q : q[i].do = "say"
  OBVIOUS
<1>5. S \in SUBSET DOMAIN q
  OBVIOUS
<1>6. PrintAuditOpts(r) = Kept(q, S)
  BY DEF PrintAuditOpts
<1> HIDE DEF q, S
<1> QED
  BY <1>3, <1>4, <1>5, <1>6, SomeClauses

(* Printers that write clauses only.                                       *)
LEMMA ObjectClauses ==
  ASSUME NEW n, NEW r, NEW i
  PROVE  /\ Calls(PrintPriv(r), n)
         /\ Calls(PrintTrail(r), n)
         /\ Calls(PrintTabComment(r), n)
         /\ Calls(PrintColComment(r), n)
         /\ Calls(PrintTrigger(r), n)
         /\ Calls(PrintSource(r), n)
         /\ Calls(PrintRefreshChild(r, i), n)
         /\ Calls(PrintJob(r), n)
BY Clauses, Parts, Joined
  DEF PrintPriv, PrintTrail, PrintTabComment, PrintColComment, PrintTrigger,
      PrintSource, PrintRefreshChild, PrintJob, When

LEMMA TableClauses ==
  ASSUME NEW n, NEW r, NEW s
  PROVE  /\ Calls(PrintLocation(r), n)
         /\ Calls(PrintDefault(r), n)
         /\ Calls(PrintViewColumn(r), n)
         /\ Calls(PrintVirtual(r), n)
         /\ Calls(PrintSegment(r), n)
         /\ Calls(PrintLogGroupColumn(r), n)
         /\ Calls(PrintCluColumn(r), n)
         /\ Calls(PrintHashExpr(r), n)
         /\ Calls(PrintFilterCol(s, r), n)
BY Clauses, Parts, Joined
  DEF PrintLocation, PrintDefault, PrintViewColumn, PrintVirtual,
      PrintSegment, PrintLogGroupColumn, PrintCluColumn, PrintHashExpr,
      PrintFilterCol, When

LEMMA ConstraintClauses ==
  ASSUME NEW n, NEW r
  PROVE  /\ Calls(PrintConsColumn(r), n)
         /\ Calls(PrintCheck(r), n)
         /\ Calls(PrintEffective(r), n)
         /\ Calls(PrintParent(r), n)
BY Clauses, Parts, Joined
  DEF PrintConsColumn, PrintCheck, PrintEffective, PrintParent, When

LEMMA PartClauses ==
  ASSUME NEW n, NEW r, NEW given, NEW i, NEW q
  PROVE  /\ Calls(PrintPartStorage(r), n)
         /\ Calls(PrintPartKeyColumn(r), n)
         /\ Calls(PrintSubPartKeyColumn(r), n)
         /\ Calls(PrintTabSubPartition(r, given), n)
         /\ Calls(PrintTemplate(r, given), n)
         /\ Calls(PrintStoreIn(q, i), n)
         /\ Calls(PrintIndExpression(r), n)
         /\ Calls(PrintIndSubPartition(r, given), n)
BY Clauses, Parts, Joined
  DEF PrintPartStorage, PrintPartKeyColumn, PrintSubPartKeyColumn,
      PrintTabSubPartition, PrintTemplate, PrintStoreIn, PrintIndExpression,
      PrintIndSubPartition, When

(* Printers that call others.                                              *)
LEMMA MainPrinters ==
  ASSUME NEW r, NEW i
  PROVE  /\ Calls(PrintDbLink(r, i), 0) /\ Calls(PrintSequence(r), 0)
         /\ Calls(PrintObject(r), 0) /\ Calls(PrintView(r), 0) /\ Calls(PrintSynonym(r), 0)
         /\ Calls(PrintRefresh(r), 0) /\ Calls(PrintTableWithFk(d, r), 0)
         /\ Calls(PrintCluster(r), 0)
<1>1. Calls(PrintDbLink(r, i), 0) /\ Calls(PrintSequence(r), 0)
  BY Clauses, Joined, FromMains DEF PrintDbLink, PrintSequence, When, Leaves
<1>2. Calls(PrintObject(r), 0) /\ Calls(PrintSynonym(r), 0) /\ Calls(PrintRefresh(r), 0)
  BY Clauses, Joined, FromMains DEF PrintObject, PrintSynonym, PrintRefresh, Leaves
<1>3. Calls(PrintView(r), 0)
  BY Clauses, Joined, FromMains DEF PrintView, Firsts, Leaves
<1>4. Calls(PrintTableWithFk(d, r), 0)
  BY Clauses, Joined, FromMains DEF PrintTableWithFk, When, Firsts, Leaves
<1>5. Calls(PrintCluster(r), 0)
  BY Clauses, Joined, FromMains, ZenonT(60) DEF PrintCluster, When, Firsts, Leaves
<1> QED
  BY <1>1, <1>2, <1>3, <1>4, <1>5

LEMMA TableCalls == ASSUME NEW s, NEW r PROVE Calls(PrintTable(d, s, r), 0)
<1> DEFINE oKey    == <<r.owner, r.name>>
           named   == <<r.owner, r.name, 0>>
           cluster == ClusterOf(s, oKey)
           iot     == IsIot(s, oKey)
           drop    == When(cluster = 0,
                           Say("drop table", oKey) \o PrintAll("ParentWithChild", oKey))
           keys    == When(d.dependent, PrintAllWith("ConsOfFKey", oKey, <<"InCreTbl">>))
           place   == IF cluster # 0
                      THEN PrintAll("UserCluColumns", <<r.owner, r.name, cluster>>)
                      ELSE IF iot THEN PrintAllWith("UserIndexes", named, <<TRUE>>)
                      ELSE When(IsExternal(s, oKey), PrintAll("AllExternalTables", oKey))
           create  == drop \o Say("create table", oKey)
                      \o PrintAll("AllTabColumns", oKey)
                      \o PrintAllWith("ConsOfAKey", named, <<iot, "InTable">>)
                      \o keys
                      \o PrintAll("ConsOfCheck", oKey)
                      \o PrintAll("AllLogGroups", <<r.owner, r.name, "GENERATED NAME">>)
                      \o PrintAll("AllLogGroups", <<r.owner, r.name, "USER NAME">>)
                      \o Say("end of table", oKey) \o place
           indexed == create \o PrintAll("AllLobs", oKey) \o PrintAll("AllTables", oKey)
                      \o PrintAll("DataDefault", oKey)
                      \o PrintAllWith("UserIndexes", named, <<FALSE>>)
                      \o PrintAll("EffectiveKeyCons", <<r.owner, r.name, 1>>)
           all     == indexed
                      \o PrintAll("AllTriggers", oKey) \o PrintAll("AllTabPrivs", oKey)
                      \o PrintAll("UserObjAuditOpts", oKey) \o PrintAll("UserAuditObject", oKey)
                      \o PrintAll("AllTabComments", oKey) \o PrintAll("AllColComments", oKey)
                      \o PrintAll("AllMviewLogs", oKey)
<1>1. Calls(drop, 0)
  BY Clauses, Joined, FromMains DEF When, Leaves
<1>2. Calls(keys, 0)
  BY Clauses, FromMains DEF When, Firsts
<1>3. Calls(place, 0)
  BY Clauses, FromMains DEF When, Firsts, Leaves
<1> HIDE DEF oKey, named, cluster, iot, drop, keys, place
<1>4. PrintTable(d, s, r) = all
  BY DEF PrintTable, oKey, named, cluster, iot, drop, keys, place
<1>5. Calls(create, 0)
  BY <1>1, <1>2, <1>3, Clauses, Joined, FromMains DEF Firsts, Leaves
<1> HIDE DEF create
<1>6. Calls(indexed, 0)
  BY <1>5, Joined, FromMains DEF Seconds, Firsts, Leaves
<1> HIDE DEF indexed
<1>7. Calls(all, 0)
  BY <1>6, Joined, FromMains DEF Firsts, Leaves
<1> QED
  BY <1>4, <1>7

LEMMA MviewCalls == ASSUME NEW s, NEW r PROVE Calls(PrintMview(s, r), 0)
<1> DEFINE oKey    == <<r.owner, r.view>>
           inner   == <<r.owner, r.container>>
           cluster == ClusterOf(s, inner)
           iot     == IsIot(s, inner)
           place   == IF ~r.immediate THEN Say("on prebuilt table", inner)
                      ELSE (IF cluster # 0
                            THEN PrintAll("UserCluColumns", inner \o <<cluster>>)
                            ELSE When(iot, PrintAllWith("UserIndexes", inner \o <<0>>, <<TRUE>>)))
                           \o PrintAll("AllTables", inner)
           index   == IF ~r.useIndex THEN Say("using no index", oKey)
                      ELSE When(r.index # 0, PrintAll("UsingIndex", oKey \o <<r.index>>))
                           \o When(r.keyed, Subtract("ConsByName", <<r.owner, r.index>>)
                                            \o Subtract("EffectiveByName", <<r.owner, r.index>>))
           create  == Say("drop mview", oKey) \o Say("create mview", oKey) \o place \o index
                      \o PrintAllWith("ConsOfAKey", oKey \o <<0>>, <<iot, "InSnap">>)
                      \o PrintAllWith("UserIndexes", oKey \o <<0>>, <<FALSE>>)
                      \o PrintAll("EffectiveKeyCons", oKey \o <<1>>)
           all     == create
                      \o PrintAll("AllTriggers", oKey) \o PrintAll("AllTabPrivs", oKey)
                      \o PrintAll("UserObjAuditOpts", oKey) \o PrintAll("UserAuditObject", oKey)
                      \o PrintAll("AllTabComments", oKey) \o PrintAll("AllColComments", oKey)
                      \o PrintAll("AllMviewLogs", oKey)
<1> HIDE DEF oKey, inner, cluster, iot
<1>1. Calls(place, 0)
  BY Clauses, Joined, FromMains DEF When, Seconds, Firsts, Leaves
<1>2. Calls(index, 0)
  BY Clauses, Joined, FromMains DEF When, Firsts, Leaves
<1> HIDE DEF place, index
<1>3. PrintMview(s, r) = all
  BY DEF PrintMview, oKey, inner, cluster, iot, place, index
<1>4. Calls(create, 0)
  BY <1>1, <1>2, Clauses, Joined, FromMains DEF Firsts, Leaves
<1> HIDE DEF create
<1>5. Calls(all, 0)
  BY <1>4, Joined, FromMains DEF Firsts, Leaves
<1> QED
  BY <1>3, <1>5

LEMMA FirstPrinters ==
  ASSUME NEW r, NEW x
  PROVE  /\ Calls(PrintMviewLog(d, r), 1) /\ Calls(PrintTabColumn(d, r), 1)
         /\ Calls(PrintAKey(r, x), 1) /\ Calls(PrintFKey(r), 1) /\ Calls(PrintLogGroup(r), 1)
         /\ Calls(PrintExternal(r), 1) /\ Calls(PrintLob(r), 1)
         /\ Calls(PrintIndex(r), 1) /\ Calls(PrintUsingIndex(r), 1)
         /\ Calls(PrintIotIndex(r, x), 1)
<1>1. Calls(PrintMviewLog(d, r), 1)
  BY Clauses, Joined, FromFirsts DEF PrintMviewLog, When, Leaves
<1>2. Calls(PrintTabColumn(d, r), 1)
  BY Clauses, Joined, FromFirsts DEF PrintTabColumn, When, Leaves
<1>3. Calls(PrintAKey(r, x), 1) /\ Calls(PrintFKey(r), 1)
  BY Clauses, Joined, FromFirsts DEF PrintAKey, PrintFKey, Leaves
<1>4. Calls(PrintLogGroup(r), 1) /\ Calls(PrintExternal(r), 1) /\ Calls(PrintLob(r), 1)
  BY Clauses, Joined, FromFirsts DEF PrintLogGroup, PrintExternal, PrintLob, Leaves
<1>5. Calls(IndexStorage(r), 1)
  BY FromFirsts DEF IndexStorage, Seconds, Leaves
<1>6. Calls(PrintIndex(r), 1) /\ Calls(PrintUsingIndex(r), 1)
  BY <1>5, Clauses, Joined, FromFirsts DEF PrintIndex, PrintUsingIndex, Seconds
<1>7. Calls(PrintIotIndex(r, x), 1)
  BY Clauses, Joined, FromFirsts DEF PrintIotIndex, When, Seconds
<1> QED
  BY <1>1, <1>2, <1>3, <1>4, <1>6, <1>7

LEMMA SecondPrinters ==
  ASSUME NEW r
  PROVE  /\ Calls(PrintTableAttributes(r), 2) /\ Calls(PrintIotOverflow(r), 2)
         /\ Calls(PrintPartIndex(r), 2) /\ Calls(PrintIndColumn(r), 2)
<1>1. Calls(PrintTableAttributes(r), 2)
  BY Clauses, Parts, Joined, FromSeconds DEF PrintTableAttributes, When, Thirds, Leaves
<1>2. Calls(PrintIotOverflow(r), 2) /\ Calls(PrintIndColumn(r), 2)
  BY Clauses, Parts, Joined, FromSeconds DEF PrintIotOverflow, PrintIndColumn, When, Leaves
<1>3. Calls(PrintPartIndex(r), 2)
  BY Clauses, Joined, FromSeconds DEF PrintPartIndex, When, Thirds, Leaves
<1> QED
  BY <1>1, <1>2, <1>3

LEMMA PartTableCalls == ASSUME NEW r PROVE Calls(PrintPartTable(r), 3)
<1> DEFINE oKey == <<r.owner, r.name>>
           part == sGetClause(<<r.owner, r.name, 0>>, r.compress)
                   \o Say("partition by", <<r.owner, r.name, r.type>>)
                   \o When(r.type # "REFERENCE", PrintAll("AllPartKeyColumns", oKey))
                   \o When(r.interval,
                           PrintAllWith("TabPartsByQuantity", oKey \o <<TRUE>>, <<"interval">>))
                   \o When(r.type = "HASH",
                           PrintAllWith("TabPartsByQuantity", oKey \o <<TRUE>>, <<"partitions">>))
           sub  == When(r.subtype # "NONE",
                     Say("subpartition by", <<r.owner, r.name, r.subtype>>)
                     \o PrintAll("AllSubPartKeyColumns", oKey)
                     \o PrintAllWith("AllSubPartitionTemplates", oKey, <<r.subtype>>)
                     \o Subtract("DerivedFromTemplate", oKey \o <<TRUE>>)
                     \o When(r.subtype = "HASH",
                             PrintAll("TabSubPartsByQuantity", oKey \o <<TRUE>>)))
           last == PrintAllWith("AllTabPartitions", oKey, <<r.type, r.subtype, r.compress>>)
<1>1. PrintPartTable(r) = part \o sub \o last
  BY DEF PrintPartTable
<1> HIDE DEF oKey
<1>2. Calls(part, 3)
  BY Clauses, Parts, Joined, FromThirds DEF When, Fourths, Leaves
<1>3. Calls(sub, 3)
  BY Clauses, Joined, FromThirds DEF When, Leaves
<1>4. Calls(last, 3)
  BY FromThirds DEF Fourths
<1> HIDE DEF part, sub, last
<1> QED
  BY <1>1, <1>2, <1>3, <1>4, Joined

LEMMA PartitionCalls ==
  ASSUME NEW r, NEW x
  PROVE  Calls(PrintIndPartition(r, x), 3) /\ Calls(PrintTabPartition(r, x), 4)
<1>1. Calls(PrintIndPartition(r, x), 3)
  BY Clauses, Parts, Joined, FromThirds DEF PrintIndPartition, When, Leaves
<1>2. Calls(PrintTabPartition(r, x), 4)
  BY Clauses, Parts, Joined, FromFourths DEF PrintTabPartition, When, Leaves
<1> QED
  BY <1>1, <1>2

(* A row calls printers of lists deeper than its own.                      *)
LEMMA RowCalls ==
  ASSUME NEW s, NEW c, c.by \in DOMAIN Describers, NEW q, NEW i
  PROVE  Calls(PrintRow(s, c, q, i), At(c.by))
<1>1. CASE c.by \in Mains
  <2>1. /\ Calls(PrintDbLink(q[i], i), 0)
        /\ Calls(PrintSequence(q[i]), 0)
        /\ Calls(PrintObject(q[i]), 0)
        /\ Calls(PrintCluster(q[i]), 0)
        /\ Calls(PrintTable(d, s, q[i]), 0)
        /\ Calls(PrintMview(s, q[i]), 0)
        /\ Calls(PrintTableWithFk(d, q[i]), 0)
        /\ Calls(PrintRefresh(q[i]), 0)
        /\ Calls(PrintView(q[i]), 0)
        /\ Calls(PrintSynonym(q[i]), 0)
        /\ Calls(PrintJob(q[i]), 0)
    BY MainPrinters, TableCalls, MviewCalls, ObjectClauses
  <2>2. Calls(PrintRow(s, c, q, i), 0)
    BY <1>1, <2>1 DEF PrintRow, Mains
  <2> QED
    BY <1>1, <2>2, Depths
<1>2. CASE c.by \in Firsts
  <2>1. /\ Calls(PrintMviewLog(d, q[i]), 1)
        /\ Calls(PrintTabColumn(d, q[i]), 1)
        /\ Calls(PrintViewColumn(q[i]), 1)
        /\ Calls(PrintAKey(q[i], c.arg[1]), 1)
        /\ Calls(PrintFKey(q[i]), 1)
        /\ Calls(PrintLogGroup(q[i]), 1)
        /\ Calls(PrintExternal(q[i]), 1)
        /\ Calls(PrintLob(q[i]), 1)
        /\ Calls(PrintIndex(q[i]), 1)
        /\ Calls(PrintIotIndex(q[i], ColumnName(s, q[i].owner, q[i].table, q[i].include)), 1)
        /\ Calls(PrintUsingIndex(q[i]), 1)
        /\ Calls(PrintStoreIn(q, i), 1)
    BY FirstPrinters, TableClauses, PartClauses
  <2>2. Calls(PrintRow(s, c, q, i), 1)
    BY <1>2, <2>1 DEF PrintRow, Firsts
  <2> QED
    BY <1>2, <2>2, Depths
<1>3. CASE c.by \in Seconds
  <2>1. /\ Calls(PrintTableAttributes(q[i]), 2)
        /\ Calls(PrintIotOverflow(q[i]), 2)
        /\ Calls(PrintPartIndex(q[i]), 2)
        /\ Calls(PrintIndColumn(q[i]), 2)
    BY SecondPrinters
  <2>2. Calls(PrintRow(s, c, q, i), 2)
    BY <1>3, <2>1 DEF PrintRow, Seconds
  <2> QED
    BY <1>3, <2>2, Depths
<1>4. CASE c.by \in Thirds
  <2>1. /\ Calls(PrintPartTable(q[i]), 3)
        /\ Calls(PrintPartStorage(q[i]), 3)
        /\ Calls(PrintIndPartition(q[i], c.arg), 3)
        /\ Calls(PrintStoreIn(q, i), 3)
    BY PartTableCalls, PartitionCalls, PartClauses
  <2>2. Calls(PrintRow(s, c, q, i), 3)
    BY <1>4, <2>1 DEF PrintRow, Thirds
  <2> QED
    BY <1>4, <2>2, Depths
<1>5. CASE c.by \in Fourths
  <2>1. /\ Calls(PrintTabPartition(q[i], c.arg), 4)
        /\ Calls(PrintStoreIn(q, i), 4)
    BY PartitionCalls, PartClauses
  <2>2. Calls(PrintRow(s, c, q, i), 4)
    BY <1>5, <2>1 DEF PrintRow, Fourths
  <2> QED
    BY <1>5, <2>2, Depths
<1>6. CASE c.by \in Leaves
  <2>1. /\ Calls(PrintPriv(q[i]), 5)
        /\ Calls(PrintAuditOpts(q[i]), 5)
        /\ Calls(PrintTrail(q[i]), 5)
        /\ Calls(PrintTabComment(q[i]), 5)
        /\ Calls(PrintColComment(q[i]), 5)
        /\ Calls(PrintTrigger(q[i]), 5)
        /\ Calls(PrintSource(q[i]), 5)
        /\ Calls(PrintRefreshChild(q[i], i), 5)
        /\ Calls(PrintLocation(q[i]), 5)
        /\ Calls(PrintDefault(q[i]), 5)
        /\ Calls(PrintSegment(q[i]), 5)
        /\ Calls(PrintLogGroupColumn(q[i]), 5)
        /\ Calls(PrintCluColumn(q[i]), 5)
        /\ Calls(PrintHashExpr(q[i]), 5)
        /\ Calls(PrintFilterCol(s, q[i]), 5)
        /\ Calls(PrintConsColumn(q[i]), 5)
        /\ Calls(PrintCheck(q[i]), 5)
        /\ Calls(PrintEffective(q[i]), 5)
        /\ Calls(PrintParent(q[i]), 5)
        /\ Calls(PrintPartKeyColumn(q[i]), 5)
        /\ Calls(PrintSubPartKeyColumn(q[i]), 5)
        /\ Calls(PrintTabSubPartition(q[i], c.arg), 5)
        /\ Calls(PrintTemplate(q[i], c.arg), 5)
        /\ Calls(PrintIndExpression(q[i]), 5)
        /\ Calls(PrintIndSubPartition(q[i], c.arg), 5)
        /\ Calls(PrintVirtual(q[i]), 5)
        /\ Calls(PrintStoreIn(q, i), 5)
    BY AuditClauses, ObjectClauses, TableClauses, ConstraintClauses, PartClauses
  <2>2. Calls(PrintRow(s, c, q, i), 5)
    BY <1>6, <2>1 DEF PrintRow, Leaves
  <2> QED
    BY <1>6, <2>2, Depths
<1> QED
  BY <1>1, <1>2, <1>3, <1>4, <1>5, <1>6, Depths

(* --- The agenda -------------------------------------------------------- *)

LEMMA Popped ==
  ASSUME NEW s, NEW q, IsAgenda(s, q), q # <<>>
  PROVE  IsAgenda(s, Tail(q))
<1>1. /\ IsSequence(q) /\ IsSequence(Tail(q))
      /\ \A i \in DOMAIN Tail(q) : i + 1 \in DOMAIN q /\ Tail(q)[i] = q[i + 1]
  BY TailOf DEF IsAgenda
<1>2. Len(Tail(q)) \in Nat /\ DOMAIN Tail(q) = 1..Len(Tail(q))
  BY <1>1, SequenceLength
<1>3. \A k \in DOMAIN Tail(q) : IsItem(s, Tail(q)[k])
  BY <1>1 DEF IsAgenda
<1>4. CallsGoDown(Tail(q))
  <2> SUFFICES ASSUME NEW j \in DOMAIN Tail(q), NEW k \in DOMAIN Tail(q), j < k,
                      Tail(q)[k].do \in {"row", "erase"}
               PROVE  StaysBelow(Tail(q)[j], Depth(ListOf(Tail(q)[k])))
    BY DEF CallsGoDown
  <2>1. j + 1 \in DOMAIN q /\ k + 1 \in DOMAIN q /\ j + 1 < k + 1
    BY <1>1, <1>2
  <2>2. Tail(q)[j] = q[j + 1] /\ Tail(q)[k] = q[k + 1]
    BY <1>1
  <2> QED
    BY <2>1, <2>2 DEF IsAgenda, CallsGoDown
<1> QED
  BY <1>1, <1>3, <1>4 DEF IsAgenda

(* The item in front may be replaced by items that stay below whatever it  *)
(* stays below.                                                            *)
LEMMA Replaced ==
  ASSUME NEW s, NEW q, IsAgenda(s, q), q # <<>>, NEW t, IsAgenda(s, t),
         \A i \in DOMAIN t, n \in 0..5 : StaysBelow(Head(q), n) => StaysBelow(t[i], n)
  PROVE  IsAgenda(s, t \o Tail(q))
<1> DEFINE r == Tail(q)
           u == t \o r
<1>1. IsAgenda(s, r) /\ IsSequence(t) /\ IsSequence(r)
  BY Popped DEF IsAgenda
<1>2. /\ IsSequence(q) /\ 1 \in DOMAIN q /\ Head(q) = q[1]
      /\ \A i \in DOMAIN r : i + 1 \in DOMAIN q /\ r[i] = q[i + 1]
  BY TailOf DEF IsAgenda
<1>3. /\ Len(t) \in Nat /\ DOMAIN t = 1..Len(t) /\ Len(r) \in Nat /\ DOMAIN r = 1..Len(r)
  BY <1>1, SequenceLength
<1> HIDE DEF r
<1>4. IsSequence(u)
  BY <1>1, Concatenated
<1>5. ASSUME NEW i \in DOMAIN u
      PROVE  /\ i \in Nat
             /\ \/ i \in DOMAIN t /\ i <= Len(t) /\ u[i] = t[i]
                \/ \E j \in DOMAIN r : i = Len(t) + j /\ i > Len(t) /\ u[i] = r[j]
  BY <1>1, PlacesIn
<1> HIDE DEF u
<1>6. \A i \in DOMAIN u : i \in Nat
  BY <1>5
<1>7. \A k \in DOMAIN u : IsItem(s, u[k])
  BY <1>1, <1>5 DEF IsAgenda
<1>8. CallsGoDown(u)
  <2> SUFFICES ASSUME NEW j \in DOMAIN u, NEW k \in DOMAIN u, j < k,
                      u[k].do \in {"row", "erase"}
               PROVE  StaysBelow(u[j], Depth(ListOf(u[k])))
    BY DEF CallsGoDown
  <2>1. Depth(ListOf(u[k])) \in 0..5
    BY DepthIsNumber
  <2>2. CASE k \in DOMAIN t /\ k <= Len(t) /\ u[k] = t[k]
    <3>1. j <= Len(t)
      BY <1>3, <1>6, <2>2
    <3>2. j \in DOMAIN t /\ u[j] = t[j]
      BY <1>3, <1>5, <1>6, <3>1
    <3> QED
      BY <2>2, <3>2 DEF IsAgenda, CallsGoDown
  <2>3. ASSUME NEW m \in DOMAIN r, k = Len(t) + m, u[k] = r[m]
        PROVE  StaysBelow(u[j], Depth(ListOf(u[k])))
    <3>1. m + 1 \in DOMAIN q /\ u[k] = q[m + 1] /\ 1 < m + 1
      BY <1>2, <1>3, <2>3
    <3>2. CASE j \in DOMAIN t /\ u[j] = t[j]
      <4>1. StaysBelow(Head(q), Depth(ListOf(u[k])))
        BY <1>2, <3>1 DEF IsAgenda, CallsGoDown
      <4> QED
        BY <2>1, <3>2, <4>1
    <3>3. ASSUME NEW l \in DOMAIN r, j = Len(t) + l, u[j] = r[l]
          PROVE  StaysBelow(u[j], Depth(ListOf(u[k])))
      <4>1. l < m
        BY <1>3, <2>3, <3>3
      <4> QED
        BY <1>1, <2>3, <3>3, <4>1 DEF IsAgenda, CallsGoDown
    <3> QED
      BY <1>5, <3>2, <3>3
  <2> QED
    BY <1>5, <2>2, <2>3
<1> QED
  BY <1>4, <1>7, <1>8 DEF IsAgenda, u, r

(* Calls alone are an agenda, and stay below what they are deeper than.    *)
LEMMA CallsAreItems ==
  ASSUME NEW s, NEW t, NEW n \in -1..5, Calls(t, n)
  PROVE  /\ IsAgenda(s, t)
         /\ \A i \in DOMAIN t, m \in 0..5 : m <= n => StaysBelow(t[i], m)
<1>1. \A by : At(by) \in 0..5
  BY DepthIsNumber DEF At
<1>2. \A i \in DOMAIN t : IsItem(s, t[i]) /\ t[i].do \notin {"row", "erase"}
  BY DEF Calls, Callable, IsItem
<1>3. \A i \in DOMAIN t, m \in 0..5 : m <= n => StaysBelow(t[i], m)
  BY <1>1 DEF Calls, Callable, StaysBelow
<1> QED
  BY <1>2, <1>3 DEF IsAgenda, CallsGoDown, Calls

(* --- The items of a call ----------------------------------------------- *)

(* Clauses, figures, rows of this list, the end of its printer.            *)
OfCall(s, a, list) ==
  \/ a.do \in {"say", "count"}
  \/ /\ a.do = "row" /\ a.call.by \in DOMAIN Describers
     /\ Describers[a.call.by].list = list /\ Has(s, list, a.rows[a.i])
  \/ /\ a.do = "erase" /\ a.list = list /\ list \in DOMAIN s
     /\ \A i \in DOMAIN a.rows : Has(s, list, a.rows[i])

(* Nothing but clauses; nothing erased yet; erased behind the last row.    *)
Clausal(t) == IsSequence(t) /\ \A i \in DOMAIN t : t[i].do \in {"say", "count"}

Reads(s, t, list) ==
  IsSequence(t) /\ \A i \in DOMAIN t : OfCall(s, t[i], list) /\ t[i].do # "erase"

Printed(s, t, list) ==
  /\ IsSequence(t)
  /\ \A i \in DOMAIN t : OfCall(s, t[i], list)
  /\ \A j, k \in DOMAIN t : j < k /\ t[j].do = "erase" => t[k].do \in {"say", "count"}

LEMMA ClausesRead ==
  ASSUME NEW s, NEW t, NEW list, Clausal(t) PROVE Reads(s, t, list)
BY DEF Clausal, Reads, OfCall

LEMMA ReadsArePrinted ==
  ASSUME NEW s, NEW t, NEW list, Reads(s, t, list) PROVE Printed(s, t, list)
BY DEF Reads, Printed

LEMMA ReadsJoined ==
  ASSUME NEW s, NEW t, NEW u, NEW list, Reads(s, t, list), Reads(s, u, list)
  PROVE  Reads(s, t \o u, list)
<1>1. IsSequence(t) /\ IsSequence(u)
  BY DEF Reads
<1>2. IsSequence(t \o u)
  BY <1>1, Concatenated
<1>3. ASSUME NEW i \in DOMAIN (t \o u)
      PROVE  OfCall(s, (t \o u)[i], list) /\ (t \o u)[i].do # "erase"
  BY <1>1, PlacesIn DEF Reads
<1> QED
  BY <1>2, <1>3 DEF Reads

(* What erases stands behind what reads, and only clauses behind that.     *)
LEMMA PrintedJoined ==
  ASSUME NEW s, NEW t, NEW u, NEW list, Printed(s, t, list), Printed(s, u, list),
         Reads(s, t, list) \/ Clausal(u)
  PROVE  Printed(s, t \o u, list)
<1> DEFINE v == t \o u
<1>1. IsSequence(t) /\ IsSequence(u)
  BY DEF Printed
<1>2. Len(t) \in Nat /\ DOMAIN t = 1..Len(t) /\ Len(u) \in Nat /\ DOMAIN u = 1..Len(u)
  BY <1>1, SequenceLength
<1>3. IsSequence(v)
  BY <1>1, Concatenated
<1>4. ASSUME NEW i \in DOMAIN v
      PROVE  /\ i \in Nat
             /\ \/ i \in DOMAIN t /\ i <= Len(t) /\ v[i] = t[i]
                \/ \E j \in DOMAIN u : i = Len(t) + j /\ i > Len(t) /\ v[i] = u[j]
  BY <1>1, PlacesIn
<1> HIDE DEF v
<1>5. \A i \in DOMAIN v : i \in Nat
  BY <1>4
<1>6. \A i \in DOMAIN v : OfCall(s, v[i], list)
  BY <1>4 DEF Printed
<1>7. ASSUME NEW j \in DOMAIN v, NEW k \in DOMAIN v, j < k, v[j].do = "erase"
      PROVE  v[k].do \in {"say", "count"}
  <2>1. CASE k \in DOMAIN t /\ k <= Len(t) /\ v[k] = t[k]
    <3>1. j <= Len(t)
      BY <1>2, <1>5, <1>7, <2>1
    <3>2. j \in DOMAIN t /\ v[j] = t[j]
      BY <1>2, <1>4, <1>5, <3>1
    <3> QED
      BY <1>7, <2>1, <3>2 DEF Printed
  <2>2. ASSUME NEW m \in DOMAIN u, k = Len(t) + m, v[k] = u[m]
        PROVE  v[k].do \in {"say", "count"}
    <3>1. CASE j \in DOMAIN t /\ v[j] = t[j]
      BY <1>7, <2>2, <3>1 DEF Reads, Clausal
    <3>2. ASSUME NEW l \in DOMAIN u, j = Len(t) + l, v[j] = u[l]
          PROVE  v[k].do \in {"say", "count"}
      <4>1. l < m
        BY <1>2, <1>7, <2>2, <3>2
      <4> QED
        BY <1>7, <2>2, <3>2, <4>1 DEF Printed
    <3> QED
      BY <1>4, <3>1, <3>2
  <2> QED
    BY <1>4, <2>1, <2>2
<1> QED
  BY <1>3, <1>6, <1>7 DEF Printed, v

LEMMA PrintedIsAgenda ==
  ASSUME NEW s, NEW t, NEW list, Printed(s, t, list)
  PROVE  /\ IsAgenda(s, t)
         /\ \A i \in DOMAIN t, n \in 0..5 : Depth(list) > n => StaysBelow(t[i], n)
<1>1. Depth(list) \in 0..5
  BY DepthIsNumber
<1>2. \A i \in DOMAIN t : IsItem(s, t[i])
  BY DEF Printed, OfCall, IsItem, ListOf
<1>3. \A i \in DOMAIN t, n \in 0..5 : Depth(list) > n => StaysBelow(t[i], n)
  BY <1>1 DEF Printed, OfCall, StaysBelow, At
<1>4. ASSUME NEW j \in DOMAIN t, NEW k \in DOMAIN t, j < k, t[k].do \in {"row", "erase"}
      PROVE  StaysBelow(t[j], Depth(ListOf(t[k])))
  <2>1. ListOf(t[k]) = list
    BY <1>4 DEF Printed, OfCall, ListOf
  <2>2. t[j].do # "erase"
    BY <1>4 DEF Printed
  <2>3. \/ t[j].do \in {"say", "count"}
        \/ t[j].do = "row" /\ At(t[j].call.by) = Depth(list)
    BY <2>2 DEF Printed, OfCall, At
  <2> QED
    BY <1>1, <2>1, <2>3 DEF StaysBelow
<1> QED
  BY <1>2, <1>3, <1>4 DEF IsAgenda, CallsGoDown, Printed

LEMMA ClausalSay ==
  /\ Clausal(<<>>)
  /\ \A kind, of : Clausal(Say(kind, of))
<1>1. Clausal(<<>>)
  BY NoElement DEF Clausal
<1>2. ASSUME NEW kind, NEW of PROVE Clausal(Say(kind, of))
  BY OneElement DEF Clausal, Say
<1> QED
  BY <1>1, <1>2

LEMMA PasswordsAreClauses ==
  ASSUME NEW q, IsSequence(q) PROVE Clausal(UserDbLinksPre(q))
<1> DEFINE m == [i \in DOMAIN q |->
                   [do |-> "say", kind |-> "accept password", of |-> <<i, q[i].owner, q[i].name>>]]
           S == {i \in DOMAIN q : q[i].user = "named"}
<1>1. Len(q) \in Nat /\ DOMAIN q = 1..Len(q)
  BY SequenceLength
<1>2. m \in [1..Len(q) -> {m[i] : i \in 1..Len(q)}]
  BY <1>1
<1>3. IsSequence(m)
  <2> HIDE DEF m
  <2> QED
    BY <1>1, <1>2, FunctionIsSequence
<1>4. \A i \in DOMAIN m : m[i].do = "say"
  OBVIOUS
<1>5. S \in SUBSET DOMAIN m
  OBVIOUS
<1>6. UserDbLinksPre(q) = Kept(m, S)
  BY DEF UserDbLinksPre
<1> HIDE DEF m, S
<1> QED
  BY <1>3, <1>4, <1>5, <1>6, KeptOf DEF Clausal

(* What is written around the rows.                                        *)
LEMMA AroundRows ==
  ASSUME NEW s, AreLists(s), NEW c
  PROVE  Clausal(PrintPreRows(s, c)) /\ Clausal(PrintPostRows(c)) /\ Clausal(PrintNotFound(c))
<1>1. IsSequence(s.UserDbLinks)
  <2>1. "UserDbLinks" \in DOMAIN Describers
    BY Depths DEF Mains
  <2>2. Describers["UserDbLinks"].list = "UserDbLinks"
    BY ByName, ListNames
  <2> QED
    BY <2>1, <2>2 DEF AreLists
<1>2. Clausal(UserDbLinksPre(s.UserDbLinks))
  BY <1>1, PasswordsAreClauses
<1>3. Clausal(PrintPreRows(s, c))
  BY <1>2, ClausalSay DEF PrintPreRows, AuditOptsPre, AllSourcePre, DataDefaultPre,
     UserCluColumnsPre, ConsOfAKeyPre, EffectivePre, When
<1>4. Clausal(PrintPostRows(c))
  BY ClausalSay DEF PrintPostRows, AllRefreshChildrenEnd
<1>5. Clausal(PrintNotFound(c))
  BY ClausalSay DEF PrintNotFound, AllSourceNotFound, AllRefreshChildrenEnd,
     EffectiveNotFound, TabPartsNotFound, When
<1> QED
  BY <1>3, <1>4, <1>5

(* What is found is in the list.                                           *)
LEMMA FoundIn ==
  ASSUME NEW s, AreLists(s), NEW by \in DOMAIN Describers, NEW key
  PROVE  /\ IsSequence(Found(s, Describers[by], key))
         /\ \A i \in DOMAIN Found(s, Describers[by], key) :
              Has(s, Describers[by].list, Found(s, Describers[by], key)[i])
<1> DEFINE q == s[Describers[by].list]
           S == {i \in DOMAIN q : Matches(Describers[by].key, key, q[i])}
<1>1. IsSequence(q)
  BY DEF AreLists
<1>2. Found(s, Describers[by], key) = Kept(q, S)
  BY DEF Found
<1>3. S \in SUBSET DOMAIN q
  OBVIOUS
<1> HIDE DEF S
<1>4. \A n \in DOMAIN Kept(q, S) : \E i \in DOMAIN q : Kept(q, S)[n] = q[i]
  BY <1>1, <1>3, KeptOf
<1>5. IsSequence(Kept(q, S))
  BY <1>1, <1>3, KeptOf
<1> QED
  BY <1>2, <1>4, <1>5 DEF Has

LEMMA Matched ==
  ASSUME NEW s, AreLists(s), NEW c, c.by \in DOMAIN Describers
  PROVE  Printed(s, PrintMatched(s, c), Describers[c.by].list)
<1> DEFINE list == Describers[c.by].list
           q    == Found(s, Describers[c.by], c.key)
           rows == [i \in DOMAIN q |-> [do |-> "row", call |-> c, rows |-> q, i |-> i]]
           last == [do |-> "erase", list |-> list, rows |-> q, dispose |-> c.dispose]
<1>1. IsSequence(q) /\ \A i \in DOMAIN q : Has(s, list, q[i])
  BY FoundIn
<1>2. list \in DOMAIN s
  BY DEF AreLists
<1>3. Len(q) \in Nat /\ DOMAIN q = 1..Len(q)
  BY <1>1, SequenceLength
<1>4. PrintMatched(s, c) =
        IF q = <<>> THEN PrintNotFound(c)
        ELSE PrintPreRows(s, c) \o rows \o PrintPostRows(c) \o <<last>>
  BY DEF PrintMatched
<1> HIDE DEF q, list
<1>5. Reads(s, rows, list)
  <2>1. rows \in [1..Len(q) -> {rows[i] : i \in 1..Len(q)}]
    BY <1>3
  <2>2. IsSequence(rows)
    <3> HIDE DEF rows
    <3> QED
      BY <1>3, <2>1, FunctionIsSequence
  <2>3. ASSUME NEW i \in DOMAIN rows PROVE OfCall(s, rows[i], list) /\ rows[i].do # "erase"
    <3>1. i \in DOMAIN q /\ rows[i] = [do |-> "row", call |-> c, rows |-> q, i |-> i]
      OBVIOUS
    <3>2. Has(s, list, q[i])
      BY <1>1, <3>1
    <3> HIDE DEF rows
    <3> QED
      BY <3>1, <3>2 DEF OfCall, list
  <2> HIDE DEF rows
  <2> QED
    BY <2>2, <2>3 DEF Reads
<1>6. Printed(s, <<last>>, list)
  <2>1. OfCall(s, last, list)
    BY <1>1, <1>2 DEF OfCall
  <2> HIDE DEF last
  <2> QED
    BY <2>1, OneElement DEF Printed
<1> HIDE DEF rows, last
<1>7. Reads(s, PrintPreRows(s, c) \o rows \o PrintPostRows(c), list)
  BY <1>5, AroundRows, ClausesRead, ReadsJoined
<1>8. Printed(s, PrintPreRows(s, c) \o rows \o PrintPostRows(c) \o <<last>>, list)
  BY <1>6, <1>7, ReadsArePrinted, PrintedJoined
<1>9. Printed(s, PrintNotFound(c), list)
  BY AroundRows, ClausesRead, ReadsArePrinted
<1> QED
  BY <1>4, <1>8, <1>9 DEF list

LEMMA ItemsPrinted ==
  ASSUME NEW s, AreLists(s), NEW c, c.by \in DOMAIN Describers
  PROVE  Printed(s, PrintItems(s, c), Describers[c.by].list)
<1>1. CASE c.by = "UserIndexes" /\ c.arg = <<TRUE>>
  <2> DEFINE e == [do |-> "print", by |-> "IotIndex",
                   key |-> <<c.key[1], c.key[2], "IOT - TOP">>,
                   dispose |-> c.dispose, arg |-> c.arg]
  <2>1. PrintItems(s, c) = PrintMatched(s, e)
    BY <1>1 DEF PrintItems
  <2>2. e.by = "IotIndex" /\ "IotIndex" \in DOMAIN Describers
    BY Depths DEF Firsts
  <2>3. Describers["IotIndex"].list = Describers["UserIndexes"].list
    BY ByName, ListNames
  <2> HIDE DEF e
  <2> QED
    BY <1>1, <2>1, <2>2, <2>3, Matched
<1>2. CASE ~(c.by = "UserIndexes" /\ c.arg = <<TRUE>>)
  <2> DEFINE a == [do |-> "count", label |-> c.arg[1], n |-> Len(Found(s, AllObjects, c.key))]
             u == IF c.by = "AllObjects" THEN <<a>> ELSE <<>>
  <2>1. PrintItems(s, c) = PrintMatched(s, c) \o u
    BY <1>2 DEF PrintItems, When
  <2>2. a.do = "count"
    OBVIOUS
  <2> HIDE DEF a
  <2>3. Clausal(u)
    BY <2>2, OneElement, NoElement DEF Clausal
  <2> HIDE DEF u
  <2> QED
    BY <2>1, <2>3, Matched, ClausesRead, ReadsArePrinted, PrintedJoined
<1> QED
  BY <1>1, <1>2

(* --- Where the script starts ------------------------------------------- *)

LEMMA OwnerCalls == ASSUME NEW owner PROVE Calls(PrintOwner(owner), -1)
<1> DEFINE first == Say("alter session", <<owner>>)
                    \o PrintAll("UserDbLinks", <<owner>>) \o PrintAll("AllSequences", <<owner>>)
                    \o Programs(owner, "type") \o Programs(owner, "pckg")
                    \o Programs(owner, "func") \o Programs(owner, "proc")
                    \o PrintAll("AllClusters", <<owner>>) \o PrintAll("OutputOrderTbl", <<owner>>)
           all   == first
                    \o PrintAll("AllMviews", <<owner>>) \o PrintAll("TablesWithFk", <<owner>>)
                    \o PrintAll("AllRefresh", <<owner>>) \o PrintAll("AllViews", <<owner>>)
                    \o Programs(owner, "typb") \o Programs(owner, "pkgb")
                    \o PrintAll("AllSynonyms", <<owner>>) \o PrintAll("UserJobs", <<owner>>)
<1>1. \A label : Calls(Programs(owner, label), -1)
  BY FromVRun DEF Programs, Mains
<1>2. PrintOwner(owner) = all
  BY DEF PrintOwner
<1>3. Calls(first, -1)
  BY <1>1, Clauses, Joined, FromVRun DEF Mains
<1> HIDE DEF first
<1>4. Calls(all, -1)
  BY <1>1, <1>3, Joined, FromVRun DEF Mains
<1> QED
  BY <1>2, <1>4

(* Every describer has its list among the queries.                         *)
LEMMA ListQueried ==
  ASSUME NEW x, NEW by \in DOMAIN Describers
  PROVE  Describers[by].list \in DOMAIN Queried(x)
<1>1. CASE by \in Mains
  BY <1>1, ByName, ListNames DEF Mains, Queried
<1>2. CASE by \in Firsts
  BY <1>2, ByName, ListNames DEF Firsts, Queried
<1>3. CASE by \in Seconds \cup Thirds \cup Fourths
  BY <1>3, ByName, ListNames DEF Seconds, Thirds, Fourths, Queried
<1>4. CASE by \in Leaves
  BY <1>4, ByName, ListNames DEF Leaves, Queried
<1> QED
  BY <1>1, <1>2, <1>3, <1>4, Depths

LEMMA ListsLoaded ==
  ASSUME NEW x \in Dictionaries PROVE AreLists(Loaded(x))
<1> DEFINE Order(list) == IF list = "AllColumns" THEN AllTabColumns.order
                          ELSE IF list = "ConsOfCheck" /\ ~ConsOfCheckSorted(x) THEN <<>>
                          ELSE Describers[list].order
<1>1. Loaded(x) = [list \in DOMAIN Queried(x) |-> Sorted(Order(list), Queried(x)[list])]
  BY DEF Loaded
<1>2. \A list \in DOMAIN Queried(x) : IsFiniteSet(Queried(x)[list])
  BY DictionariesAssumption
<1> HIDE DEF Order
<1>3. \A list \in DOMAIN Queried(x) : IsSequence(Sorted(Order(list), Queried(x)[list]))
  BY <1>2, SortedOf
<1> QED
  BY <1>1, <1>3, ListQueried DEF AreLists

LEMMA AgendaStarts == Init => AgendaInv
<1> SUFFICES ASSUME Init PROVE AgendaInv
  OBVIOUS
<1>1. AreLists(store)
  BY ListsLoaded DEF Init
<1>2. IsSequence(d.owners)
  BY DictionariesAssumption DEF Init
<1>3. Len(d.owners) \in Nat /\ DOMAIN d.owners = 1..Len(d.owners)
  BY <1>2, SequenceLength
<1>4. agenda = [i \in 1..Len(d.owners) |-> [do |-> "owner", owner |-> d.owners[i]]]
  BY <1>3 DEF Init
<1>5. agenda \in [1..Len(d.owners) -> {agenda[i] : i \in 1..Len(d.owners)}]
  BY <1>4
<1>6. IsSequence(agenda) /\ DOMAIN agenda = 1..Len(d.owners)
  BY <1>3, <1>5, FunctionIsSequence
<1>7. \A i \in DOMAIN agenda : agenda[i].do = "owner"
  BY <1>4, <1>6
<1> QED
  BY <1>1, <1>6, <1>7 DEF AgendaInv, IsAgenda, IsItem, CallsGoDown

(* --- Every step -------------------------------------------------------- *)

(* A step that leaves the lists alone need only look after the agenda.     *)
LEMMA OwnerKeeps == ASSUME AgendaInv, Owner PROVE AgendaInv'
<1> DEFINE t == PrintOwner(Head(agenda).owner)
<1>1. agenda # <<>> /\ Head(agenda).do = "owner" /\ agenda' = t \o Tail(agenda) /\ store' = store
  BY DEF Owner, Turn
<1>2. IsAgenda(store, t)
  BY OwnerCalls, CallsAreItems
<1>3. \A n : ~StaysBelow(Head(agenda), n)
  BY <1>1 DEF StaysBelow
<1> HIDE DEF t
<1>4. IsAgenda(store, agenda')
  BY <1>1, <1>2, <1>3, Replaced DEF AgendaInv
<1> QED
  BY <1>1, <1>4 DEF AgendaInv

LEMMA CallKeeps == ASSUME AgendaInv, Call PROVE AgendaInv'
<1> DEFINE c == Head(agenda)
           t == PrintItems(store, c)
<1>1. agenda # <<>> /\ c.do = "print" /\ agenda' = t \o Tail(agenda) /\ store' = store
  BY DEF Call, Turn
<1>2. IsItem(store, c)
  BY <1>1, TailOf DEF AgendaInv, IsAgenda
<1>3. c.by \in DOMAIN Describers
  BY <1>1, <1>2 DEF IsItem
<1> HIDE DEF c
<1>4. Printed(store, t, Describers[c.by].list)
  BY <1>3, ItemsPrinted DEF AgendaInv
<1> HIDE DEF t
<1>5. /\ IsAgenda(store, t)
      /\ \A i \in DOMAIN t, n \in 0..5 : At(c.by) > n => StaysBelow(t[i], n)
  BY <1>4, PrintedIsAgenda DEF At
<1>6. \A n : StaysBelow(c, n) => At(c.by) > n
  BY <1>1 DEF StaysBelow
<1>7. IsAgenda(store, t \o Tail(agenda))
  BY <1>1, <1>5, <1>6, Replaced DEF AgendaInv, c
<1> QED
  BY <1>1, <1>7 DEF AgendaInv

LEMMA RowKeeps == ASSUME AgendaInv, Row PROVE AgendaInv'
<1> DEFINE a == Head(agenda)
           t == PrintRow(store, a.call, a.rows, a.i)
<1>1. agenda # <<>> /\ a.do = "row" /\ agenda' = t \o Tail(agenda) /\ store' = store
  BY DEF Row, Turn
<1>2. IsItem(store, a)
  BY <1>1, TailOf DEF AgendaInv, IsAgenda
<1>3. a.call.by \in DOMAIN Describers
  BY <1>1, <1>2 DEF IsItem
<1> HIDE DEF a
<1>4. Calls(t, At(a.call.by)) /\ At(a.call.by) \in 0..5
  BY <1>3, RowCalls, DepthIsNumber DEF At
<1> HIDE DEF t
<1>5. /\ IsAgenda(store, t)
      /\ \A i \in DOMAIN t, n \in 0..5 : n <= At(a.call.by) => StaysBelow(t[i], n)
  BY <1>4, CallsAreItems
<1>6. \A n \in 0..5 : StaysBelow(a, n) => n <= At(a.call.by)
  BY <1>1, <1>4 DEF StaysBelow
<1>7. IsAgenda(store, t \o Tail(agenda))
  BY <1>1, <1>5, <1>6, Replaced DEF AgendaInv, a
<1> QED
  BY <1>1, <1>7 DEF AgendaInv

LEMMA WithoutIsSequence ==
  ASSUME NEW q, IsSequence(q), NEW rows PROVE IsSequence(Without(q, rows))
<1> DEFINE S == {i \in DOMAIN q : ~\E j \in DOMAIN rows : rows[j] = q[i]}
<1>1. S \in SUBSET DOMAIN q /\ Without(q, rows) = Kept(q, S)
  BY DEF Without
<1> HIDE DEF S
<1> QED
  BY <1>1, KeptOf

(* Rows may be taken out of a list when all that stand on a list stand on  *)
(* one less deep.                                                          *)
LEMMA ErasureKeeps ==
  ASSUME NEW s, AreLists(s), NEW q, IsAgenda(s, q), q # <<>>,
         NEW list \in DOMAIN s, NEW rows,
         \A n \in 0..5 : StaysBelow(Head(q), n) => Depth(list) > n
  PROVE  LET t == [s EXCEPT ![list] = Without(@, rows)]
         IN  AreLists(t) /\ IsAgenda(t, Tail(q))
<1> DEFINE t == [s EXCEPT ![list] = Without(@, rows)]
<1>1. /\ DOMAIN t = DOMAIN s
      /\ \A l \in DOMAIN s : t[l] = IF l = list THEN Without(s[list], rows) ELSE s[l]
  OBVIOUS
<1>2. AreLists(t)
  <2>1. IsSequence(Without(s[list], rows))
    BY WithoutIsSequence DEF AreLists
  <2> HIDE DEF t
  <2> QED
    BY <1>1, <2>1 DEF AreLists
<1> HIDE DEF t
<1>3. /\ IsAgenda(s, Tail(q)) /\ 1 \in DOMAIN q /\ Head(q) = q[1]
      /\ IsSequence(Tail(q))
      /\ \A i \in DOMAIN Tail(q) : i + 1 \in DOMAIN q /\ Tail(q)[i] = q[i + 1]
  BY Popped, TailOf DEF IsAgenda
<1>4. ASSUME NEW k \in DOMAIN Tail(q) PROVE IsItem(t, Tail(q)[k])
  <2> DEFINE a == Tail(q)[k]
  <2>1. IsItem(s, a)
    BY <1>3 DEF IsAgenda
  <2>2. CASE a.do \in {"row", "erase"}
    <3>1. k \in Nat /\ k # 0
      BY <1>3, SequenceLength
    <3>2. StaysBelow(Head(q), Depth(ListOf(a)))
      <4>1. a = q[k + 1] /\ k + 1 \in DOMAIN q /\ 1 < k + 1
        BY <1>3, <3>1
      <4> QED
        BY <1>3, <2>2, <4>1 DEF IsAgenda, CallsGoDown
    <3>3. Depth(list) > Depth(ListOf(a)) /\ Depth(ListOf(a)) \in 0..5
      BY <3>2, DepthIsNumber
    <3>4. ListOf(a) # list
      BY <3>3
    <3> HIDE DEF a
    <3>5. ListOf(a) \in DOMAIN s
      BY <2>1, <2>2 DEF IsItem, ListOf, AreLists
    <3>6. t[ListOf(a)] = s[ListOf(a)]
      BY <1>1, <3>4, <3>5
    <3>7. \A r : Has(t, ListOf(a), r) <=> Has(s, ListOf(a), r)
      BY <3>6 DEF Has
    <3>8. IsItem(t, a)
      BY <1>1, <2>1, <2>2, <3>7 DEF IsItem
    <3> QED
      BY <3>8 DEF a
  <2>3. CASE a.do \notin {"row", "erase"}
    BY <2>1, <2>3 DEF IsItem
  <2> QED
    BY <2>2, <2>3
<1>5. IsAgenda(t, Tail(q))
  BY <1>3, <1>4 DEF IsAgenda
<1> QED
  BY <1>2, <1>5 DEF t

LEMMA EraseKeeps == ASSUME AgendaInv, Erase PROVE AgendaInv'
<1> DEFINE a == Head(agenda)
<1>1. /\ agenda # <<>> /\ a.do = "erase" /\ agenda' = Tail(agenda)
      /\ store' = IF a.dispose THEN [store EXCEPT ![a.list] = Without(@, a.rows)] ELSE store
  BY DEF Erase, Turn
<1>2. IsItem(store, a)
  BY <1>1, TailOf DEF AgendaInv, IsAgenda
<1>3. a.list \in DOMAIN store
  BY <1>1, <1>2 DEF IsItem
<1>4. \A n : StaysBelow(a, n) => Depth(a.list) > n
  BY <1>1 DEF StaysBelow
<1>5. CASE a.dispose
  BY <1>1, <1>3, <1>4, <1>5, ErasureKeeps DEF AgendaInv
<1>6. CASE ~a.dispose
  BY <1>1, <1>6, Popped DEF AgendaInv
<1> QED
  BY <1>5, <1>6

LEMMA EraseUnprintedKeeps == ASSUME AgendaInv, EraseUnprinted PROVE AgendaInv'
<1> DEFINE a    == Head(agenda)
           list == Describers[a.by].list
           rows == Found(store, Describers[a.by], a.key)
<1>1. /\ agenda # <<>> /\ a.do = "subtract" /\ agenda' = Tail(agenda)
      /\ store' = [store EXCEPT ![list] = Without(@, rows)]
  BY DEF EraseUnprinted, Turn
<1>2. IsItem(store, a)
  BY <1>1, TailOf DEF AgendaInv, IsAgenda
<1>3. list \in DOMAIN store
  BY <1>1, <1>2 DEF IsItem, AgendaInv, AreLists
<1>4. \A n : StaysBelow(a, n) => Depth(list) > n
  BY <1>1 DEF StaysBelow, At
<1> HIDE DEF list, rows
<1> QED
  BY <1>1, <1>3, <1>4, ErasureKeeps DEF AgendaInv

LEMMA AgendaStep == ASSUME AgendaInv, [Next]_vars PROVE AgendaInv'
<1>1. CASE Write \/ Count
  <2>1. agenda # <<>> /\ agenda' = Tail(agenda) /\ store' = store
    BY <1>1 DEF Write, Count, Turn
  <2> QED
    BY <2>1, Popped DEF AgendaInv
<1>2. CASE Raise
  <2>1. agenda' = <<>> /\ store' = store
    BY <1>2 DEF Raise
  <2> QED
    BY <2>1, NoElement DEF AgendaInv, IsAgenda, CallsGoDown
<1>3. CASE Finish \/ Ended \/ UNCHANGED vars
  <2>1. agenda' = agenda /\ store' = store
    BY <1>3 DEF Finish, Ended, vars
  <2> QED
    BY <2>1 DEF AgendaInv
<1> QED
  BY <1>1, <1>2, <1>3, OwnerKeeps, CallKeeps, RowKeeps, EraseKeeps, EraseUnprintedKeeps DEF Next

(* Whatever is printed, printers call printers of lists further down only, *)
(* and every row the script still has to turn to is in its list.           *)
THEOREM AgendaIsKept == Spec => []AgendaInv
<1>1. Init => AgendaInv
  BY AgendaStarts
<1>2. AgendaInv /\ [Next]_vars => AgendaInv'
  BY AgendaStep
<1> QED
  BY <1>1, <1>2, PTL DEF Spec

(* No printer erases rows that a printer above it still stands on, or will *)
(* erase: vPrintMatched may keep iterators into the lists all printers     *)
(* share, whatever the dictionary.                                         *)
THEOREM RowsStay == Spec => []RowsStayWhileRead
<1>1. AgendaInv => RowsStayWhileRead
  BY DEF AgendaInv, IsAgenda, IsItem, RowsStayWhileRead
<1> QED
  BY <1>1, AgendaIsKept, PTL

-----------------------------------------------------------------------------
(* The readers (MetaFetch).                                                *)

LEMMA BulkIsASequence ==
  ASSUME NEW A \in [1..BulkSize -> Int], NEW k \in 0..BulkSize
  PROVE  /\ SubSeq(A, 1, k) \in Seq(Int) /\ Len(SubSeq(A, 1, k)) = k
         /\ \A i \in 1..k : SubSeq(A, 1, k)[i] = A[i]
BY SizeAssumption

(* The rows of the array make the beginning of a result longer.            *)
LEMMA BulkIsAdded ==
  ASSUME NEW R \in Seq(Int), NEW A \in [1..BulkSize -> Int],
         NEW n \in Nat, NEW k \in 0..BulkSize, n + k <= Len(R),
         \A i \in 1..k : A[i] = R[n + i]
  PROVE  SubSeq(R, 1, n) \o SubSeq(A, 1, k) = SubSeq(R, 1, n + k)
<1> DEFINE s == SubSeq(R, 1, n)
           t == SubSeq(A, 1, k)
           u == SubSeq(R, 1, n + k)
           st == s \o t
<1>0. Len(R) \in Nat /\ \A i \in 1..Len(R) : R[i] \in Int
  OBVIOUS
<1>1. \A m \in 0..Len(R) :
        /\ SubSeq(R, 1, m) \in Seq(Int) /\ Len(SubSeq(R, 1, m)) = m
        /\ \A i \in 1..m : SubSeq(R, 1, m)[i] = R[i]
  BY <1>0
<1>2. n \in 0..Len(R) /\ n + k \in 0..Len(R)
  BY <1>0
<1>3. /\ s \in Seq(Int) /\ Len(s) = n
      /\ \A i \in 1..n : s[i] = R[i]
  BY <1>1, <1>2
<1>4. /\ u \in Seq(Int) /\ Len(u) = n + k
      /\ \A i \in 1..(n + k) : u[i] = R[i]
  BY <1>1, <1>2
<1>5. /\ t \in Seq(Int) /\ Len(t) = k
      /\ \A i \in 1..k : t[i] = A[i]
  BY BulkIsASequence
<1> HIDE DEF s, t, u
<1>6. /\ st \in Seq(Int) /\ Len(st) = n + k
      /\ \A i \in 1..n : st[i] = s[i]
      /\ \A i \in 1..k : st[n + i] = t[i]
  <2>0. s \in Seq(Int) /\ t \in Seq(Int)
    BY <1>3, <1>5
  <2>1. /\ st \in Seq(Int) /\ Len(st) = Len(s) + Len(t)
        /\ \A i \in 1 .. Len(s) + Len(t) :
             st[i] = IF i <= Len(s) THEN s[i] ELSE t[i - Len(s)]
    BY <2>0, ConcatProperties, SMTT(40) DEF st
  <2> HIDE DEF st
  <2>2. \A i \in 1..n : st[i] = s[i]
    BY <1>3, <1>5, <2>1
  <2>3. ASSUME NEW i \in 1..k PROVE st[n + i] = t[i]
    BY <1>3, <1>5, <2>1
  <2>4. QED
    BY <1>3, <1>5, <2>1, <2>2, <2>3
<1> HIDE DEF st
<1>7. ASSUME NEW i \in 1..(n + k) PROVE st[i] = u[i]
  <2>1. CASE i <= n
    <3>1. i \in 1..n
      BY <2>1
    <3>2. QED
      BY <1>3, <1>4, <1>6, <3>1
  <2>2. CASE i > n
    <3>1. PICK j \in 1..k : i = n + j
      <4>1. i - n \in 1..k /\ n + (i - n) = i
        BY <2>2
      <4>2. QED
        BY <4>1
    <3>2. st[i] = A[j] /\ u[i] = R[n + j]
      BY <1>4, <1>5, <1>6, <3>1
    <3>3. QED
      BY <3>2
  <2>3. QED
    BY <2>1, <2>2
<1>8. st = u
  BY <1>4, <1>6, <1>7, SeqEqual
<1>9. QED
  BY <1>8 DEF s, t, u, st

(* Where vSynchronize runs one at a time, it starts one when none runs.    *)
LEMMA NoneIsRunning ==
  ASSUME iConcurrency = 1, Cardinality(Running) < iConcurrency
  PROVE  Running = {}
<1> DEFINE slots == 1..Len(oQueue)
<1>1. oQueue \in Surjection(slots, Readers)
  BY QueueAssumption DEF Surjection
<1>2. IsFiniteSet(slots)
  <2>1. Len(oQueue) \in Int /\ 1 \in Int
    BY QueueAssumption
  <2>2. QED
    BY <2>1, FS_Interval, Zenon
<1> HIDE DEF slots
<1>3. IsFiniteSet(Readers)
  BY <1>1, <1>2, FS_Surjection
<1>4. IsFiniteSet(Running)
  BY <1>3, FS_Subset DEF Running
<1>5. Cardinality(Running) \in Nat
  BY <1>4, FS_CardinalityType
<1>6. Cardinality(Running) = 0
  BY <1>5, SizeAssumption
<1>7. QED
  BY <1>4, <1>6, FS_EmptySet

-----------------------------------------------------------------------------
(* The main thread and the signal.                                         *)

LEMMA FetchBegins == FetchInit => FetchInv
<1> SUFFICES ASSUME FetchInit PROVE FetchInv
  OBVIOUS
<1>1. TypeOK
  <2>1. /\ head \in 1..(Len(oQueue) + 1)
        /\ iNumIter \in [Readers -> 0..BulkSize]
        /\ array \in [Arrays -> [1..BulkSize -> Int]]
    BY QueueAssumption, SizeAssumption DEF FetchInit, NoRow
  <2>2. sent \in [Readers -> Nat] /\ oList \in [Readers -> Seq(Int)]
    BY DEF FetchInit
  <2>3. \A r \in Readers : sent[r] <= Len(Rows[r])
    <3>1. \A r \in Readers : Len(Rows[r]) \in Nat
      BY RowsAssumption
    <3>2. QED
      BY <3>1 DEF FetchInit
  <2>4. QED
    BY <2>1, <2>2, <2>3 DEF FetchInit, TypeOK
<1>2. ReadersAreTaken
  BY QueueAssumption DEF FetchInit, ReadersAreTaken, Running
<1>3. NothingIsReadBefore /\ DoneIsComplete
  BY DEF FetchInit, NothingIsReadBefore, DoneIsComplete
<1>4. \A r \in Readers : ListIsTheBeginning(r)
  BY DEF FetchInit, ListIsTheBeginning, Taken
<1>5. QED
  BY <1>1, <1>2, <1>3, <1>4 DEF FetchInv

(* A reader is started, and nothing else of the readers' state changes.    *)
LEMMA StartKeeps ==
  ASSUME FetchInv, Start, head <= Len(oQueue), pc \notin {"join", "script"},
         pc' \in {"instant", "loop"}, cont_' \in BOOLEAN, ep' \in BOOLEAN,
         cont_' => cont_, iConcurrency = 1 => Running = {}
  PROVE  FetchInv'
<1> DEFINE x == oQueue[head]
<1>1. /\ head \in DOMAIN oQueue /\ x \in Readers /\ progress[x] = "queued"
      /\ progress' = [progress EXCEPT ![x] = "started"] /\ head' = head + 1
      /\ head \in Nat /\ Len(oQueue) \in Nat
      /\ UNCHANGED <<sent, iNumIter, array, oList>>
  BY QueueAssumption DEF FetchInv, TypeOK, ReadersAreTaken, Start
<1>2. TypeOK'
  <2>1. /\ head' \in 1..(Len(oQueue) + 1)
        /\ progress' \in [Readers -> {"queued", "started", "fetching", "done",
                                      "failed"}]
    BY <1>1 DEF FetchInv, TypeOK
  <2>2. QED
    BY <1>1, <2>1 DEF FetchInv, TypeOK
<1>3. \A r \in Readers : progress'[r] = IF r = x THEN "started" ELSE progress[r]
  BY <1>1 DEF FetchInv, TypeOK
<1>4. ReadersAreTaken'
  <2>1. ASSUME NEW i \in DOMAIN oQueue
        PROVE  progress'[oQueue[i]] = "queued" <=> i >= head + 1
    <3>1. oQueue[i] \in Readers /\ i \in Nat
      BY QueueAssumption
    <3>2. oQueue[i] = x <=> i = head
      BY <1>1, QueueAssumption
    <3>3. QED
      BY <1>1, <1>3, <3>1, <3>2 DEF FetchInv, ReadersAreTaken
  <2>2. iConcurrency = 1 => \A r \in Running' : r = x
    BY <1>3 DEF Running
  <2>3. QED
    BY <1>1, <2>1, <2>2 DEF ReadersAreTaken
<1>5. NothingIsReadBefore'
  BY <1>1, <1>3 DEF FetchInv, NothingIsReadBefore
<1>6. ASSUME NEW r \in Readers, ListIsTheBeginning(r)
      PROVE  ListIsTheBeginning(r)'
  <2>1. Taken(r)' = Taken(r) /\ oList'[r] = oList[r]
    BY <1>1 DEF Taken
  <2>2. progress'[r] = "fetching" => progress[r] = "fetching"
    BY <1>3
  <2>3. QED
    BY <1>1, <1>6, <2>1, <2>2 DEF ListIsTheBeginning
<1>7. DoneIsComplete'
  BY <1>1, <1>3 DEF FetchInv, DoneIsComplete
<1>8. QED
  BY <1>2, <1>4, <1>5, <1>6, <1>7 DEF FetchInv, IsUndisturbed, HasOwnArray

(* Nobody reads: only the main thread's place or a flag changes.           *)
LEMMA RestKeeps ==
  ASSUME FetchInv, UNCHANGED <<head, readerVars>>, cont_' => cont_,
         cont_' \in BOOLEAN, ep' \in BOOLEAN,
         pc' \in {"instant", "loop", "pop", "join", "rethrow", "script", "raised"},
         pc' = "pop" => head <= Len(oQueue),
         pc' \in {"join", "script"} /\ cont_' => head = Len(oQueue) + 1,
         pc' = "script" => Running = {}
  PROVE  FetchInv'
<1>1. UNCHANGED <<progress, sent, iNumIter, array, oList, head>>
  BY DEF readerVars
<1>2. TypeOK'
  BY <1>1 DEF FetchInv, TypeOK
<1>3. ReadersAreTaken'
  BY <1>1 DEF FetchInv, ReadersAreTaken, Running
<1>4. NothingIsReadBefore'
  BY <1>1 DEF FetchInv, NothingIsReadBefore
<1>5. ASSUME NEW r \in Readers, ListIsTheBeginning(r)
      PROVE  ListIsTheBeginning(r)'
  BY <1>1, <1>5 DEF ListIsTheBeginning, Taken
<1>6. DoneIsComplete'
  BY <1>1 DEF FetchInv, DoneIsComplete, Running
<1>7. QED
  BY <1>2, <1>3, <1>4, <1>5, <1>6 DEF FetchInv, IsUndisturbed, HasOwnArray

LEMMA MainKeeps == ASSUME FetchInv, Main \/ Interrupt \/ UNCHANGED fetchVars PROVE FetchInv'
<1>0. /\ pc \in {"instant", "loop", "pop", "join", "rethrow", "script", "raised"}
      /\ head \in 1..(Len(oQueue) + 1) /\ cont_ \in BOOLEAN /\ ep \in BOOLEAN
      /\ Len(oQueue) \in Nat
      /\ pc = "pop" => head <= Len(oQueue)
      /\ pc \in {"join", "script"} /\ cont_ => head = Len(oQueue) + 1
      /\ pc = "script" => Running = {}
  BY QueueAssumption, SMTT(20) DEF FetchInv, TypeOK, ReadersAreTaken, DoneIsComplete
<1>1. CASE ExecuteInstantly
  <2>1. /\ Start /\ head <= Len(oQueue) /\ Running = {} /\ pc = "instant"
        /\ UNCHANGED <<pc, cont_, ep>>
    BY <1>0, <1>1, QueueAssumption DEF ExecuteInstantly
  <2>2. QED
    BY <1>0, <2>1, StartKeeps
<1>2. CASE Submit
  <2>1. /\ Start /\ pc = "pop" /\ Cardinality(Running) < iConcurrency
        /\ pc' = "loop" /\ cont_' = (cont_ /\ ~ep) /\ ep' = ep
    BY <1>2 DEF Submit
  <2>2. iConcurrency = 1 => Running = {}
    BY <2>1, NoneIsRunning
  <2>3. QED
    BY <1>0, <2>1, <2>2, StartKeeps
<1>3. CASE Clone
  BY <1>0, <1>3, RestKeeps DEF Clone
<1>4. CASE Test
  BY <1>0, <1>4, RestKeeps DEF Test
<1>5. CASE Join
  BY <1>0, <1>5, RestKeeps DEF Join
<1>6. CASE Interrupt
  BY <1>0, <1>6, RestKeeps DEF Interrupt
<1>7. CASE UNCHANGED fetchVars
  BY <1>0, <1>7, RestKeeps DEF fetchVars
<1>8. QED
  BY <1>1, <1>2, <1>3, <1>4, <1>5, <1>6, <1>7 DEF Main

-----------------------------------------------------------------------------
(* The readers.                                                            *)

LEMMA ReaderMoves ==
  ASSUME FetchInv, NEW r \in Readers, Reader(r)
  PROVE  /\ UNCHANGED <<head, cont_>> /\ pc' \in {pc, "raised"}
         /\ progress[r] \in {"started", "fetching"}
         /\ progress' \in [Readers -> {"queued", "started", "fetching", "done",
                                       "failed"}]
         /\ progress'[r] \in {"fetching", "done", "failed"}
         /\ \A q \in Readers \ {r} :
              /\ progress'[q] = progress[q] /\ sent'[q] = sent[q]
              /\ iNumIter'[q] = iNumIter[q] /\ oList'[q] = oList[q]
<1> USE DEF FetchInv, TypeOK
<1>1. CASE Execute(r) BY <1>1 DEF Execute
<1>2. CASE Receive(r) BY <1>2 DEF Receive
<1>3. CASE TakeBulk(r) BY <1>3 DEF TakeBulk
<1>4. CASE ReaderRaises(r) BY <1>4 DEF ReaderRaises
<1>5. QED
  BY <1>1, <1>2, <1>3, <1>4 DEF Reader, Work

LEMMA ReaderKeepsTypes ==
  ASSUME FetchInv, NEW r \in Readers, Reader(r)
  PROVE  TypeOK'
<1>0. TypeOK
  BY DEF FetchInv
<1>1. /\ UNCHANGED <<head, cont_>> /\ pc' \in {pc, "raised"}
      /\ progress' \in [Readers -> {"queued", "started", "fetching", "done",
                                    "failed"}]
  BY ReaderMoves
<1>2. /\ Rows[r] \in Seq(Int) /\ BulkSize \in Nat /\ rTable[r] \in Arrays
      /\ Len(Rows[r]) \in Nat
  BY RowsAssumption, SizeAssumption
<1>3. /\ sent[r] \in Nat /\ iNumIter[r] \in 0..BulkSize /\ oList[r] \in Seq(Int)
      /\ sent[r] <= Len(Rows[r])
      /\ array[rTable[r]] \in [1..BulkSize -> Int]
  BY <1>0, <1>2 DEF TypeOK
<1>4. CASE Execute(r) \/ ReaderRaises(r)
  <2>1. UNCHANGED <<sent, iNumIter, array, oList>> /\ ep' \in BOOLEAN
    BY <1>0, <1>4 DEF Execute, ReaderRaises, TypeOK
  <2>2. QED
    BY <1>0, <1>1, <2>1 DEF TypeOK
<1>5. CASE Receive(r)
  <2>1. /\ sent[r] < Len(Rows[r]) /\ iNumIter[r] < BulkSize
        /\ sent' = [sent EXCEPT ![r] = sent[r] + 1]
        /\ iNumIter' = [iNumIter EXCEPT ![r] = iNumIter[r] + 1]
        /\ array' = [array EXCEPT ![rTable[r]][iNumIter[r] + 1] = Rows[r][sent[r] + 1]]
        /\ UNCHANGED <<oList, ep>>
    BY <1>5 DEF Receive
  <2>2. sent' \in [Readers -> Nat] /\ \A q \in Readers : sent'[q] <= Len(Rows[q])
    <3>1. sent \in [Readers -> Nat] /\ \A q \in Readers : sent[q] <= Len(Rows[q])
      BY <1>0 DEF TypeOK
    <3>2. \A q \in Readers : sent'[q] = IF q = r THEN sent[r] + 1 ELSE sent[q]
      BY <2>1, <3>1
    <3>3. sent' \in [Readers -> Nat]
      BY <1>3, <2>1, <3>1
    <3>4. sent[r] + 1 <= Len(Rows[r])
      BY <1>2, <1>3, <2>1
    <3>5. QED
      BY <3>1, <3>2, <3>3, <3>4
  <2>3. iNumIter' \in [Readers -> 0..BulkSize]
    <3>1. iNumIter \in [Readers -> 0..BulkSize]
      BY <1>0 DEF TypeOK
    <3>2. iNumIter[r] + 1 \in 0..BulkSize
      BY <1>2, <1>3, <2>1
    <3>3. QED
      BY <2>1, <3>1, <3>2
  <2>4. array' \in [Arrays -> [1..BulkSize -> Int]]
    <3>1. Rows[r][sent[r] + 1] \in Int
      BY <1>2, <1>3, <2>1
    <3>2. [array[rTable[r]] EXCEPT ![iNumIter[r] + 1] = Rows[r][sent[r] + 1]]
            \in [1..BulkSize -> Int]
      BY <1>3, <3>1
    <3>3. QED
      BY <1>0, <2>1, <3>2 DEF TypeOK
  <2>5. QED
    BY <1>0, <1>1, <2>1, <2>2, <2>3, <2>4 DEF TypeOK
<1>6. CASE TakeBulk(r)
  <2>1. /\ oList' = [oList EXCEPT ![r] = @ \o SubSeq(array[rTable[r]], 1, iNumIter[r])]
        /\ iNumIter' = [iNumIter EXCEPT ![r] = 0]
        /\ UNCHANGED <<sent, array, ep>>
    BY <1>6 DEF TakeBulk
  <2>2. iNumIter' \in [Readers -> 0..BulkSize]
    BY <1>0, <1>2, <2>1 DEF TypeOK
  <2>3. oList' \in [Readers -> Seq(Int)]
    <3>1. SubSeq(array[rTable[r]], 1, iNumIter[r]) \in Seq(Int)
      BY <1>3, BulkIsASequence
    <3>2. oList[r] \o SubSeq(array[rTable[r]], 1, iNumIter[r]) \in Seq(Int)
      BY <1>3, <3>1
    <3>3. QED
      BY <1>0, <2>1, <3>2 DEF TypeOK
  <2>4. QED
    BY <1>0, <1>1, <2>1, <2>2, <2>3 DEF TypeOK
<1>7. QED
  BY <1>4, <1>5, <1>6 DEF Reader, Work

(* The reader's own list.                                                  *)
LEMMA ReaderKeepsItsList ==
  ASSUME FetchInv, NEW r \in Readers, Reader(r), ListIsTheBeginning(r)
  PROVE  ListIsTheBeginning(r)'
<1>0. TypeOK
  BY DEF FetchInv
<1>1. progress[r] \in {"started", "fetching"} /\ r \in DOMAIN progress
  BY <1>0, ReaderMoves DEF TypeOK
<1>2. /\ Rows[r] \in Seq(Int) /\ BulkSize \in Nat /\ rTable[r] \in Arrays
      /\ Len(Rows[r]) \in Nat
  BY RowsAssumption, SizeAssumption
<1>3. /\ sent[r] \in Nat /\ iNumIter[r] \in 0..BulkSize
      /\ sent[r] <= Len(Rows[r]) /\ r \in DOMAIN sent /\ r \in DOMAIN iNumIter
      /\ array[rTable[r]] \in [1..BulkSize -> Int] /\ rTable[r] \in DOMAIN array
      /\ r \in DOMAIN oList
  BY <1>0, <1>2 DEF TypeOK
<1>4. Taken(r) \in Nat /\ oList[r] = SubSeq(Rows[r], 1, Taken(r))
  BY <1>3 DEF ListIsTheBeginning, Taken
<1>5. CASE Execute(r) \/ ReaderRaises(r)
  <2>1. UNCHANGED <<sent, iNumIter, array, oList>>
    BY <1>5 DEF Execute, ReaderRaises
  <2>2. progress'[r] = "fetching" => progress[r] = "fetching" \/ iNumIter[r] = 0
    BY <1>1, <1>5 DEF Execute, ReaderRaises, FetchInv, NothingIsReadBefore
  <2>3. Taken(r)' = Taken(r) /\ oList'[r] = oList[r]
    BY <2>1 DEF Taken
  <2>4. QED
    BY <1>2, <1>4, <2>1, <2>2, <2>3 DEF ListIsTheBeginning
<1>6. CASE Receive(r)
  <2> DEFINE k == iNumIter[r]
  <2>1. /\ progress[r] = "fetching" /\ k < BulkSize /\ sent[r] < Len(Rows[r])
        /\ sent'[r] = sent[r] + 1 /\ iNumIter'[r] = k + 1
        /\ array'[rTable[r]] = [array[rTable[r]] EXCEPT ![k + 1] = Rows[r][sent[r] + 1]]
        /\ oList' = oList
    BY <1>3, <1>6 DEF Receive
  <2>2. Taken(r)' = Taken(r)
    BY <1>3, <2>1 DEF Taken
  <2>3. ASSUME NEW i \in 1..(k + 1)
        PROVE  array'[rTable[r]][i] = Rows[r][Taken(r) + i]
    <3>1. CASE i = k + 1
      <4>1. Taken(r) + i = sent[r] + 1
        BY <1>3, <3>1 DEF Taken
      <4>2. k + 1 \in 1..BulkSize
        BY <1>2, <1>3, <2>1
      <4>3. QED
        BY <1>3, <2>1, <3>1, <4>1, <4>2
    <3>2. CASE i # k + 1
      <4>1. i \in 1..k /\ i \in 1..BulkSize
        BY <1>2, <1>3, <2>1, <3>2
      <4>2. array[rTable[r]][i] = Rows[r][Taken(r) + i]
        BY <2>1, <4>1 DEF ListIsTheBeginning
      <4>3. QED
        BY <1>3, <2>1, <3>2, <4>1, <4>2
    <3>3. QED
      BY <3>1, <3>2
  <2>4. QED
    BY <1>4, <2>1, <2>2, <2>3 DEF ListIsTheBeginning
<1>7. CASE TakeBulk(r)
  <2> DEFINE k == iNumIter[r]
             A == array[rTable[r]]
  <2>1. /\ progress[r] = "fetching"
        /\ sent' = sent /\ iNumIter'[r] = 0 /\ array' = array
        /\ oList'[r] = oList[r] \o SubSeq(A, 1, k)
    BY <1>3, <1>7 DEF TakeBulk
  <2>2. \A i \in 1..k : A[i] = Rows[r][Taken(r) + i]
    BY <2>1 DEF ListIsTheBeginning
  <2>3. Taken(r) + k = sent[r] /\ Taken(r)' = sent[r] /\ Taken(r) + k <= Len(Rows[r])
    BY <1>3, <2>1 DEF Taken
  <2>4. oList'[r] = SubSeq(Rows[r], 1, Taken(r) + k)
    <3> DEFINE R == Rows[r]
               n == Taken(r)
    <3>1. /\ A \in [1..BulkSize -> Int] /\ k \in 0..BulkSize
          /\ R \in Seq(Int) /\ n \in Nat /\ n + k <= Len(R)
      BY <1>2, <1>3, <1>4, <2>3
    <3>2. \A i \in 1..k : A[i] = R[n + i]
      BY <2>2
    <3>3. oList'[r] = SubSeq(R, 1, n) \o SubSeq(A, 1, k)
      BY <1>4, <2>1
    <3> HIDE DEF A, k, R, n
    <3>4. oList'[r] = SubSeq(R, 1, n + k)
      BY <3>1, <3>2, <3>3, BulkIsAdded
    <3>5. QED
      BY <3>4 DEF R, n
  <2> HIDE DEF A, k
  <2>5. Taken(r)' >= 0 /\ oList'[r] = SubSeq(Rows[r], 1, Taken(r)')
    BY <1>3, <2>3, <2>4
  <2>6. 1..iNumIter'[r] = {}
    BY <2>1
  <2>7. QED
    BY <2>5, <2>6 DEF ListIsTheBeginning
<1>8. QED
  BY <1>5, <1>6, <1>7 DEF Reader, Work

(* The lists of the others, when nobody works in their arrays.             *)
LEMMA ReaderKeepsLists ==
  ASSUME FetchInv, NEW r \in Readers, Reader(r), NEW q \in Readers, q # r,
         IsUndisturbed(q), ListIsTheBeginning(q)
  PROVE  ListIsTheBeginning(q)'
<1>1. /\ progress'[q] = progress[q] /\ sent'[q] = sent[q]
      /\ iNumIter'[q] = iNumIter[q] /\ oList'[q] = oList[q]
      /\ r \in Running
  BY ReaderMoves DEF Running
<1>2. Taken(q)' = Taken(q)
  BY <1>1 DEF Taken
<1>3. CASE HasOwnArray(q)
  <2>1. rTable[q] # rTable[r]
    BY <1>3 DEF HasOwnArray
  <2>2. rTable[q] \in Arrays /\ DOMAIN array = Arrays
    BY RowsAssumption DEF FetchInv, TypeOK
  <2>3. array'[rTable[q]] = array[rTable[q]]
    BY <2>1, <2>2 DEF Reader, Work, Execute, Receive, TakeBulk, ReaderRaises
  <2>4. QED
    BY <1>1, <1>2, <2>3 DEF ListIsTheBeginning
<1>4. CASE iConcurrency = 1
  <2>1. progress[q] # "fetching"
    BY <1>1, <1>4 DEF FetchInv, ReadersAreTaken, Running
  <2>2. QED
    BY <1>1, <1>2, <2>1 DEF ListIsTheBeginning
<1>5. QED
  BY <1>3, <1>4 DEF IsUndisturbed

LEMMA ReaderKeepsDone ==
  ASSUME FetchInv, NEW r \in Readers, Reader(r)
  PROVE  DoneIsComplete'
<1>1. /\ UNCHANGED <<head, cont_>> /\ pc' \in {pc, "raised"}
      /\ \A q \in Readers \ {r} :
           /\ progress'[q] = progress[q] /\ sent'[q] = sent[q]
           /\ iNumIter'[q] = iNumIter[q]
      /\ r \in Running
  BY ReaderMoves DEF Running
<1>2. pc # "script"
  BY <1>1 DEF FetchInv, DoneIsComplete
<1>3. ASSUME cont_, progress'[r] = "done"
      PROVE  sent'[r] = Len(Rows[r]) /\ iNumIter'[r] = 0
  <2>1. /\ r \in DOMAIN progress /\ r \in DOMAIN iNumIter /\ r \in DOMAIN sent
        /\ progress[r] # "done"
    BY <1>1 DEF FetchInv, TypeOK, Running
  <2>2. ~Execute(r) /\ ~Receive(r) /\ ~ReaderRaises(r)
    BY <1>3, <2>1 DEF Execute, Receive, ReaderRaises
  <2>3. TakeBulk(r)
    BY <2>2 DEF Reader, Work
  <2>4. QED
    BY <1>3, <2>1, <2>3 DEF TakeBulk
<1>4. QED
  BY <1>1, <1>2, <1>3 DEF FetchInv, DoneIsComplete

LEMMA ReaderKeeps ==
  ASSUME FetchInv, NEW r \in Readers, Reader(r)
  PROVE  FetchInv'
<1>1. /\ UNCHANGED head /\ pc' \in {pc, "raised"}
      /\ progress[r] \in {"started", "fetching"}
      /\ progress'[r] \in {"fetching", "done", "failed"}
      /\ \A q \in Readers \ {r} :
           /\ progress'[q] = progress[q] /\ sent'[q] = sent[q]
           /\ iNumIter'[q] = iNumIter[q]
  BY ReaderMoves
<1>2. ReadersAreTaken'
  <2>1. \A i \in DOMAIN oQueue : oQueue[i] \in Readers
    BY QueueAssumption
  <2>2. \A q \in Readers : progress'[q] = "queued" <=> progress[q] = "queued"
    BY <1>1
  <2>3. \A q \in Running' : q \in Running
    BY <1>1 DEF Running
  <2>4. QED
    BY <1>1, <2>1, <2>2, <2>3 DEF FetchInv, ReadersAreTaken
<1>3. NothingIsReadBefore'
  BY <1>1 DEF FetchInv, NothingIsReadBefore
<1>4. ASSUME NEW q \in Readers, IsUndisturbed(q) PROVE ListIsTheBeginning(q)'
  BY <1>4, ReaderKeepsItsList, ReaderKeepsLists DEF FetchInv
<1>5. QED
  BY <1>2, <1>3, <1>4, ReaderKeepsTypes, ReaderKeepsDone
     DEF FetchInv, IsUndisturbed, HasOwnArray

-----------------------------------------------------------------------------
(* The theorems.                                                           *)

(* What the fetching keeps true.                                           *)
THEOREM FetchInvariant == FetchSpec => []FetchInv
<1>1. FetchInv /\ [FetchNext]_fetchVars => FetchInv'
  BY MainKeeps, ReaderKeeps DEF FetchNext, FetchEnded
<1>2. QED
  BY <1>1, FetchBegins, PTL DEF FetchSpec

(* For every set of readers, every result and every size of the arrays, a  *)
(* describer whose array is its own, or that reads alone, has in its list  *)
(* the beginning of its own query's result and nothing else.               *)
THEOREM ListsAreTrue == FetchSpec => []ListsAreTheirQueries
<1>1. FetchInv => ListsAreTheirQueries
  <2>1. ASSUME FetchInv, NEW r \in Readers, IsUndisturbed(r)
        PROVE  \E n \in 0..sent[r] : oList[r] = SubSeq(Rows[r], 1, n)
    <3>1. /\ Taken(r) >= 0 /\ oList[r] = SubSeq(Rows[r], 1, Taken(r))
          /\ sent[r] \in Nat /\ iNumIter[r] \in Nat
      BY <2>1, SizeAssumption DEF FetchInv, TypeOK, ListIsTheBeginning
    <3>2. Taken(r) \in 0..sent[r]
      BY <3>1 DEF Taken
    <3>3. QED
      BY <3>1, <3>2
  <2>2. QED
    BY <2>1 DEF ListsAreTheirQueries
<1>2. QED
  BY <1>1, FetchInvariant, PTL

(* A script that is written by a program that was not told to stop is      *)
(* written from the whole result of every query whose reader did not fail  *)
(* unseen.                                                                 *)
THEOREM ScriptsAreWhole == FetchSpec => []ScriptIsWhole
<1>1. FetchInv => ScriptIsWhole
  <2>1. SUFFICES ASSUME FetchInv, pc = "script", cont_, NEW r \in Readers,
                        progress[r] # "failed", IsUndisturbed(r)
                 PROVE  oList[r] = Rows[r]
    BY DEF ScriptIsWhole
  <2>2. PICK i \in DOMAIN oQueue : oQueue[i] = r
    BY QueueAssumption
  <2>3. progress[r] # "queued"
    <3>1. head = Len(oQueue) + 1
      BY <2>1 DEF FetchInv, DoneIsComplete
    <3>2. i \in 1..Len(oQueue) /\ Len(oQueue) \in Nat
      BY QueueAssumption
    <3>3. ~(i >= head)
      BY <3>1, <3>2
    <3>4. QED
      BY <2>1, <2>2, <3>3 DEF FetchInv, ReadersAreTaken
  <2>4. progress[r] = "done"
    BY <2>1, <2>3 DEF FetchInv, TypeOK, DoneIsComplete, Running
  <2>5. sent[r] = Len(Rows[r]) /\ iNumIter[r] = 0
    BY <2>1, <2>4 DEF FetchInv, DoneIsComplete
  <2>6. Rows[r] \in Seq(Int) /\ Len(Rows[r]) \in Nat
    BY RowsAssumption
  <2>7. oList[r] = SubSeq(Rows[r], 1, Len(Rows[r]))
    BY <2>1, <2>5, <2>6 DEF FetchInv, ListIsTheBeginning, Taken
  <2>8. QED
    BY <2>6, <2>7, SubSeqFull
<1>2. QED
  BY <1>1, FetchInvariant, PTL
=============================================================================
