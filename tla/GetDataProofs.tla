--------------------------- MODULE GetDataProofs ---------------------------
(***************************************************************************)
(* The proofs about GetData, for every dictionary and every start: what    *)
(* the command line, the files and the defaults make of an option; which   *)
(* tables become targets, in which order they are counted, and what the    *)
(* repository then says of them and of their constraints.                  *)
(***************************************************************************)
EXTENDS GetData, FiniteSetTheorems, FunctionTheorems, SequenceTheorems, TLAPS

-----------------------------------------------------------------------------
(* An option and its sources.                                              *)

LEMMA MinIs ==
  ASSUME NEW S, NEW n \in S, \A m \in S : m \in Int /\ n <= m PROVE Min(S) = n
<1>1. \A m \in S : (\A k \in S : m <= k) => m = n
  OBVIOUS
<1>2. (\A k \in S : n <= k) /\ n \in S
  OBVIOUS
<1> QED
  BY <1>1, <1>2 DEF Min

(* The first of some sources that has an option.                           *)
FirstWith(q, option) == q[Min({i \in DOMAIN q : option \in DOMAIN q[i]})][option]

(* The same, of what all sources but the last leave in a store.            *)
InStore(vm, rest, option) == IF option \in DOMAIN vm THEN vm[option] ELSE rest[option]

(* Sources stored one after the other: each option has the value of the    *)
(* first source that has it.                                               *)
LEMMA FirstOfThree ==
  ASSUME NEW a, NEW b, NEW c, NEW o, o \in DOMAIN b \cup DOMAIN c
  PROVE  FirstWith(<<a, b, c>>, o) = InStore(Store(a, b), c, o)
<1> DEFINE q == <<a, b, c>>
           S == {i \in DOMAIN q : o \in DOMAIN q[i]}
<1>1. DOMAIN q = 1..3 /\ q[1] = a /\ q[2] = b /\ q[3] = c
  OBVIOUS
<1>2. \A i \in 1..3 : i \in S <=> o \in DOMAIN q[i]
  BY <1>1
<1>3. S \subseteq 1..3
  BY <1>1
<1>4. FirstWith(q, o) = q[Min(S)][o]
  BY DEF FirstWith
<1> HIDE DEF q, S
<1>5. CASE o \in DOMAIN a
  <2>1. 1 \in S /\ \A m \in S : m \in Int /\ 1 <= m
    BY <1>1, <1>2, <1>3, <1>5
  <2>2. FirstWith(q, o) = a[o]
    BY <1>1, <1>4, <2>1, MinIs
  <2>3. InStore(Store(a, b), c, o) = a[o]
    BY <1>5 DEF InStore, Store
  <2> QED
    BY <2>2, <2>3 DEF q
<1>6. CASE o \notin DOMAIN a /\ o \in DOMAIN b
  <2>1. 2 \in S /\ \A m \in S : m \in Int /\ 2 <= m
    BY <1>1, <1>2, <1>3, <1>6
  <2>2. FirstWith(q, o) = b[o]
    BY <1>1, <1>4, <2>1, MinIs
  <2>3. InStore(Store(a, b), c, o) = b[o]
    BY <1>6 DEF InStore, Store
  <2> QED
    BY <2>2, <2>3 DEF q
<1>7. CASE o \notin DOMAIN a /\ o \notin DOMAIN b /\ o \in DOMAIN c
  <2>1. 3 \in S /\ \A m \in S : m \in Int /\ 3 <= m
    BY <1>1, <1>2, <1>3, <1>7
  <2>2. FirstWith(q, o) = c[o]
    BY <1>1, <1>4, <2>1, MinIs
  <2>3. InStore(Store(a, b), c, o) = c[o]
    BY <1>7 DEF InStore, Store
  <2> QED
    BY <2>2, <2>3 DEF q
<1> QED
  BY <1>5, <1>6, <1>7

LEMMA FirstOfFour ==
  ASSUME NEW a, NEW b, NEW c, NEW d, NEW o, o \in DOMAIN c \cup DOMAIN d
  PROVE  FirstWith(<<a, b, c, d>>, o) = InStore(Store(Store(a, b), c), d, o)
<1> DEFINE q == <<a, b, c, d>>
           S == {i \in DOMAIN q : o \in DOMAIN q[i]}
<1>1. DOMAIN q = 1..4 /\ q[1] = a /\ q[2] = b /\ q[3] = c /\ q[4] = d
  OBVIOUS
<1>2. \A i \in 1..4 : i \in S <=> o \in DOMAIN q[i]
  BY <1>1
<1>3. S \subseteq 1..4
  BY <1>1
<1>4. FirstWith(q, o) = q[Min(S)][o]
  BY DEF FirstWith
<1> HIDE DEF q, S
<1>5. CASE o \in DOMAIN a
  <2>1. 1 \in S /\ \A m \in S : m \in Int /\ 1 <= m
    BY <1>1, <1>2, <1>3, <1>5
  <2>2. FirstWith(q, o) = a[o]
    BY <1>1, <1>4, <2>1, MinIs
  <2>3. InStore(Store(Store(a, b), c), d, o) = a[o]
    BY <1>5 DEF InStore, Store
  <2> QED
    BY <2>2, <2>3 DEF q
<1>6. CASE o \notin DOMAIN a /\ o \in DOMAIN b
  <2>1. 2 \in S /\ \A m \in S : m \in Int /\ 2 <= m
    BY <1>1, <1>2, <1>3, <1>6
  <2>2. FirstWith(q, o) = b[o]
    BY <1>1, <1>4, <2>1, MinIs
  <2>3. InStore(Store(Store(a, b), c), d, o) = b[o]
    BY <1>6 DEF InStore, Store
  <2> QED
    BY <2>2, <2>3 DEF q
<1>7. CASE o \notin DOMAIN a /\ o \notin DOMAIN b /\ o \in DOMAIN c
  <2>1. 3 \in S /\ \A m \in S : m \in Int /\ 3 <= m
    BY <1>1, <1>2, <1>3, <1>7
  <2>2. FirstWith(q, o) = c[o]
    BY <1>1, <1>4, <2>1, MinIs
  <2>3. InStore(Store(Store(a, b), c), d, o) = c[o]
    BY <1>7 DEF InStore, Store
  <2> QED
    BY <2>2, <2>3 DEF q
<1>8. CASE o \notin DOMAIN a /\ o \notin DOMAIN b /\ o \notin DOMAIN c /\ o \in DOMAIN d
  <2>1. 4 \in S /\ \A m \in S : m \in Int /\ 4 <= m
    BY <1>1, <1>2, <1>3, <1>8
  <2>2. FirstWith(q, o) = d[o]
    BY <1>1, <1>4, <2>1, MinIs
  <2>3. InStore(Store(Store(a, b), c), d, o) = d[o]
    BY <1>8 DEF InStore, Store
  <2> QED
    BY <2>2, <2>3 DEF q
<1> QED
  BY <1>5, <1>6, <1>7, <1>8

LEMMA FirstOfFive ==
  ASSUME NEW a, NEW b, NEW c, NEW d, NEW e, NEW o, o \in DOMAIN d \cup DOMAIN e
  PROVE  FirstWith(<<a, b, c, d, e>>, o) = InStore(Store(Store(Store(a, b), c), d), e, o)
<1> DEFINE q == <<a, b, c, d, e>>
           S == {i \in DOMAIN q : o \in DOMAIN q[i]}
<1>1. DOMAIN q = 1..5 /\ q[1] = a /\ q[2] = b /\ q[3] = c /\ q[4] = d /\ q[5] = e
  OBVIOUS
<1>2. \A i \in 1..5 : i \in S <=> o \in DOMAIN q[i]
  BY <1>1
<1>3. S \subseteq 1..5
  BY <1>1
<1>4. FirstWith(q, o) = q[Min(S)][o]
  BY DEF FirstWith
<1> HIDE DEF q, S
<1>5. CASE o \in DOMAIN a
  <2>1. 1 \in S /\ \A m \in S : m \in Int /\ 1 <= m
    BY <1>1, <1>2, <1>3, <1>5
  <2>2. FirstWith(q, o) = a[o]
    BY <1>1, <1>4, <2>1, MinIs
  <2>3. InStore(Store(Store(Store(a, b), c), d), e, o) = a[o]
    BY <1>5 DEF InStore, Store
  <2> QED
    BY <2>2, <2>3 DEF q
<1>6. CASE o \notin DOMAIN a /\ o \in DOMAIN b
  <2>1. 2 \in S /\ \A m \in S : m \in Int /\ 2 <= m
    BY <1>1, <1>2, <1>3, <1>6
  <2>2. FirstWith(q, o) = b[o]
    BY <1>1, <1>4, <2>1, MinIs
  <2>3. InStore(Store(Store(Store(a, b), c), d), e, o) = b[o]
    BY <1>6 DEF InStore, Store
  <2> QED
    BY <2>2, <2>3 DEF q
<1>7. CASE o \notin DOMAIN a /\ o \notin DOMAIN b /\ o \in DOMAIN c
  <2>1. 3 \in S /\ \A m \in S : m \in Int /\ 3 <= m
    BY <1>1, <1>2, <1>3, <1>7
  <2>2. FirstWith(q, o) = c[o]
    BY <1>1, <1>4, <2>1, MinIs
  <2>3. InStore(Store(Store(Store(a, b), c), d), e, o) = c[o]
    BY <1>7 DEF InStore, Store
  <2> QED
    BY <2>2, <2>3 DEF q
<1>8. CASE o \notin DOMAIN a /\ o \notin DOMAIN b /\ o \notin DOMAIN c /\ o \in DOMAIN d
  <2>1. 4 \in S /\ \A m \in S : m \in Int /\ 4 <= m
    BY <1>1, <1>2, <1>3, <1>8
  <2>2. FirstWith(q, o) = d[o]
    BY <1>1, <1>4, <2>1, MinIs
  <2>3. InStore(Store(Store(Store(a, b), c), d), e, o) = d[o]
    BY <1>8 DEF InStore, Store
  <2> QED
    BY <2>2, <2>3 DEF q
<1>9. CASE o \notin DOMAIN a /\ o \notin DOMAIN b /\ o \notin DOMAIN c /\ o \notin DOMAIN d /\ o \in DOMAIN e
  <2>1. 5 \in S /\ \A m \in S : m \in Int /\ 5 <= m
    BY <1>1, <1>2, <1>3, <1>9
  <2>2. FirstWith(q, o) = e[o]
    BY <1>1, <1>4, <2>1, MinIs
  <2>3. InStore(Store(Store(Store(a, b), c), d), e, o) = e[o]
    BY <1>9 DEF InStore, Store
  <2> QED
    BY <2>2, <2>3 DEF q
<1> QED
  BY <1>5, <1>6, <1>7, <1>8, <1>9

(* Every option that chooses tables has a default or an initial value.     *)
LEMMA OptionsHaveDefaults ==
  /\ {"src_user", "filetable", "fileexcpt"} \subseteq DOMAIN Defaults
  /\ {"listtable", "listexcpt", "num_rows"} \subseteq DOMAIN Initial
<1>1. {"src_user", "filetable", "fileexcpt"} \subseteq DOMAIN Defaults1
  BY DEF Defaults1
<1>2. \A f, g : DOMAIN f \subseteq DOMAIN Store(f, g)
  BY DEF Store
<1>3. DOMAIN Defaults1 \subseteq DOMAIN Store(Store(Store(Defaults1, Defaults2), Defaults3), Defaults4)
  <2>1. DOMAIN Defaults1 \subseteq DOMAIN Store(Defaults1, Defaults2)
    BY <1>2
  <2>2. DOMAIN Store(Defaults1, Defaults2) \subseteq DOMAIN Store(Store(Defaults1, Defaults2), Defaults3)
    BY <1>2
  <2>3. DOMAIN Store(Store(Defaults1, Defaults2), Defaults3)
        \subseteq DOMAIN Store(Store(Store(Defaults1, Defaults2), Defaults3), Defaults4)
    BY <1>2
  <2> QED
    BY <2>1, <2>2, <2>3
<1>4. {"listtable", "listexcpt", "num_rows"} \subseteq DOMAIN Initial
  BY DEF Initial
<1> QED
  BY <1>1, <1>3, <1>4 DEF Defaults

(* Sources stored in two steps are those stored in one, by how many there  *)
(* are on either side.                                                     *)
LEMMA JoinOneTwo ==
  ASSUME NEW a, NEW b, NEW c
  PROVE  <<a>> \o <<b, c>> = <<a, b, c>>
<1> DEFINE R == {a, b, c}  p == <<a>>  q == <<b, c>>  t == <<a, b, c>>  r == p \o q
<1>1. p \in Seq(R) /\ Len(p) = 1 /\ p[1] = a
  OBVIOUS
<1>2. q \in Seq(R) /\ Len(q) = 2 /\ q[1] = b /\ q[2] = c
  OBVIOUS
<1>3. t \in Seq(R) /\ Len(t) = 3 /\ t[1] = a /\ t[2] = b /\ t[3] = c
  OBVIOUS
<1> HIDE DEF R, p, q, t
<1>4. r \in Seq(R) /\ Len(r) = Len(p) + Len(q)
      /\ \A i \in 1..Len(p) + Len(q) : r[i] = IF i <= Len(p) THEN p[i] ELSE q[i - Len(p)]
  BY <1>1, <1>2, ConcatProperties
<1> HIDE DEF r
<1>5. Len(r) = 3
  BY <1>1, <1>2, <1>4
<1>6. r[1] = a /\ r[2] = b /\ r[3] = c
  BY <1>1, <1>2, <1>4
<1>7. \A i \in 1..3 : r[i] = t[i]
  BY <1>3, <1>6
<1>8. r = t
  BY <1>3, <1>4, <1>5, <1>7, SeqEqual
<1> QED
  BY <1>8 DEF p, q, t, r

LEMMA JoinOneOne ==
  ASSUME NEW a, NEW b
  PROVE  <<a>> \o <<b>> = <<a, b>>
<1> DEFINE R == {a, b}  p == <<a>>  q == <<b>>  t == <<a, b>>  r == p \o q
<1>1. p \in Seq(R) /\ Len(p) = 1 /\ p[1] = a
  OBVIOUS
<1>2. q \in Seq(R) /\ Len(q) = 1 /\ q[1] = b
  OBVIOUS
<1>3. t \in Seq(R) /\ Len(t) = 2 /\ t[1] = a /\ t[2] = b
  OBVIOUS
<1> HIDE DEF R, p, q, t
<1>4. r \in Seq(R) /\ Len(r) = Len(p) + Len(q)
      /\ \A i \in 1..Len(p) + Len(q) : r[i] = IF i <= Len(p) THEN p[i] ELSE q[i - Len(p)]
  BY <1>1, <1>2, ConcatProperties
<1> HIDE DEF r
<1>5. Len(r) = 2
  BY <1>1, <1>2, <1>4
<1>6. r[1] = a /\ r[2] = b
  BY <1>1, <1>2, <1>4
<1>7. \A i \in 1..2 : r[i] = t[i]
  BY <1>3, <1>6
<1>8. r = t
  BY <1>3, <1>4, <1>5, <1>7, SeqEqual
<1> QED
  BY <1>8 DEF p, q, t, r

LEMMA JoinTwoOne ==
  ASSUME NEW a, NEW b, NEW c
  PROVE  <<a, b>> \o <<c>> = <<a, b, c>>
<1> DEFINE R == {a, b, c}  p == <<a, b>>  q == <<c>>  t == <<a, b, c>>  r == p \o q
<1>1. p \in Seq(R) /\ Len(p) = 2 /\ p[1] = a /\ p[2] = b
  OBVIOUS
<1>2. q \in Seq(R) /\ Len(q) = 1 /\ q[1] = c
  OBVIOUS
<1>3. t \in Seq(R) /\ Len(t) = 3 /\ t[1] = a /\ t[2] = b /\ t[3] = c
  OBVIOUS
<1> HIDE DEF R, p, q, t
<1>4. r \in Seq(R) /\ Len(r) = Len(p) + Len(q)
      /\ \A i \in 1..Len(p) + Len(q) : r[i] = IF i <= Len(p) THEN p[i] ELSE q[i - Len(p)]
  BY <1>1, <1>2, ConcatProperties
<1> HIDE DEF r
<1>5. Len(r) = 3
  BY <1>1, <1>2, <1>4
<1>6. r[1] = a /\ r[2] = b /\ r[3] = c
  BY <1>1, <1>2, <1>4
<1>7. \A i \in 1..3 : r[i] = t[i]
  BY <1>3, <1>6
<1>8. r = t
  BY <1>3, <1>4, <1>5, <1>7, SeqEqual
<1> QED
  BY <1>8 DEF p, q, t, r

LEMMA JoinTwoTwo ==
  ASSUME NEW a, NEW b, NEW c, NEW d
  PROVE  <<a, b>> \o <<c, d>> = <<a, b, c, d>>
<1> DEFINE R == {a, b, c, d}  p == <<a, b>>  q == <<c, d>>  t == <<a, b, c, d>>  r == p \o q
<1>1. p \in Seq(R) /\ Len(p) = 2 /\ p[1] = a /\ p[2] = b
  OBVIOUS
<1>2. q \in Seq(R) /\ Len(q) = 2 /\ q[1] = c /\ q[2] = d
  OBVIOUS
<1>3. t \in Seq(R) /\ Len(t) = 4 /\ t[1] = a /\ t[2] = b /\ t[3] = c /\ t[4] = d
  OBVIOUS
<1> HIDE DEF R, p, q, t
<1>4. r \in Seq(R) /\ Len(r) = Len(p) + Len(q)
      /\ \A i \in 1..Len(p) + Len(q) : r[i] = IF i <= Len(p) THEN p[i] ELSE q[i - Len(p)]
  BY <1>1, <1>2, ConcatProperties
<1> HIDE DEF r
<1>5. Len(r) = 4
  BY <1>1, <1>2, <1>4
<1>6. r[1] = a /\ r[2] = b /\ r[3] = c /\ r[4] = d
  BY <1>1, <1>2, <1>4
<1>7. \A i \in 1..4 : r[i] = t[i]
  BY <1>3, <1>6
<1>8. r = t
  BY <1>3, <1>4, <1>5, <1>7, SeqEqual
<1> QED
  BY <1>8 DEF p, q, t, r

LEMMA JoinThreeTwo ==
  ASSUME NEW a, NEW b, NEW c, NEW d, NEW e
  PROVE  <<a, b, c>> \o <<d, e>> = <<a, b, c, d, e>>
<1> DEFINE R == {a, b, c, d, e}  p == <<a, b, c>>  q == <<d, e>>  t == <<a, b, c, d, e>>  r == p \o q
<1>1. p \in Seq(R) /\ Len(p) = 3 /\ p[1] = a /\ p[2] = b /\ p[3] = c
  OBVIOUS
<1>2. q \in Seq(R) /\ Len(q) = 2 /\ q[1] = d /\ q[2] = e
  OBVIOUS
<1>3. t \in Seq(R) /\ Len(t) = 5 /\ t[1] = a /\ t[2] = b /\ t[3] = c /\ t[4] = d /\ t[5] = e
  OBVIOUS
<1> HIDE DEF R, p, q, t
<1>4. r \in Seq(R) /\ Len(r) = Len(p) + Len(q)
      /\ \A i \in 1..Len(p) + Len(q) : r[i] = IF i <= Len(p) THEN p[i] ELSE q[i - Len(p)]
  BY <1>1, <1>2, ConcatProperties
<1> HIDE DEF r
<1>5. Len(r) = 5
  BY <1>1, <1>2, <1>4
<1>6. r[1] = a /\ r[2] = b /\ r[3] = c /\ r[4] = d /\ r[5] = e
  BY <1>1, <1>2, <1>4
<1>7. \A i \in 1..5 : r[i] = t[i]
  BY <1>3, <1>6
<1>8. r = t
  BY <1>3, <1>4, <1>5, <1>7, SeqEqual
<1> QED
  BY <1>8 DEF p, q, t, r

(* What is wanted is what is used: the command line, the file, the one it  *)
(* includes, the defaults, and the value of the type come in this order.   *)
LEMMA WantedIsUsed ==
  ASSUME NEW option, option \in DOMAIN Defaults \cup DOMAIN Initial
  PROVE  Wanted(option) = as(vm_(x.start), option)
<1> DEFINE s == x.start
           conf == sConfFile_(s)
           Told(path) == IF path \in DOMAIN s.files THEN <<Substituted(s, s.files[path])>> ELSE <<>>
           told == <<s.cmd>> \o Told(conf)
           names == {i \in DOMAIN told : "include" \in DOMAIN told[i]}
           included == IF Len(told) = 2 /\ names # {} THEN Told(told[Min(names)]["include"]) ELSE <<>>
           a == s.cmd
           b == Substituted(s, s.files[conf])
<1>1. Wanted(option) = FirstWith(told \o included \o <<Defaults, Initial>>, option)
  BY DEF Wanted, FirstWith
<1>2. as(vm_(s), option) = InStore(Store(vAttchToConf(s), Defaults), Initial, option)
  BY DEF vm_, as, InStore
<1>3. CASE conf \notin DOMAIN s.files
  <2>1. vAttchToConf(s) = a
    BY <1>3 DEF vAttchToConf, AttachOne, IsThere
  <2>2. told = <<a>>
    BY <1>3
  <2>3. included = <<>>
    <3>1. Len(told) # 2
      BY <2>2
    <3> QED
      BY <3>1
  <2> HIDE DEF told, included, s, a
  <2>4. told \o included \o <<Defaults, Initial>> = <<a, Defaults, Initial>>
    <3>1. <<a>> \o <<>> = <<a>>
      OBVIOUS
    <3>2. <<a>> \o <<Defaults, Initial>> = <<a, Defaults, Initial>>
      BY JoinOneTwo
    <3> QED
      BY <2>2, <2>3, <3>1, <3>2
  <2> QED
    BY <1>1, <1>2, <2>1, <2>4, FirstOfThree DEF s
<1>4. CASE conf \in DOMAIN s.files
  <2> DEFINE vm == Store(a, b)
             path == vm["include"]
             c == Substituted(s, s.files[path])
  <2>1. told = <<a, b>>
    <3>1. <<a>> \o <<b>> = <<a, b>>
      BY JoinOneOne
    <3> QED
      BY <1>4, <3>1
  <2>2. Len(told) = 2 /\ DOMAIN told = {1, 2} /\ told[1] = a /\ told[2] = b
    <3> HIDE DEF told, a, b
    <3> QED
      BY <2>1
  <2>3. \A i : i \in names <=> i \in {1, 2} /\ "include" \in DOMAIN told[i]
    BY <2>2
  <2>4. vAttchToConf(s) = IF "include" \in DOMAIN vm /\ path \in DOMAIN s.files
                          THEN Store(vm, c) ELSE vm
    BY <1>4 DEF vAttchToConf, AttachOne, IsThere
  <2>5. included = IF names # {} THEN Told(told[Min(names)]["include"]) ELSE <<>>
    BY <2>2
  <2>6. DOMAIN vm = DOMAIN a \cup DOMAIN b
    BY DEF Store
  <2>7. "include" \in DOMAIN a => path = a["include"]
    BY DEF Store
  <2>8. "include" \in DOMAIN b /\ "include" \notin DOMAIN a => path = b["include"]
    BY DEF Store
  <2>9. names # {} <=> "include" \in DOMAIN vm
    BY <2>2, <2>3, <2>6
  <2>10. ASSUME names # {} PROVE told[Min(names)]["include"] = path
    <3> HIDE DEF told, a, b, names, path, vm
    <3>1. CASE "include" \in DOMAIN a
      <4>1. 1 \in names /\ \A m \in names : m \in Int /\ 1 <= m
        BY <2>2, <2>3, <3>1
      <4>2. Min(names) = 1
        BY <4>1, MinIs
      <4> QED
        BY <2>2, <2>7, <3>1, <4>2
    <3>2. CASE "include" \notin DOMAIN a
      <4>1. 1 \notin names
        BY <2>2, <2>3, <3>2
      <4>2. 2 \in names /\ \A m \in names : m \in Int /\ 2 <= m
        BY <2>3, <2>10, <4>1
      <4>3. Min(names) = 2
        BY <4>2, MinIs
      <4> QED
        BY <2>2, <2>3, <2>8, <3>2, <4>2, <4>3
    <3> QED
      BY <3>1, <3>2
  <2>11. included = IF "include" \in DOMAIN vm THEN Told(path) ELSE <<>>
    <3> HIDE DEF told, names, path, vm, Told, included
    <3> QED
      BY <2>5, <2>9, <2>10
  <2>12. CASE "include" \in DOMAIN vm /\ path \in DOMAIN s.files
    <3>1. included = <<c>>
      <4> HIDE DEF included, vm, path
      <4> QED
        BY <2>11, <2>12
    <3>2. vAttchToConf(s) = Store(Store(a, b), c)
      BY <2>4, <2>12
    <3> HIDE DEF told, included, s, a, b, c
    <3>3. told \o included = <<a, b, c>>
      BY <2>1, <3>1, JoinTwoOne
    <3>4. told \o included \o <<Defaults, Initial>> = <<a, b, c, Defaults, Initial>>
      <4>1. <<a, b, c>> \o <<Defaults, Initial>> = <<a, b, c, Defaults, Initial>>
        BY JoinThreeTwo
      <4> QED
        BY <3>3, <4>1
    <3>5. FirstWith(<<a, b, c, Defaults, Initial>>, option)
          = InStore(Store(Store(Store(a, b), c), Defaults), Initial, option)
      BY FirstOfFive
    <3> QED
      BY <1>1, <1>2, <3>2, <3>4, <3>5 DEF s
  <2>13. CASE ~("include" \in DOMAIN vm /\ path \in DOMAIN s.files)
    <3>1. included = <<>>
      <4> HIDE DEF included, vm, path
      <4> QED
        BY <2>11, <2>13
    <3>2. vAttchToConf(s) = Store(a, b)
      BY <2>4, <2>13
    <3> HIDE DEF told, included, s, a, b
    <3>3. told \o included = <<a, b>>
      BY <2>1, <3>1
    <3>4. told \o included \o <<Defaults, Initial>> = <<a, b, Defaults, Initial>>
      <4>1. <<a, b>> \o <<Defaults, Initial>> = <<a, b, Defaults, Initial>>
        BY JoinTwoTwo
      <4> QED
        BY <3>3, <4>1
    <3>5. FirstWith(<<a, b, Defaults, Initial>>, option)
          = InStore(Store(Store(a, b), Defaults), Initial, option)
      BY FirstOfFour
    <3> QED
      BY <1>1, <1>2, <3>2, <3>4, <3>5 DEF s
  <2> QED
    BY <2>12, <2>13
<1> QED
  BY <1>3, <1>4

(* --- Sorting by rank --------------------------------------------------- *)

Rank(S, P, t) == Cardinality({s \in S : <<s, t>> \in P})

IsStrictOrder(S, P) ==
  /\ \A s \in S : <<s, s>> \notin P
  /\ \A s, t, u \in S : <<s, t>> \in P /\ <<t, u>> \in P => <<s, u>> \in P
  /\ \A s, t \in S : s = t \/ <<s, t>> \in P \/ <<t, s>> \in P

(* An element precedes as many as its rank says, which is fewer than all.  *)
LEMMA RankOf ==
  ASSUME NEW S, IsFiniteSet(S), NEW P, IsStrictOrder(S, P), NEW t \in S
  PROVE  Rank(S, P, t) \in 0..Cardinality(S) - 1
<1> DEFINE T == {s \in S : <<s, t>> \in P}
<1>1. T \subseteq S /\ T # S
  BY DEF IsStrictOrder
<1> HIDE DEF T
<1>2. /\ Cardinality(S) \in Nat /\ Cardinality(T) \in Nat
      /\ Cardinality(T) <= Cardinality(S) /\ Cardinality(T) # Cardinality(S)
  BY <1>1, FS_Subset, FS_CardinalityType
<1> QED
  BY <1>2 DEF Rank, T

(* What comes before has the smaller rank.                                 *)
LEMMA RankGrows ==
  ASSUME NEW S, IsFiniteSet(S), NEW P, IsStrictOrder(S, P), NEW s \in S, NEW t \in S, <<s, t>> \in P
  PROVE  Rank(S, P, s) < Rank(S, P, t)
<1> DEFINE A == {u \in S : <<u, s>> \in P}
           B_ == {u \in S : <<u, t>> \in P}
<1>1. A \subseteq B_ /\ s \in B_ /\ s \notin A
  BY DEF IsStrictOrder
<1>2. B_ \subseteq S
  OBVIOUS
<1> HIDE DEF A, B_
<1>3. IsFiniteSet(B_) /\ Cardinality(B_) \in Nat
  BY <1>2, FS_Subset, FS_CardinalityType
<1>4. /\ Cardinality(A) \in Nat
      /\ Cardinality(A) <= Cardinality(B_) /\ Cardinality(A) # Cardinality(B_)
  BY <1>1, <1>3, FS_Subset, FS_CardinalityType
<1> QED
  BY <1>3, <1>4 DEF Rank, A, B_

(* Two elements never have the same rank.                                  *)
LEMMA RanksDiffer ==
  ASSUME NEW S, IsFiniteSet(S), NEW P, IsStrictOrder(S, P), NEW s \in S, NEW t \in S,
         Rank(S, P, s) = Rank(S, P, t)
  PROVE  s = t
<1>1. Rank(S, P, s) \in Int /\ Rank(S, P, t) \in Int
  <2>1. Rank(S, P, s) \in 0..Cardinality(S) - 1 /\ Rank(S, P, t) \in 0..Cardinality(S) - 1
    BY RankOf
  <2> QED
    BY <2>1
<1>2. <<s, t>> \in P => Rank(S, P, s) < Rank(S, P, t)
  BY RankGrows
<1>3. <<t, s>> \in P => Rank(S, P, t) < Rank(S, P, s)
  BY RankGrows
<1> QED
  BY <1>1, <1>2, <1>3 DEF IsStrictOrder

(* Every rank is taken.                                                    *)
LEMMA RanksAreTaken ==
  ASSUME NEW S, IsFiniteSet(S), NEW P, IsStrictOrder(S, P), NEW i \in 1..Cardinality(S)
  PROVE  \E t \in S : Rank(S, P, t) = i - 1
<1> DEFINE n == Cardinality(S)
           R == {Rank(S, P, t) : t \in S}
           f == [t \in S |-> Rank(S, P, t)]
<1>1. n \in Nat
  BY FS_CardinalityType
<1>2. R \subseteq 0..n - 1
  BY RankOf
<1>3. f \in Bijection(S, R)
  <2>1. f \in [S -> R]
    OBVIOUS
  <2>2. \A s, t \in S : f[s] = f[t] => s = t
    BY RanksDiffer
  <2>3. \A r \in R : \E s \in S : f[s] = r
    OBVIOUS
  <2> HIDE DEF f, R
  <2> QED
    BY <2>1, <2>2, <2>3, Fun_IsBij
<1> HIDE DEF f, R
<1>4. Cardinality(R) = n
  <2>1. ExistsBijection(S, R)
    BY <1>3, Zenon DEF ExistsBijection
  <2>2. \A T : ExistsBijection(S, T) => Cardinality(T) = Cardinality(S)
    BY FS_Bijection, Zenon
  <2> QED
    BY <2>1, <2>2, Zenon
<1>5. IsFiniteSet(0..n - 1) /\ Cardinality(0..n - 1) = n
  <2>0. 0 \in Int /\ n - 1 \in Int
    BY <1>1
  <2>1. Cardinality(0..n - 1) = IF 0 > n - 1 THEN 0 ELSE (n - 1) - 0 + 1
    BY <2>0, FS_Interval, Zenon
  <2>2. IsFiniteSet(0..n - 1)
    BY <2>0, FS_Interval, Zenon
  <2> QED
    BY <1>1, <2>1, <2>2
<1>6. R = 0..n - 1
  BY <1>2, <1>4, <1>5, FS_Subset
<1>7. i - 1 \in R
  BY <1>1, <1>6
<1> QED
  BY <1>7 DEF R

(* What counts its elements from one to n is a sequence of them.           *)
LEMMA IsSeq ==
  ASSUME NEW S, NEW n \in Nat, NEW q \in [1..n -> S] PROVE q \in Seq(S)
OBVIOUS

(* A finite set in an order: each element once, and those before are less. *)
LEMMA Ranked ==
  ASSUME NEW S, IsFiniteSet(S), NEW P, IsStrictOrder(S, P),
         NEW q, q = [i \in 1..Cardinality(S) |-> q[i]],
         \A i \in 1..Cardinality(S) : q[i] = CHOOSE t \in S : Rank(S, P, t) = i - 1
  PROVE  /\ q \in Seq(S)
         /\ \A i, j \in DOMAIN q : q[i] = q[j] => i = j
         /\ \A t \in S : \E i \in DOMAIN q : q[i] = t
         /\ \A i, j \in DOMAIN q : i < j => <<q[i], q[j]>> \in P
<1> DEFINE n == Cardinality(S)
<1>1. n \in Nat
  BY FS_CardinalityType
<1>2. ASSUME NEW i \in 1..n PROVE q[i] \in S /\ Rank(S, P, q[i]) = i - 1
  <2>1. \E t \in S : Rank(S, P, t) = i - 1
    BY RanksAreTaken
  <2>2. q[i] = CHOOSE t \in S : Rank(S, P, t) = i - 1
    OBVIOUS
  <2> QED
    BY <2>1, <2>2
<1>3. DOMAIN q = 1..n
  OBVIOUS
<1>4. q \in [1..n -> S]
  BY <1>2
<1>5. q \in Seq(S)
  BY <1>1, <1>4, IsSeq
<1>6. \A i, j \in DOMAIN q : q[i] = q[j] => i = j
  BY <1>1, <1>2, <1>3
<1>7. ASSUME NEW t \in S PROVE \E i \in DOMAIN q : q[i] = t
  <2>1. Rank(S, P, t) \in 0..n - 1
    BY RankOf
  <2>2. PICK i \in 1..n : i = Rank(S, P, t) + 1
    BY <1>1, <2>1
  <2>3. Rank(S, P, q[i]) = Rank(S, P, t)
    BY <1>2, <2>1, <2>2
  <2>4. q[i] = t
    BY <1>2, <2>3, RanksDiffer
  <2> QED
    BY <1>3, <2>4
<1>8. ASSUME NEW i \in DOMAIN q, NEW j \in DOMAIN q, i < j PROVE <<q[i], q[j]>> \in P
  <2>1. q[i] \in S /\ q[j] \in S /\ Rank(S, P, q[i]) = i - 1 /\ Rank(S, P, q[j]) = j - 1
    BY <1>2, <1>3
  <2>2. q[i] # q[j]
    BY <1>1, <1>3, <1>8, <2>1
  <2>3. <<q[j], q[i]>> \in P => Rank(S, P, q[j]) < Rank(S, P, q[i])
    BY <2>1, RankGrows
  <2>4. ~(j - 1 < i - 1)
    BY <1>1, <1>3, <1>8
  <2> QED
    BY <2>1, <2>2, <2>3, <2>4 DEF IsStrictOrder
<1> QED
  BY <1>5, <1>6, <1>7, <1>8

(* --- The targets, largest first ---------------------------------------- *)

(* oRmWhereNumRows goes through the targets by size, the largest first,    *)
(* and through each of them once.                                          *)
LEMMA LargestFirst ==
  ASSUME NEW r, NEW targets,
         IsFiniteSet(targets),
         \A t \in targets : t.owner \in Int /\ t.name \in Int,
         \A s, t \in targets : Key(s) = Key(t) => s = t,
         \A t \in targets : Key(t) \in Keys(r["ALL_TABLES"]),
         NEW size, \A t \in targets : size[t] \in Int,
         \A t \in targets : size[t] = (CHOOSE u \in r["ALL_TABLES"] : Key(u) = Key(t)).mbytes
  PROVE  LET q == BySize(r, targets)
         IN  /\ q \in Seq(targets)
             /\ \A i, j \in DOMAIN q : q[i] = q[j] => i = j
             /\ \A t \in targets : \E i \in DOMAIN q : q[i] = t
             /\ \A i, j \in DOMAIN q : i < j => size[q[i]] >= size[q[j]]
<1> DEFINE Size(t) == (CHOOSE u \in r["ALL_TABLES"] : Key(u) = Key(t)).mbytes
           Precedes(s, t) ==
             \/ Size(s) > Size(t)
             \/ Size(s) = Size(t) /\ s # t /\ NotAfter(Key(s), Key(t))
           S == {t \in targets : Key(t) \in Keys(r["ALL_TABLES"])}
           P == {p \in S \X S : Precedes(p[1], p[2])}
           q == BySize(r, targets)
<1>1. S = targets
  OBVIOUS
<1>2. q = [i \in 1..Cardinality(S) |-> CHOOSE t \in S : Cardinality({s \in S : Precedes(s, t)}) = i - 1]
  BY DEF BySize
<1>3. ASSUME NEW s \in targets, NEW t \in targets
      PROVE  <<s, t>> \in P <=>
               \/ size[s] > size[t]
               \/ /\ size[s] = size[t] /\ s # t
                  /\ s.owner < t.owner \/ (s.owner = t.owner /\ s.name <= t.name)
  <2>1. <<s, t>> \in P <=> Precedes(s, t)
    BY <1>1
  <2>2. Size(s) = size[s] /\ Size(t) = size[t]
    OBVIOUS
  <2> HIDE DEF Size, P
  <2> QED
    BY <2>1, <2>2 DEF NotAfter, Key
<1>4. ASSUME NEW t \in S PROVE {s \in S : Precedes(s, t)} = {s \in S : <<s, t>> \in P}
  <2>1. \A s \in S : <<s, t>> \in P <=> Precedes(s, t)
    OBVIOUS
  <2> HIDE DEF P, Precedes
  <2> QED
    BY <2>1
<1>5. /\ q = [i \in 1..Cardinality(S) |-> q[i]]
      /\ \A i \in 1..Cardinality(S) : q[i] = CHOOSE t \in S : Rank(S, P, t) = i - 1
  <2>1. ASSUME NEW t \in S PROVE Cardinality({s \in S : Precedes(s, t)}) = Rank(S, P, t)
    BY <1>4 DEF Rank
  <2> HIDE DEF P, Precedes, S
  <2>2. ASSUME NEW i \in 1..Cardinality(S)
        PROVE  (CHOOSE t \in S : Cardinality({s \in S : Precedes(s, t)}) = i - 1)
               = CHOOSE t \in S : Rank(S, P, t) = i - 1
    BY <2>1
  <2>3. ASSUME NEW i \in 1..Cardinality(S)
        PROVE  q[i] = CHOOSE t \in S : Cardinality({s \in S : Precedes(s, t)}) = i - 1
    BY <1>2
  <2>4. q = [i \in 1..Cardinality(S) |-> q[i]]
    BY <1>2
  <2> HIDE DEF q
  <2>5. ASSUME NEW i \in 1..Cardinality(S) PROVE q[i] = CHOOSE t \in S : Rank(S, P, t) = i - 1
    BY <2>2, <2>3
  <2> QED
    BY <2>4, <2>5
<1> HIDE DEF P, q
<1>6. IsStrictOrder(targets, P)
  <2>1. \A t \in targets : <<t, t>> \notin P
    BY <1>3
  <2>2. ASSUME NEW s \in targets, NEW t \in targets, NEW u \in targets,
               <<s, t>> \in P, <<t, u>> \in P
        PROVE  <<s, u>> \in P
    <3>1. s = u => s.owner = t.owner /\ s.name = t.name
      BY <1>3, <2>2
    <3>2. s = u => s = t
      BY <3>1 DEF Key
    <3>3. s # t
      BY <2>1, <2>2
    <3> QED
      BY <1>3, <2>2, <3>2, <3>3
  <2>3. ASSUME NEW s \in targets, NEW t \in targets
        PROVE  s = t \/ <<s, t>> \in P \/ <<t, s>> \in P
    BY <1>3
  <2> QED
    BY <2>1, <2>2, <2>3 DEF IsStrictOrder
<1>7. /\ q \in Seq(targets)
      /\ \A i, j \in DOMAIN q : q[i] = q[j] => i = j
      /\ \A t \in targets : \E i \in DOMAIN q : q[i] = t
      /\ \A i, j \in DOMAIN q : i < j => <<q[i], q[j]>> \in P
  <2> HIDE DEF S
  <2>1. IsFiniteSet(S) /\ IsStrictOrder(S, P)
    BY <1>1, <1>6
  <2>2. /\ q \in Seq(S)
        /\ \A i, j \in DOMAIN q : q[i] = q[j] => i = j
        /\ \A t \in S : \E i \in DOMAIN q : q[i] = t
        /\ \A i, j \in DOMAIN q : i < j => <<q[i], q[j]>> \in P
    BY <1>5, <2>1, Ranked
  <2> QED
    BY <1>1, <2>2
<1>8. ASSUME NEW i \in DOMAIN q, NEW j \in DOMAIN q, i < j PROVE size[q[i]] >= size[q[j]]
  <2>1. q[i] \in targets /\ q[j] \in targets
    BY <1>7
  <2>2. <<q[i], q[j]>> \in P
    BY <1>7, <1>8
  <2>3. size[q[i]] > size[q[j]] \/ size[q[i]] = size[q[j]]
    BY <1>3, <2>1, <2>2
  <2> QED
    BY <2>1, <2>3
<1> QED
  BY <1>7, <1>8 DEF q

(* --- The tables of the repository -------------------------------------- *)

(* vRefresGetDataRepo fills the tables the choice looks at, each once.     *)
LEMMA TablesInOrder ==
  /\ tSeqList \in Seq({tSeqList[i] : i \in DOMAIN tSeqList})
  /\ \A table \in Consulted : \E i \in DOMAIN tSeqList : tSeqList[i] = table
  /\ \A i \in DOMAIN tSeqList : tSeqList[i] \notin {"ALL_USERS", "TARGET_OWNERS", "TARGET_TABLES", "EFFECTIVE_CONS"}
<1>1. DOMAIN tSeqList = 1..16
  BY DEF tSeqList
<1>2. /\ tSeqList[1] = "ALL_TABLES" /\ tSeqList[4] = "ALL_MVIEWS"
      /\ tSeqList[5] = "ALL_EXTERNAL_TABLES" /\ tSeqList[7] = "ALL_CONSTRAINTS"
  BY DEF tSeqList
<1>3. \A i \in 1..16 : tSeqList[i] \notin {"ALL_USERS", "TARGET_OWNERS", "TARGET_TABLES", "EFFECTIVE_CONS"}
  BY DEF tSeqList
<1>4. tSeqList = [i \in 1..16 |-> tSeqList[i]]
  BY DEF tSeqList
<1>5. tSeqList \in [1..16 -> {tSeqList[i] : i \in DOMAIN tSeqList}]
  BY <1>1, <1>4
<1>6. tSeqList \in Seq({tSeqList[i] : i \in DOMAIN tSeqList})
  BY <1>5, IsSeq
<1>7. \A table \in Consulted : \E i \in DOMAIN tSeqList : tSeqList[i] = table
  BY <1>1, <1>2 DEF Consulted
<1> QED
  BY <1>1, <1>3, <1>6, <1>7

(* The tables the choice looks at are in the repository.                   *)
LEMMA TablesAreThere ==
  /\ Consulted \subseteq RepoTables
  /\ {"ALL_USERS", "TARGET_OWNERS", "TARGET_TABLES", "EFFECTIVE_CONS"} \subseteq RepoTables
  /\ \A i \in DOMAIN tSeqList : tSeqList[i] \in RepoTables
  BY TablesInOrder DEF RepoTables

(* A repository stays one when one of its tables is replaced.              *)
LEMMA Put ==
  ASSUME NEW r, IsRepo(r), NEW k \in RepoTables, NEW v, NEW s, s = [r EXCEPT ![k] = v]
  PROVE  /\ IsRepo(s) /\ s[k] = v
         /\ \A t \in RepoTables : t # k => s[t] = r[t]
  BY DEF IsRepo

LEMMA NoRepoIsOne == IsRepo(NoRepo) /\ \A t \in RepoTables : NoRepo[t] = {}
  BY DEF IsRepo, NoRepo

(* A fetch that was not disturbed has brought everything.                  *)
LEMMA BroughtAll ==
  ASSUME NEW table, NEW S, NEW o \in vExecuteAndFetch(table, S), o.failed = {}, o.cont_
  PROVE  o.rows = S /\ Undisturbed
<1>1. failed \cup {table} # {}
  OBVIOUS
<1>2. CASE ~cont_
  <2>1. o.failed = failed \cup {table}
    BY <1>2 DEF vExecuteAndFetch
  <2> QED
    BY <1>1, <2>1
<1>3. CASE cont_
  <2>1. \/ o.rows = S /\ o.failed = failed
        \/ o.failed = failed \cup {table}
    BY <1>3 DEF vExecuteAndFetch
  <2> QED
    BY <1>1, <1>3, <2>1 DEF Undisturbed
<1> QED
  BY <1>2, <1>3

(* --- What is wanted ---------------------------------------------------- *)

(* What a start asks for is what its configuration has.                    *)
LEMMA WhatIsUsed ==
  ASSUME OptionsAreUsed
  PROVE  /\ conf_.src_user = Wanted("src_user")
         /\ conf_.listtable = Wanted("listtable") /\ conf_.filetable = Wanted("filetable")
         /\ conf_.listexcpt = Wanted("listexcpt") /\ conf_.fileexcpt = Wanted("fileexcpt")
         /\ conf_.num_rows = Wanted("num_rows")
<1> DEFINE asked == {"src_user", "listtable", "filetable", "listexcpt", "fileexcpt", "num_rows"}
<1>1. asked \subseteq DOMAIN Defaults \cup DOMAIN Initial
  BY OptionsHaveDefaults
<1>2. asked \subseteq Used
  BY DEF Used
<1>3. ASSUME NEW o \in asked PROVE conf_[o] = Wanted(o)
  <2>1. Wanted(o) = as(vm_(x.start), o)
    BY <1>1, WantedIsUsed
  <2>2. conf_[o] = as(vm_(x.start), o)
    BY <1>2 DEF OptionsAreUsed
  <2> QED
    BY <2>1, <2>2
<1> QED
  BY <1>3

(* A list of names is the one of the option and the one of its file        *)
(* together; an empty list of tables asks for all.                         *)
LEMMA WhatIsListed ==
  ASSUME x \in Given, OptionsAreUsed, NEW n \in AnyName
  PROVE  /\ Matched(ListTable(conf_), n) <=>
              Wanted("listtable") = <<>> \/ Matched(Wanted("listtable") \o Wanted("filetable"), n)
         /\ Matched(ListExcpt(conf_), n) <=> Matched(Wanted("listexcpt") \o Wanted("fileexcpt"), n)
<1> DEFINE f == conf_.filetable
<1>1. f \in Seq(SUBSET AnyName)
  <2>1. as(vm_(x.start), "filetable") \in Seq(SUBSET AnyName)
    BY GivenAssumption DEF OptionsAreUsed
  <2>2. f = as(vm_(x.start), "filetable")
    BY DEF OptionsAreUsed, Used
  <2> QED
    BY <2>1, <2>2
<1>2. CASE conf_.listtable = <<>>
  <2> DEFINE q == <<AnyName>> \o f
  <2>1. ListTable(conf_) = q
    BY <1>2 DEF ListTable
  <2>2. <<AnyName>> \in Seq(SUBSET AnyName) /\ Len(<<AnyName>>) = 1 /\ <<AnyName>>[1] = AnyName
    BY DEF AnyName
  <2> HIDE DEF f
  <2>3. 1 \in DOMAIN q /\ q[1] = AnyName
    BY <1>1, <2>2, ConcatProperties
  <2> HIDE DEF q
  <2>4. Matched(q, n)
    BY <2>3 DEF Matched
  <2> QED
    BY <1>2, <2>1, <2>4, WhatIsUsed DEF ListExcpt
<1>3. CASE conf_.listtable # <<>>
  BY <1>3, WhatIsUsed DEF ListTable, ListExcpt
<1> QED
  BY <1>2, <1>3

(* --- The rows of TARGET_TABLES ----------------------------------------- *)

(* The tables of the repository r that become targets, and their rows.     *)
ReadOnly(r) == {m.name : m \in {v \in r["ALL_MVIEWS"] : ~v.updatable}}
Overflow(r) == {t \in r["ALL_TABLES"] : t.iot = "IOT_OVERFLOW"}
Transient(r) == {t \in r["ALL_TABLES"] : t.dropped \/ t.temporary}
IsChosen(c, r, a) ==
  /\ a.owner \in r["TARGET_OWNERS"]
  /\ Matched(ListTable(c), a.name) /\ ~Matched(ListExcpt(c), a.name)
  /\ a.name \notin ReadOnly(r) /\ ~IsSnapshotName(a.name)
  /\ Key(a) \notin Keys(Overflow(r))
  /\ Key(a) \notin Keys(r["ALL_EXTERNAL_TABLES"])
  /\ Key(a) \notin Keys(Transient(r))
Chosen(c, r) == {a \in r["ALL_TABLES"] : IsChosen(c, r, a)}

Num(r, t, types) ==
  Cardinality({c \in r["ALL_TAB_COLUMNS"] : c.owner = t.owner /\ c.table = t.name /\ c.type \in types})
Row(a, fixed, longs, lobs) ==
  [owner |-> a.owner, name |-> a.name, iot |-> a.iot, fixed |-> fixed, longs |-> longs, lobs |-> lobs]
TargetRow(c, r, a) ==
  Row(a, Matched(ListFixed(c), a.name), Num(r, a, {"LONG"}), Num(r, a, {"LOB"}))

(* vDelOptionals changes two numbers of a row and leaves the others.       *)
LEMMA RowCounted ==
  ASSUME NEW a, NEW fixed, NEW longs, NEW lobs
  PROVE  [Row(a, fixed, 0, 0) EXCEPT !.longs = longs, !.lobs = lobs] = Row(a, fixed, longs, lobs)
<1> DEFINE columns == {"owner", "name", "iot", "fixed", "longs", "lobs"}
           p == Row(a, fixed, 0, 0)
           q == [p EXCEPT !.longs = longs, !.lobs = lobs]
           t == Row(a, fixed, longs, lobs)
<1>1. p = [k \in columns |-> p[k]]
  BY DEF Row
<1>2. t = [k \in columns |-> t[k]]
  BY DEF Row
<1>3. /\ p.owner = t.owner /\ p.name = t.name /\ p.iot = t.iot /\ p.fixed = t.fixed
      /\ t.longs = longs /\ t.lobs = lobs
  BY DEF Row
<1> HIDE DEF p, t
<1>4. q = [k \in columns |-> q[k]]
  BY <1>1
<1>5. \A k \in columns : q[k] = t[k]
  BY <1>1, <1>3
<1> HIDE DEF q, columns
<1>6. q = t
  BY <1>2, <1>4, <1>5
<1> QED
  BY <1>6 DEF p, q, t

(* TARGET_TABLES has a row for each table that is chosen, and no other.    *)
LEMMA RowsOfTargets ==
  ASSUME NEW c, NEW r
  PROVE  TargetTables(c, r) = {TargetRow(c, r, a) : a \in Chosen(c, r)}
<1> DEFINE here == Of(r["ALL_TABLES"], r["TARGET_OWNERS"])
           listed == {a \in here : Matched(ListTable(c), a.name)}
           Fixed(a) == Row(a, Matched(ListFixed(c), a.name), 0, 0)
           kept == {a \in listed : ~Matched(ListExcpt(c), a.name)}
           S1 == vInsItems(r, ListTable(c))
           S2 == vChgItems(S1, ListFixed(c))
           S3 == vDelItems(S2, ListExcpt(c))
           S4 == vDelOptionals(r, S3)
           S5 == vCountSpecialColumn(r, S4)
<1>1. S1 = {Row(a, FALSE, 0, 0) : a \in listed}
  BY DEF vInsItems, Row
<1>2. S2 = {Fixed(a) : a \in listed}
  <2>1. \A a : Row(a, FALSE, 0, 0).name = a.name
    BY DEF Row
  <2>2. \A a : [Row(a, FALSE, 0, 0) EXCEPT !.fixed = Matched(ListFixed(c), Row(a, FALSE, 0, 0).name)] = Fixed(a)
    BY <2>1 DEF Row
  <2>3. S2 = {[t EXCEPT !.fixed = Matched(ListFixed(c), t.name)] : t \in S1}
    BY DEF vChgItems
  <2> HIDE DEF S1, S2, listed, Fixed
  <2> QED
    BY <1>1, <2>2, <2>3
<1>3. \A a : Fixed(a).name = a.name /\ Fixed(a).owner = a.owner
  BY DEF Row
<1>4. S3 = {Fixed(a) : a \in kept}
  <2>1. S3 = {t \in S2 : ~Matched(ListExcpt(c), t.name)}
    BY DEF vDelItems
  <2>2. \A a : a \in kept <=> a \in listed /\ ~Matched(ListExcpt(c), a.name)
    OBVIOUS
  <2> HIDE DEF S2, S3, listed, kept, Fixed
  <2> QED
    BY <1>2, <1>3, <2>1, <2>2
<1>5. S4 = {Fixed(a) : a \in Chosen(c, r)}
  <2> DEFINE Stays(n, k) ==
               /\ n \notin ReadOnly(r) /\ ~IsSnapshotName(n) /\ k \notin Keys(Overflow(r))
               /\ k \notin Keys(r["ALL_EXTERNAL_TABLES"]) /\ k \notin Keys(Transient(r))
  <2>1. S4 = {t \in S3 : Stays(t.name, Key(t))}
    BY DEF vDelOptionals, ReadOnly, Overflow, Transient
  <2>2. \A a : a \in Chosen(c, r) <=> a \in kept /\ Stays(a.name, Key(a))
    BY DEF Chosen, IsChosen, Of
  <2>3. \A a : Key(Fixed(a)) = Key(a)
    BY <1>3 DEF Key
  <2> HIDE DEF S3, S4, kept, Fixed, Stays
  <2> QED
    BY <1>3, <1>4, <2>1, <2>2, <2>3
<1>6. S5 = {TargetRow(c, r, a) : a \in Chosen(c, r)}
  <2> DEFINE Counted(t) == [t EXCEPT !.longs = Num(r, t, {"LONG"}), !.lobs = Num(r, t, {"LOB"})]
  <2>1. S5 = {Counted(t) : t \in S4}
    BY DEF vCountSpecialColumn, Num
  <2>2. ASSUME NEW a PROVE Counted(Fixed(a)) = TargetRow(c, r, a)
    <3>1. \A types : Num(r, Fixed(a), types) = Num(r, a, types)
      BY <1>3 DEF Num
    <3>2. /\ Num(r, Fixed(a), {"LONG"}) = Num(r, a, {"LONG"})
          /\ Num(r, Fixed(a), {"LOB"}) = Num(r, a, {"LOB"})
      BY <3>1
    <3>3. Counted(Fixed(a))
          = [Fixed(a) EXCEPT !.longs = Num(r, a, {"LONG"}), !.lobs = Num(r, a, {"LOB"})]
      BY <3>2
    <3>4. [Fixed(a) EXCEPT !.longs = Num(r, a, {"LONG"}), !.lobs = Num(r, a, {"LOB"})]
          = TargetRow(c, r, a)
      <4>1. \A u, v : [Row(a, Matched(ListFixed(c), a.name), 0, 0) EXCEPT !.longs = u, !.lobs = v]
                    = Row(a, Matched(ListFixed(c), a.name), u, v)
        BY RowCounted
      <4> QED
        BY <4>1 DEF TargetRow
    <3> HIDE DEF Counted, Fixed
    <3> QED
      BY <3>3, <3>4
  <2> HIDE DEF S4, S5, Fixed, Counted
  <2> QED
    BY <1>5, <2>1, <2>2
<1> QED
  BY <1>6 DEF TargetTables

(* They are as many as the tables, and have their keys.                    *)
LEMMA TargetsHaveKeys ==
  ASSUME NEW c, NEW r, IsFiniteSet(r["ALL_TABLES"]),
         \A s, t \in r["ALL_TABLES"] : Key(s) = Key(t) => s = t
  PROVE  /\ IsFiniteSet(TargetTables(c, r))
         /\ \A t \in TargetTables(c, r) :
              \E a \in Chosen(c, r) : t.owner = a.owner /\ t.name = a.name /\ Key(t) = Key(a)
         /\ \A a \in Chosen(c, r) : \E t \in TargetTables(c, r) : Key(t) = Key(a)
         /\ \A s, t \in TargetTables(c, r) : Key(s) = Key(t) => s = t
<1> DEFINE A == Chosen(c, r)
           T == TargetTables(c, r)
           f == [a \in A |-> TargetRow(c, r, a)]
<1>1. T = {TargetRow(c, r, a) : a \in A}
  BY RowsOfTargets
<1>2. \A a : TargetRow(c, r, a).owner = a.owner /\ TargetRow(c, r, a).name = a.name
  BY DEF TargetRow, Row
<1>3. \A a : Key(TargetRow(c, r, a)) = Key(a)
  BY <1>2 DEF Key
<1>4. IsFiniteSet(A)
  BY FS_Subset DEF Chosen
<1>5. A \subseteq r["ALL_TABLES"]
  BY DEF Chosen
<1> HIDE DEF A, T
<1>6. f \in Surjection(A, T)
  <2>1. f \in [A -> T]
    BY <1>1
  <2>2. \A t \in T : \E a \in A : f[a] = t
    BY <1>1
  <2> HIDE DEF f
  <2> QED
    BY <2>1, <2>2, Fun_IsSurj
<1>7. IsFiniteSet(T)
  BY <1>4, <1>6, FS_Surjection
<1>8. \A t \in T : \E a \in A : t.owner = a.owner /\ t.name = a.name /\ Key(t) = Key(a)
  BY <1>1, <1>2, <1>3
<1>9. \A a \in A : \E t \in T : Key(t) = Key(a)
  BY <1>1, <1>3
<1>10. ASSUME NEW s \in T, NEW t \in T, Key(s) = Key(t) PROVE s = t
  <2>1. PICK a \in A : s = TargetRow(c, r, a)
    BY <1>1
  <2>2. PICK b \in A : t = TargetRow(c, r, b)
    BY <1>1
  <2>3. Key(a) = Key(b)
    BY <1>3, <1>10, <2>1, <2>2
  <2>4. a = b
    BY <1>5, <2>3
  <2> QED
    BY <2>1, <2>2, <2>4
<1> QED
  BY <1>7, <1>8, <1>9, <1>10 DEF A, T

(* --- What is given stays ----------------------------------------------- *)

(* What the user wants and what the database holds stay as they are.       *)
LEMMA GivenStays ==
  ASSUME UNCHANGED x
  PROVE  /\ Asked' = Asked
         /\ \A o : Wanted(o)' = Wanted(o)
         /\ \A t : RowsOf(t)' = RowsOf(t)
         /\ \A t : MayBeMisjudged(t)' <=> MayBeMisjudged(t)
<1>1. ASSUME NEW o PROVE Wanted(o)' = Wanted(o)
  BY DEF Wanted
<1>2. Asked' = Asked
  BY <1>1 DEF Asked
<1>3. ASSUME NEW t PROVE RowsOf(t)' = RowsOf(t)
  BY DEF RowsOf
<1>4. ASSUME NEW t PROVE MayBeMisjudged(t)' <=> MayBeMisjudged(t)
  BY DEF MayBeMisjudged
<1> QED
  BY <1>1, <1>2, <1>3, <1>4

(* The dictionary has one row of a key, in whatever part of it.            *)
LEMMA RowsOfKey ==
  ASSUME x \in Given, NEW S, S \subseteq x.tables, NEW a \in S, NEW t, Key(t) = Key(a)
  PROVE  (CHOOSE r \in S : Key(r) = Key(t)) = a
<1>1. \A r \in S : Key(r) = Key(t) <=> r = a
  BY GivenAssumption
<1> QED
  BY <1>1

(* The tables of the copy that are chosen are those that were asked for,   *)
(* but for materialized views that cannot be written.                      *)
LEMMA AskedAreChosen ==
  ASSUME x \in Given, OptionsAreUsed,
         owners = {o \in x.users : Matched(conf_.src_user, o)},
         \A table \in Consulted : IsCopied(table)
  PROVE  /\ repo["ALL_TABLES"] = Of(x.tables, owners)
         /\ \A a \in Chosen(conf_, repo) : a \in Asked
         /\ \A a \in Asked : MayBeMisjudged(a) \/ a \in Chosen(conf_, repo)
<1>1. /\ repo["ALL_TABLES"] = Of(x.tables, owners)
      /\ repo["ALL_MVIEWS"] = Of(x.mviews, owners)
      /\ repo["ALL_EXTERNAL_TABLES"] = Of(x.externals, owners)
  BY DEF IsCopied, Consulted, CopyOf, AllTablesRows, AllMviewsRows, AllExternalTablesRows
<1>2. ASSUME NEW a \in Chosen(conf_, repo) PROVE a \in Asked
  <2>1. /\ a \in x.tables /\ a.owner \in owners /\ a \in repo["ALL_TABLES"] /\ IsChosen(conf_, repo, a)
    BY <1>1 DEF Chosen, Of
  <2>2. a.name \in AnyName
    BY <2>1, GivenAssumption
  <2>3. a.owner \in x.users /\ Matched(Wanted("src_user"), a.owner)
    BY <2>1, WhatIsUsed
  <2>4. /\ Wanted("listtable") = <<>> \/ Matched(Wanted("listtable") \o Wanted("filetable"), a.name)
        /\ ~Matched(Wanted("listexcpt") \o Wanted("fileexcpt"), a.name)
    BY <2>1, <2>2, WhatIsListed DEF IsChosen
  <2>5. ~a.dropped /\ ~a.temporary
    BY <2>1 DEF IsChosen, Transient, Keys
  <2>6. a.iot # "IOT_OVERFLOW"
    BY <2>1 DEF IsChosen, Overflow, Keys
  <2>7. ~IsSnapshotName(a.name)
    BY <2>1 DEF IsChosen
  <2>8. Key(a) \notin Keys(x.externals)
    BY <1>1, <2>1 DEF IsChosen, Keys, Key, Of
  <2>9. Key(a) \notin Keys({m \in x.mviews : ~m.updatable})
    BY <1>1, <2>1 DEF IsChosen, ReadOnly, Keys, Key, Of
  <2> QED
    BY <2>1, <2>3, <2>4, <2>5, <2>6, <2>7, <2>8, <2>9 DEF Asked
<1>3. ASSUME NEW a \in Asked, ~MayBeMisjudged(a) PROVE a \in Chosen(conf_, repo)
  <2>1. /\ a \in x.tables /\ a.owner \in x.users /\ Matched(Wanted("src_user"), a.owner)
        /\ Wanted("listtable") = <<>> \/ Matched(Wanted("listtable") \o Wanted("filetable"), a.name)
        /\ ~Matched(Wanted("listexcpt") \o Wanted("fileexcpt"), a.name)
        /\ ~a.dropped /\ ~a.temporary /\ a.iot # "IOT_OVERFLOW" /\ ~IsSnapshotName(a.name)
        /\ Key(a) \notin Keys(x.externals)
    BY DEF Asked
  <2>2. a.owner \in owners /\ a \in repo["ALL_TABLES"]
    BY <1>1, <2>1, WhatIsUsed DEF Of
  <2>3. a.name \in AnyName
    BY <2>1, GivenAssumption
  <2>4. Matched(ListTable(conf_), a.name) /\ ~Matched(ListExcpt(conf_), a.name)
    BY <2>1, <2>3, WhatIsListed
  <2>5. a.name \notin ReadOnly(repo)
    BY <1>1, <1>3 DEF MayBeMisjudged, ReadOnly, Of
  <2>6. \A t \in repo["ALL_TABLES"] : Key(t) = Key(a) => t = a
    BY <1>1, <2>1, GivenAssumption DEF Of
  <2>7. Key(a) \notin Keys(Overflow(repo)) /\ Key(a) \notin Keys(Transient(repo))
    BY <2>1, <2>6 DEF Overflow, Transient, Keys
  <2>8. Key(a) \notin Keys(repo["ALL_EXTERNAL_TABLES"])
    BY <1>1, <2>1 DEF Keys, Of
  <2> QED
    BY <2>1, <2>2, <2>4, <2>5, <2>7, <2>8 DEF Chosen, IsChosen, owners
<1> QED
  BY <1>1, <1>2, <1>3

(* --- The targets are chosen -------------------------------------------- *)

LEMMA NamesAreInts == \A n \in AnyName : n \in Int
  BY DEF AnyName

(* The least number of rows that is asked for is a number.                 *)
LEMMA NumRowsIsInt ==
  ASSUME x \in Given, OptionsAreUsed
  PROVE  Wanted("num_rows") \in Int /\ conf_.num_rows = Wanted("num_rows")
<1>1. as(vm_(x.start), "num_rows") \in Int
  BY GivenAssumption DEF OptionsAreUsed
<1>2. conf_.num_rows = as(vm_(x.start), "num_rows")
  BY DEF OptionsAreUsed, Used
<1> QED
  BY <1>1, <1>2, WhatIsUsed

(* When the copy ends undisturbed, the targets to be counted are chosen.   *)
LEMMA TargetsChosen ==
  ASSUME x \in Given, OptionsAreUsed, IsRepo(repo), oTableList = <<>>,
         owners = {o \in x.users : Matched(conf_.src_user, o)},
         \A table \in Consulted : IsCopied(table),
         cTargetTables
  PROVE  CountInv'
<1> DEFINE T == TargetTables(conf_, repo)
           size == [t \in T |-> RowsOf(t).mbytes]
           r == repo'
           q == todo'
<1>1. /\ repo' = [repo EXCEPT !["TARGET_TABLES"] = T] /\ oTableList' = <<>>
      /\ UNCHANGED <<x, conf_>>
  BY DEF cTargetTables
<1>2. /\ repo'["TARGET_TABLES"] = T
      /\ \A table \in RepoTables : table # "TARGET_TABLES" => repo'[table] = repo[table]
  <2> HIDE DEF T, r, q, size
  <2>1. "TARGET_TABLES" \in RepoTables
    BY TablesAreThere
  <2> QED
    BY <1>1, <2>1 DEF IsRepo
<1>3. \A table \in Consulted : table \in RepoTables /\ table # "TARGET_TABLES"
  BY TablesAreThere DEF Consulted
<1>4. owners' = owners
  BY <1>2, TablesAreThere DEF owners
<1>5. \A table \in Consulted : IsCopied(table)'
  <2> SUFFICES ASSUME NEW table \in Consulted PROVE IsCopied(table)'
    OBVIOUS
  <2>1. repo'[table] = repo[table]
    BY <1>2, <1>3
  <2>2. CopyOf(x, conf_, owners, table)' = CopyOf(x, conf_, owners, table)
    BY <1>1, <1>4
  <2>3. IsCopied(table)
    OBVIOUS
  <2> QED
    BY <2>1, <2>2, <2>3 DEF IsCopied
<1>6. repo["ALL_TABLES"] = Of(x.tables, owners) /\ repo'["ALL_TABLES"] = repo["ALL_TABLES"]
  BY <1>2, <1>3, AskedAreChosen DEF Consulted
<1>7. repo["ALL_TABLES"] \subseteq x.tables
  BY <1>6 DEF Of
<1>8. /\ IsFiniteSet(repo["ALL_TABLES"])
      /\ \A s, t \in repo["ALL_TABLES"] : Key(s) = Key(t) => s = t
  BY <1>7, GivenAssumption, FS_Subset
<1>9. /\ IsFiniteSet(T)
      /\ \A t \in T : \E a \in Chosen(conf_, repo) : t.owner = a.owner /\ t.name = a.name /\ Key(t) = Key(a)
      /\ \A a \in Chosen(conf_, repo) : \E t \in T : Key(t) = Key(a)
      /\ \A s, t \in T : Key(s) = Key(t) => s = t
  BY <1>8, TargetsHaveKeys
<1>10. \A a \in Chosen(conf_, repo) : a \in repo["ALL_TABLES"]
  BY DEF Chosen
<1> HIDE DEF T
<1>11. ASSUME NEW t \in T
       PROVE  /\ t.owner \in Int /\ t.name \in Int /\ Key(t) \in Keys(r["ALL_TABLES"])
              /\ size[t] \in Int /\ size[t] = (CHOOSE u \in r["ALL_TABLES"] : Key(u) = Key(t)).mbytes
  <2>1. PICK a \in repo["ALL_TABLES"] : t.owner = a.owner /\ t.name = a.name /\ Key(t) = Key(a)
    BY <1>9, <1>10
  <2>2. a \in x.tables
    BY <1>7, <2>1
  <2>3. a.owner \in Int /\ a.name \in AnyName /\ a.mbytes \in Int
    BY <2>2, GivenAssumption
  <2>4. a.name \in Int
    BY <2>3, NamesAreInts
  <2>5. RowsOf(t) = a
    BY <2>1, <2>2, RowsOfKey DEF RowsOf
  <2>6. (CHOOSE u \in r["ALL_TABLES"] : Key(u) = Key(t)) = a
    BY <1>6, <1>7, <2>1, RowsOfKey
  <2>7. Key(t) \in Keys(r["ALL_TABLES"])
    BY <1>6, <2>1 DEF Keys
  <2> QED
    BY <2>1, <2>3, <2>4, <2>5, <2>6, <2>7
<1>12. q = BySize(r, T)
  BY <1>2 DEF cTargetTables
<1> HIDE DEF r, q, size
<1>13. /\ q \in Seq(T)
       /\ \A i, j \in DOMAIN q : q[i] = q[j] => i = j
       /\ \A t \in T : \E i \in DOMAIN q : q[i] = t
       /\ \A i, j \in DOMAIN q : i < j => size[q[i]] >= size[q[j]]
  <2>1. \A t \in T : t.owner \in Int /\ t.name \in Int
    BY <1>11
  <2>2. \A t \in T : Key(t) \in Keys(r["ALL_TABLES"])
    BY <1>11
  <2>3. \A t \in T : size[t] \in Int
    BY <1>11
  <2>4. \A t \in T : size[t] = (CHOOSE u \in r["ALL_TABLES"] : Key(u) = Key(t)).mbytes
    BY <1>11
  <2> QED
    BY <1>9, <1>12, <2>1, <2>2, <2>3, <2>4, LargestFirst
<1>14. Uncounted' = T /\ Targets' = {}
  <2>1. \A i \in DOMAIN q : q[i] \in T
    BY <1>13
  <2>2. Uncounted' = {q[i] : i \in DOMAIN q}
    BY DEF Uncounted, q
  <2>3. Targets' = {}
    BY <1>1 DEF Targets
  <2> QED
    BY <1>13, <2>1, <2>2, <2>3
<1>15. TargetsAreListed'
  <2>1. oTableList' \in Seq(Targets')
    BY <1>1
  <2> QED
    BY <1>2, <1>13, <1>14, <2>1 DEF TargetsAreListed, q
<1>16. TargetsAreSorted'
  <2>1. DOMAIN oTableList' = {}
    BY <1>1
  <2>2. ASSUME NEW i \in DOMAIN q, NEW j \in DOMAIN q, i < j
        PROVE  RowsOf(q[i]).mbytes >= RowsOf(q[j]).mbytes
    <3>1. q[i] \in T /\ q[j] \in T
      BY <1>13
    <3>2. size[q[i]] >= size[q[j]]
      BY <1>13, <2>2
    <3> QED
      BY <3>1, <3>2 DEF size
  <2> QED
    BY <1>1, <2>1, <2>2 DEF TargetsAreSorted, IsNoSmaller, RowsOf, q
<1>17. TargetsAreAsked'
  <2>1. /\ Asked' = Asked /\ Wanted("num_rows")' = Wanted("num_rows")
        /\ \A t : MayBeMisjudged(t)' <=> MayBeMisjudged(t)
    BY <1>1, GivenStays
  <2>2. Keys(T) \subseteq Keys(Asked)
    BY <1>9, AskedAreChosen DEF Keys
  <2>3. ASSUME NEW t \in Asked
        PROVE  \/ MayBeMisjudged(t)
               \/ t.rows < Wanted("num_rows") /\ ~IsTarget(t.owner, t.name)'
               \/ t.rows >= Wanted("num_rows") /\ Key(t) \in Keys(T)
    <3>1. t.rows \in Int
      BY GivenAssumption DEF Asked
    <3>2. Wanted("num_rows") \in Int
      BY NumRowsIsInt
    <3>3. ~IsTarget(t.owner, t.name)'
      BY <1>14 DEF IsTarget, Keys
    <3>4. MayBeMisjudged(t) \/ Key(t) \in Keys(T)
      BY <1>9, AskedAreChosen DEF Keys
    <3> QED
      BY <3>1, <3>2, <3>3, <3>4
  <2> QED
    BY <1>14, <2>1, <2>2, <2>3 DEF TargetsAreAsked
<1> QED
  BY <1>5, <1>15, <1>16, <1>17 DEF CountInv

(* --- The rows are counted ---------------------------------------------- *)

LEMMA IsSeqOfItself ==
  ASSUME NEW S, NEW q \in Seq(S) PROVE q \in Seq({q[i] : i \in DOMAIN q})
<1>1. Len(q) \in Nat /\ DOMAIN q = 1..Len(q)
  OBVIOUS
<1>2. q \in [1..Len(q) -> {q[i] : i \in DOMAIN q}]
  BY <1>1
<1> QED
  BY <1>1, <1>2, IsSeq

(* What is in a sequence is its head or in its tail, one place further     *)
(* down.                                                                   *)
LEMMA HeadAndTail ==
  ASSUME NEW S, NEW q \in Seq(S), q # <<>>
  PROVE  /\ 1 \in DOMAIN q /\ Head(q) = q[1] /\ Tail(q) \in Seq(S)
         /\ \A i \in DOMAIN Tail(q) : i \in Int /\ i + 1 \in DOMAIN q /\ i + 1 # 1 /\ Tail(q)[i] = q[i + 1]
         /\ \A i \in DOMAIN q : i = 1 \/ \E j \in DOMAIN Tail(q) : Tail(q)[j] = q[i]
<1>1. /\ Len(q) \in Nat /\ Len(q) # 0 /\ DOMAIN q = 1..Len(q) /\ Head(q) = q[1]
      /\ Tail(q) \in Seq(S) /\ DOMAIN Tail(q) = 1..Len(q) - 1
      /\ \A i \in 1..Len(q) - 1 : Tail(q)[i] = q[i + 1]
  BY HeadTailProperties
<1>2. ASSUME NEW i \in DOMAIN q, i # 1 PROVE \E j \in DOMAIN Tail(q) : Tail(q)[j] = q[i]
  <2>1. i - 1 \in 1..Len(q) - 1 /\ (i - 1) + 1 = i
    BY <1>1, <1>2
  <2> QED
    BY <1>1, <2>1
<1> QED
  BY <1>1, <1>2

(* The targets there were, and the one that is not deleted.                *)
LEMMA OneIsCounted ==
  ASSUME IsRepo(repo), TargetsAreListed, oRmWhereNumRows
  PROVE  /\ Head(todo) \in Uncounted /\ Head(todo) \notin Targets
         /\ Uncounted' = Uncounted \ {Head(todo)}
         /\ Targets' = IF deleted' THEN Targets ELSE Targets \cup {Head(todo)}
         /\ TargetsAreListed'
<1> DEFINE t == Head(todo)
<1>1. todo \in Seq(Uncounted) /\ todo # <<>> /\ todo' = Tail(todo) /\ oTableList \in Seq(Targets)
  BY DEF TargetsAreListed, oRmWhereNumRows
<1>2. /\ 1 \in DOMAIN todo /\ t = todo[1] /\ Tail(todo) \in Seq(Uncounted)
      /\ \A i \in DOMAIN todo' : i \in Int /\ i + 1 \in DOMAIN todo /\ i + 1 # 1 /\ todo'[i] = todo[i + 1]
      /\ \A i \in DOMAIN todo : i = 1 \/ \E j \in DOMAIN todo' : todo'[j] = todo[i]
  BY <1>1, HeadAndTail
<1>3. \A i, j \in DOMAIN todo : todo[i] = todo[j] => i = j
  BY DEF TargetsAreListed
<1>4. Uncounted = {todo[i] : i \in DOMAIN todo} /\ Uncounted' = {todo'[i] : i \in DOMAIN todo'}
  BY DEF Uncounted
<1> HIDE DEF t
<1>5. t \in Uncounted
  BY <1>2, <1>4
<1>6. t \notin Targets /\ Uncounted \cap Targets = {} /\ repo["TARGET_TABLES"] = Uncounted \cup Targets
  BY <1>5 DEF TargetsAreListed
<1>7. Uncounted' = Uncounted \ {t}
  <2>1. ASSUME NEW i \in DOMAIN todo' PROVE todo'[i] \in Uncounted /\ todo'[i] # t
    BY <1>2, <1>3, <1>4
  <2>2. ASSUME NEW u \in Uncounted, u # t PROVE \E j \in DOMAIN todo' : todo'[j] = u
    BY <1>2, <1>4, <2>2
  <2> QED
    BY <1>4, <2>1, <2>2
<1>8. \A i, j \in DOMAIN todo' : todo'[i] = todo'[j] => i = j
  <2> SUFFICES ASSUME NEW i \in DOMAIN todo', NEW j \in DOMAIN todo', todo'[i] = todo'[j] PROVE i = j
    OBVIOUS
  <2>1. i + 1 = j + 1
    BY <1>2, <1>3
  <2> QED
    BY <1>2, <2>1
<1>9. todo' \in Seq(Uncounted')
  <2> DEFINE q == Tail(todo)
  <2>1. q \in Seq(Uncounted)
    BY <1>2
  <2> HIDE DEF q
  <2>2. q \in Seq({q[i] : i \in DOMAIN q})
    BY <2>1, IsSeqOfItself
  <2>3. todo' = q
    BY <1>1 DEF q
  <2> QED
    BY <1>4, <2>2, <2>3
<1>10. CASE deleted'
  <2>1. oTableList' = oTableList /\ repo' = [repo EXCEPT !["TARGET_TABLES"] = @ \ {t}]
    BY <1>10 DEF oRmWhereNumRows, t
  <2>2. Targets' = Targets
    BY <2>1 DEF Targets
  <2>3. repo'["TARGET_TABLES"] = (Uncounted \cup Targets) \ {t}
    <3> HIDE DEF t
    <3>1. "TARGET_TABLES" \in RepoTables
      BY TablesAreThere
    <3> QED
      BY <1>6, <2>1, <3>1 DEF IsRepo
  <2> QED
    BY <1>1, <1>5, <1>6, <1>7, <1>8, <1>9, <1>10, <2>1, <2>2, <2>3 DEF TargetsAreListed, t
<1>11. CASE ~deleted'
  <2>1. oTableList' = Append(oTableList, t) /\ repo' = repo
    BY <1>11 DEF oRmWhereNumRows, t
  <2>2. /\ oTableList \in Seq(Targets \cup {t}) /\ Len(oTableList) \in Nat
        /\ DOMAIN oTableList = 1..Len(oTableList)
    <3>1. Targets \subseteq Targets \cup {t}
      OBVIOUS
    <3> QED
      BY <1>1, <3>1, SeqMonotonic
  <2>3. /\ oTableList' \in Seq(Targets \cup {t}) /\ DOMAIN oTableList' = 1..Len(oTableList) + 1
        /\ \A i \in 1..Len(oTableList) : oTableList'[i] = oTableList[i]
        /\ oTableList'[Len(oTableList) + 1] = t
    BY <2>1, <2>2, AppendProperties
  <2>4. Targets' = Targets \cup {t}
    <3>1. Targets = {oTableList[i] : i \in DOMAIN oTableList} /\ Targets' = {oTableList'[i] : i \in DOMAIN oTableList'}
      BY DEF Targets
    <3>2. \A i \in DOMAIN oTableList' : i = Len(oTableList) + 1 \/ i \in DOMAIN oTableList
      BY <2>2, <2>3
    <3>3. DOMAIN oTableList \subseteq DOMAIN oTableList' /\ Len(oTableList) + 1 \in DOMAIN oTableList'
      BY <2>2, <2>3
    <3> QED
      BY <2>2, <2>3, <3>1, <3>2, <3>3
  <2>5. repo'["TARGET_TABLES"] = Uncounted' \cup Targets' /\ Uncounted' \cap Targets' = {}
    BY <1>5, <1>6, <1>7, <2>1, <2>4
  <2> QED
    BY <1>5, <1>6, <1>7, <1>8, <1>9, <1>11, <2>3, <2>4, <2>5 DEF TargetsAreListed, t
<1> QED
  BY <1>10, <1>11

(* Counting one table keeps what holds while rows are counted.             *)
LEMMA TargetsCounted ==
  ASSUME x \in Given, OptionsAreUsed, IsRepo(repo), CountInv, oRmWhereNumRows
  PROVE  CountInv'
<1> DEFINE t == Head(todo)
<1>1. /\ t \in Uncounted /\ t \notin Targets
      /\ Uncounted' = Uncounted \ {t}
      /\ Targets' = IF deleted' THEN Targets ELSE Targets \cup {t}
      /\ TargetsAreListed'
  BY OneIsCounted DEF CountInv
<1>2. /\ UNCHANGED <<x, conf_>> /\ todo # <<>> /\ todo' = Tail(todo)
      /\ deleted' = IF RowsOf(t).fails THEN deleted ELSE RowsOf(t).rows < conf_.num_rows
      /\ repo' = IF deleted' THEN [repo EXCEPT !["TARGET_TABLES"] = @ \ {t}] ELSE repo
      /\ oTableList' = IF deleted' THEN oTableList ELSE Append(oTableList, t)
  BY DEF oRmWhereNumRows
<1>3. \A table \in RepoTables : table # "TARGET_TABLES" => repo'[table] = repo[table]
  BY <1>2, Put, TablesAreThere
<1>4. owners' = owners
  BY <1>3, TablesAreThere DEF owners
<1>5. \A table \in Consulted : IsCopied(table)'
  <2> SUFFICES ASSUME NEW table \in Consulted PROVE IsCopied(table)'
    OBVIOUS
  <2>1. repo'[table] = repo[table]
    BY <1>3, TablesAreThere DEF Consulted
  <2>2. CopyOf(x, conf_, owners, table)' = CopyOf(x, conf_, owners, table)
    BY <1>2, <1>4
  <2>3. IsCopied(table)
    BY DEF CountInv
  <2> QED
    BY <2>1, <2>2, <2>3 DEF IsCopied
<1> HIDE DEF t
<1>6. TargetsAreSorted'
  <2> DEFINE Size(u) == RowsOf(u).mbytes
  <2>1. /\ \A i, j \in DOMAIN oTableList : i < j => Size(oTableList[i]) >= Size(oTableList[j])
        /\ \A i \in DOMAIN oTableList, j \in DOMAIN todo : Size(oTableList[i]) >= Size(todo[j])
        /\ \A i, j \in DOMAIN todo : i < j => Size(todo[i]) >= Size(todo[j])
    BY DEF CountInv, TargetsAreSorted, IsNoSmaller
  <2>2. /\ 1 \in DOMAIN todo /\ t = todo[1]
        /\ \A i \in DOMAIN todo' : i \in Int /\ i + 1 \in DOMAIN todo /\ i + 1 # 1 /\ todo'[i] = todo[i + 1]
    BY <1>2, HeadAndTail DEF CountInv, TargetsAreListed, t
  <2>3. DOMAIN todo \subseteq Nat \ {0}
    BY DEF CountInv, TargetsAreListed
  <2>4. /\ oTableList \in Seq(Targets) /\ Len(oTableList) \in Nat
        /\ DOMAIN oTableList = 1..Len(oTableList)
    BY DEF CountInv, TargetsAreListed
  <2>5. ASSUME NEW i \in DOMAIN oTableList'
        PROVE  \/ i \in DOMAIN oTableList /\ oTableList'[i] = oTableList[i]
               \/ i = Len(oTableList) + 1 /\ oTableList'[i] = t
    <3>1. CASE deleted'
      BY <1>2, <3>1
    <3>2. CASE ~deleted'
      <4>1. Targets \subseteq Targets \cup {t}
        OBVIOUS
      <4>2. oTableList \in Seq(Targets \cup {t})
        BY <2>4, <4>1, SeqMonotonic
      <4>3. oTableList' = Append(oTableList, t)
        BY <1>2, <3>2
      <4>4. /\ DOMAIN oTableList' = 1..Len(oTableList) + 1
            /\ \A k \in 1..Len(oTableList) : oTableList'[k] = oTableList[k]
            /\ oTableList'[Len(oTableList) + 1] = t
        BY <2>4, <4>2, <4>3, AppendProperties
      <4> QED
        BY <2>4, <4>4
    <3> QED
      BY <3>1, <3>2
  <2> HIDE DEF Size
  <2>6. ASSUME NEW i \in DOMAIN oTableList', NEW j \in DOMAIN oTableList', i < j
        PROVE  Size(oTableList'[i]) >= Size(oTableList'[j])
    <3>1. i \in DOMAIN oTableList /\ oTableList'[i] = oTableList[i]
      BY <2>4, <2>5, <2>6
    <3>2. CASE j \in DOMAIN oTableList /\ oTableList'[j] = oTableList[j]
      BY <2>1, <2>6, <3>1, <3>2
    <3>3. CASE oTableList'[j] = t
      BY <2>1, <2>2, <3>1, <3>3
    <3> QED
      BY <2>5, <3>2, <3>3
  <2>7. ASSUME NEW i \in DOMAIN oTableList', NEW j \in DOMAIN todo'
        PROVE  Size(oTableList'[i]) >= Size(todo'[j])
    <3>1. CASE i \in DOMAIN oTableList /\ oTableList'[i] = oTableList[i]
      BY <2>1, <2>2, <3>1
    <3>2. CASE oTableList'[i] = t
      <4>1. 1 < j + 1
        BY <2>2, <2>3
      <4> QED
        BY <2>1, <2>2, <3>2, <4>1
    <3> QED
      BY <2>5, <3>1, <3>2
  <2>8. ASSUME NEW i \in DOMAIN todo', NEW j \in DOMAIN todo', i < j
        PROVE  Size(todo'[i]) >= Size(todo'[j])
    <3>1. i + 1 < j + 1
      BY <2>2, <2>8
    <3> QED
      BY <2>1, <2>2, <3>1
  <2>9. \A u : (CHOOSE r \in x'.tables : Key(r) = Key(u)).mbytes = Size(u)
    BY <1>2 DEF Size, RowsOf
  <2> QED
    BY <2>6, <2>7, <2>8, <2>9 DEF TargetsAreSorted, IsNoSmaller, RowsOf
<1>7. TargetsAreAsked'
  <2>1. /\ Asked' = Asked /\ Wanted("num_rows")' = Wanted("num_rows")
        /\ \A u : MayBeMisjudged(u)' <=> MayBeMisjudged(u)
    BY <1>2, GivenStays
  <2>2. /\ Keys(Uncounted \cup Targets) \subseteq Keys(Asked)
        /\ \A u \in Asked :
             \/ MayBeMisjudged(u)
             \/ u.rows < Wanted("num_rows") /\ ~IsTarget(u.owner, u.name)
             \/ u.rows >= Wanted("num_rows") /\ Key(u) \in Keys(Uncounted \cup Targets)
    BY DEF CountInv, TargetsAreAsked
  <2>3. Uncounted' \cup Targets' \subseteq Uncounted \cup Targets
    BY <1>1
  <2>4. Keys(Uncounted' \cup Targets') \subseteq Keys(Asked)
    BY <2>2, <2>3 DEF Keys
  <2>5. PICK a \in Asked : Key(t) = Key(a)
    BY <1>1, <2>2 DEF Keys
  <2>6. a \in x.tables /\ RowsOf(t) = a
    BY <2>5, RowsOfKey DEF Asked, RowsOf
  <2>7. ASSUME NEW u \in Asked, ~MayBeMisjudged(u)
        PROVE  \/ u.rows < Wanted("num_rows") /\ ~IsTarget(u.owner, u.name)'
               \/ u.rows >= Wanted("num_rows") /\ Key(u) \in Keys(Uncounted' \cup Targets')
    <3>1. u \in x.tables /\ u.rows \in Int /\ Wanted("num_rows") \in Int /\ conf_.num_rows = Wanted("num_rows")
      BY GivenAssumption, NumRowsIsInt DEF Asked
    <3>2. CASE Key(u) = Key(t)
      <4>1. u = a
        BY <2>5, <2>6, <3>1, <3>2, GivenAssumption
      <4>2. deleted' <=> u.rows < Wanted("num_rows")
        BY <1>2, <2>6, <2>7, <3>1, <4>1 DEF MayBeMisjudged
      <4>3. CASE deleted'
        <5>1. ~IsTarget(u.owner, u.name)
          BY <2>2, <2>7, <3>1, <4>2, <4>3
        <5>2. Targets' = Targets
          BY <1>1, <4>3
        <5> QED
          BY <4>2, <4>3, <5>1, <5>2 DEF IsTarget
      <4>4. CASE ~deleted'
        <5>1. t \in Targets'
          BY <1>1, <4>4
        <5>2. Key(u) \in Keys(Uncounted' \cup Targets')
          BY <3>2, <5>1 DEF Keys
        <5> QED
          BY <3>1, <4>2, <4>4, <5>2
      <4> QED
        BY <4>3, <4>4
    <3>3. CASE Key(u) # Key(t)
      <4>1. Key(u) \in Keys(Targets') => Key(u) \in Keys(Targets)
        BY <1>1, <3>3 DEF Keys
      <4>2. Key(u) \in Keys(Uncounted \cup Targets) => Key(u) \in Keys(Uncounted' \cup Targets')
        BY <1>1, <3>3 DEF Keys
      <4>3. IsTarget(u.owner, u.name)' => IsTarget(u.owner, u.name)
        BY <4>1 DEF IsTarget, Key
      <4> QED
        BY <2>2, <2>7, <4>2, <4>3
    <3> QED
      BY <3>2, <3>3
  <2> QED
    BY <2>1, <2>4, <2>7 DEF TargetsAreAsked
<1> QED
  BY <1>1, <1>5, <1>6, <1>7 DEF CountInv

(* --- The constraints are refreshed ------------------------------------- *)

(* Whatever was there, the keys are those of the new rows.                 *)
LEMMA RefreshedHasTheKeys ==
  ASSUME NEW old, NEW new
  PROVE  Keys(Refreshed(old, new)) = Keys(new) /\ Refreshed(old, new) \subseteq old \cup new
<1> DEFINE R == Refreshed(old, new)
<1>1. \A r : r \in R <=> \/ r \in old /\ Key(r) \in Keys(new)
                         \/ r \in new /\ Key(r) \notin Keys(old)
  BY DEF Refreshed, Minus
<1> HIDE DEF R
<1>2. ASSUME NEW k \in Keys(new) PROVE k \in Keys(R)
  <2>1. CASE k \in Keys(old)
    <3>1. PICK r \in old : Key(r) = k
      BY <2>1 DEF Keys
    <3> QED
      BY <1>1, <3>1 DEF Keys
  <2>2. CASE k \notin Keys(old)
    <3>1. PICK r \in new : Key(r) = k
      BY DEF Keys
    <3> QED
      BY <1>1, <2>2, <3>1 DEF Keys
  <2> QED
    BY <2>1, <2>2
<1>3. ASSUME NEW k \in Keys(R) PROVE k \in Keys(new)
  <2>1. PICK r \in R : Key(r) = k
    BY DEF Keys
  <2>2. r \in new => Key(r) \in Keys(new)
    BY DEF Keys
  <2> QED
    BY <1>1, <2>1, <2>2
<1> QED
  BY <1>1, <1>2, <1>3 DEF R

(* When all have been counted, the targets are the tables that were asked  *)
(* for.                                                                    *)
LEMMA NothingIsToBeCounted ==
  ASSUME x \in Given, OptionsAreUsed, IsRepo(repo), CountInv, RefreshCons
  PROVE  TargetsAreTheTablesAsked'
<1>1. /\ UNCHANGED <<x, conf_>> /\ todo = <<>> /\ oTableList' = oTableList
      /\ repo' = [repo EXCEPT !["EFFECTIVE_CONS"] = Refreshed(@, B(repo))]
  BY DEF RefreshCons, listVars
<1>2. repo'["TARGET_TABLES"] = repo["TARGET_TABLES"]
  BY <1>1, Put, TablesAreThere
<1>3. Uncounted = {}
  BY <1>1 DEF Uncounted
<1>4. Targets' = Targets /\ \A o, t : IsTarget(o, t)' <=> IsTarget(o, t)
  BY <1>1 DEF Targets, IsTarget
<1>5. repo'["TARGET_TABLES"] = Targets
  BY <1>2, <1>3 DEF CountInv, TargetsAreListed
<1>6. Keys(Targets) \subseteq Keys(Asked)
  BY <1>3 DEF CountInv, TargetsAreAsked
<1>7. ASSUME NEW t \in Asked
      PROVE  MayBeMisjudged(t) \/ (IsTarget(t.owner, t.name) <=> t.rows >= Wanted("num_rows"))
  <2>1. t.rows \in Int /\ Wanted("num_rows") \in Int
    BY GivenAssumption, NumRowsIsInt DEF Asked
  <2>2. \/ MayBeMisjudged(t)
        \/ t.rows < Wanted("num_rows") /\ ~IsTarget(t.owner, t.name)
        \/ t.rows >= Wanted("num_rows") /\ Key(t) \in Keys(Targets)
    BY <1>3 DEF CountInv, TargetsAreAsked
  <2>3. Key(t) \in Keys(Targets) <=> IsTarget(t.owner, t.name)
    BY DEF IsTarget, Key
  <2> QED
    BY <2>1, <2>2, <2>3
<1>8. ASSUME NEW i \in DOMAIN oTableList, NEW j \in DOMAIN oTableList, i < j
      PROVE  RowsOf(oTableList[i]).mbytes >= RowsOf(oTableList[j]).mbytes
  BY <1>8 DEF CountInv, TargetsAreSorted, IsNoSmaller
<1>9. /\ Asked' = Asked /\ Wanted("num_rows")' = Wanted("num_rows")
  BY <1>1, GivenStays
<1>10. \A t \in Asked' :
         \/ IsTarget(t.owner, t.name)' <=> t.rows >= Wanted("num_rows")'
         \/ t.fails
         \/ t.name \in {m.name : m \in {v \in x'.mviews : ~v.updatable}}
  BY <1>1, <1>4, <1>7, <1>9 DEF MayBeMisjudged
<1>11. \A i, j \in DOMAIN oTableList' :
         i < j => (CHOOSE r \in x'.tables : Key(r) = Key(oTableList'[i])).mbytes
                  >= (CHOOSE r \in x'.tables : Key(r) = Key(oTableList'[j])).mbytes
  BY <1>1, <1>8 DEF RowsOf
<1>12. /\ Keys(Targets') \subseteq Keys(Asked') /\ Keys(Targets') = Keys(repo'["TARGET_TABLES"])
  BY <1>4, <1>5, <1>6, <1>9
<1> QED
  BY <1>10, <1>11, <1>12 DEF TargetsAreTheTablesAsked, RowsOf

(* The refresh that follows the count leaves the constraints of the        *)
(* targets.                                                                *)
LEMMA ConstraintsRefreshed ==
  ASSUME x \in Given, OptionsAreUsed, IsRepo(repo), CountInv, RefreshCons,
         repo["EFFECTIVE_CONS"] = inherited
  PROVE  ConstraintsAreThoseOfTheTargets'
<1> DEFINE selected == {c \in x.constraints : c.owner \in owners}
           ofTargets == {c \in selected : IsTarget(c.owner, c.table)}
           IsKeyOf(k, c) == k.type \in {"P", "U"} /\ Key(k) = <<c.rOwner, c.rName>>
           referring == {c \in selected : \E k \in ofTargets :
                           c.type = "R" /\ ~IsBinName(c.table) /\ IsKeyOf(k, c)}
           cons == repo["ALL_CONSTRAINTS"]
<1>1. /\ UNCHANGED <<x, conf_, inherited>> /\ todo = <<>> /\ oTableList' = oTableList
      /\ repo' = [repo EXCEPT !["EFFECTIVE_CONS"] = Refreshed(inherited, B(repo))]
  BY DEF RefreshCons, listVars
<1>2. /\ repo'["EFFECTIVE_CONS"] = Refreshed(inherited, B(repo))
      /\ owners' = owners
  <2> DEFINE new == Refreshed(inherited, B(repo))
  <2>1. repo' = [repo EXCEPT !["EFFECTIVE_CONS"] = new]
    BY <1>1
  <2> HIDE DEF new
  <2>2. "EFFECTIVE_CONS" \in RepoTables
    BY TablesAreThere
  <2>3. /\ repo'["EFFECTIVE_CONS"] = new
        /\ \A t \in RepoTables : t # "EFFECTIVE_CONS" => repo'[t] = repo[t]
    BY <2>1, <2>2, Put
  <2> QED
    BY <2>3, TablesAreThere DEF owners, new
<1>3. Targets' = Targets /\ \A o, t : IsTarget(o, t)' <=> IsTarget(o, t)
  BY <1>1 DEF Targets, IsTarget
<1>4. repo["TARGET_TABLES"] = Targets /\ Keys(Targets) \subseteq Keys(Asked)
  <2>1. Uncounted = {}
    BY <1>1 DEF Uncounted
  <2> QED
    BY <2>1 DEF CountInv, TargetsAreListed, TargetsAreAsked
<1>5. cons = {c \in selected : ~IsBinName(c.table)}
  <2>1. cons = CopyOf(x, conf_, owners, "ALL_CONSTRAINTS")
    BY DEF CountInv, IsCopied, Consulted
  <2>2. CopyOf(x, conf_, owners, "ALL_CONSTRAINTS") = AllConstraintsRows(x, owners)
    BY DEF CopyOf
  <2> QED
    BY <2>1, <2>2 DEF AllConstraintsRows, Of
<1>6. ASSUME NEW o, NEW t, IsTarget(o, t) PROVE ~IsBinName(t)
  <2>1. PICK a \in Asked : <<o, t>> = Key(a)
    BY <1>4, <1>6 DEF IsTarget, Keys
  <2>2. a \in x.tables /\ ~a.dropped /\ a.name = t
    BY <2>1 DEF Asked, Key
  <2> QED
    BY <2>2, GivenAssumption
<1>7. \A c : c \in ofTargets <=> c \in cons /\ <<c.owner, c.table>> \in Keys(repo["TARGET_TABLES"])
  BY <1>4, <1>5, <1>6 DEF IsTarget
<1> HIDE DEF cons, ofTargets, selected
<1>8. B(repo) = ofTargets \cup {c \in cons : \E k \in ofTargets : c.type = "R" /\ IsKeyOf(k, c)}
  <2> DEFINE found == {c \in cons : <<c.owner, c.table>> \in Keys(repo["TARGET_TABLES"])}
             keys == {Key(c) : c \in {k \in found : k.type \in {"P", "U"}}}
  <2>1. found = ofTargets
    <3>1. \A c : c \in found <=> c \in ofTargets
      BY <1>7
    <3> HIDE DEF found
    <3> QED
      BY <3>1
  <2>2. B(repo) = found \cup {c \in cons : c.type = "R" /\ <<c.rOwner, c.rName>> \in keys}
    BY DEF B, cons
  <2> HIDE DEF found
  <2>3. \A c : <<c.rOwner, c.rName>> \in keys <=> \E k \in found : IsKeyOf(k, c)
    OBVIOUS
  <2> HIDE DEF keys, IsKeyOf
  <2>4. \A c \in cons : (c.type = "R" /\ <<c.rOwner, c.rName>> \in keys)
                         <=> \E k \in ofTargets : c.type = "R" /\ IsKeyOf(k, c)
    BY <2>1, <2>3
  <2> QED
    BY <2>1, <2>2, <2>4
<1>9. B(repo) = ofTargets \cup referring
  <2> HIDE DEF IsKeyOf
  <2>1. \A c : c \in cons <=> c \in selected /\ ~IsBinName(c.table)
    BY <1>5
  <2> QED
    BY <1>8, <2>1
<1>10. B(repo) \subseteq x.constraints
  BY <1>9 DEF ofTargets, selected
<1>11. /\ Keys(repo'["EFFECTIVE_CONS"]) = Keys(ofTargets \cup referring)
       /\ repo'["EFFECTIVE_CONS"] \subseteq x.constraints \cup inherited
  BY <1>2, <1>9, <1>10, RefreshedHasTheKeys
<1>12. ofTargets' = ofTargets /\ selected' = selected
  BY <1>1, <1>2, <1>3 DEF ofTargets, selected
<1> QED
  BY <1>1, <1>2, <1>3, <1>11 DEF ConstraintsAreThoseOfTheTargets, ofTargets, selected

(* --- Every step -------------------------------------------------------- *)

(* Where nothing is said of the targets.                                   *)
IsElsewhereNow ==
  pc \notin {"start", "parsed", "create", "owners", "values", "copy", "count", "schedule"}

(* The making of the scripts.                                              *)
ScriptsAreMade ==
  \/ vMakeScripts \/ ReadColumns \/ ReadLists \/ vOutputScripts \/ WriteScript
  \/ ScriptsAreWritten \/ ScriptsFail

(* Where nothing is said of the targets, the invariant is about the        *)
(* repository.                                                             *)
LEMMA Elsewhere ==
  ASSUME IsRepo(repo'), IsRepo(saved'), IsElsewhereNow'
  PROVE  CopyInv'
  BY DEF CopyInv, IsRepo, IsElsewhereNow

(* What is committed is a repository when what was written is one.         *)
LEMMA Committed ==
  ASSUME IsRepo(saved), IsRepo(repo'), Commit
  PROVE  IsRepo(saved')
  BY DEF Commit

LEMMA StartsWell == Init => CopyInv
<1> SUFFICES ASSUME Init PROVE CopyInv
  OBVIOUS
<1>1. /\ pc = "start" /\ oTableList = <<>> /\ repo = NoRepo /\ saved = NoRepo
  BY DEF Init
<1> QED
  BY <1>1, NoRepoIsOne DEF CopyInv

(* An action that ends the preparation, or comes behind it.                *)
LEMMA LaterSteps ==
  ASSUME CopyInv,
         \/ StatementFails \/ vSubmitUnloadSchedule \/ Unload \/ UnloadRaises \/ vExpData
         \/ vAddTaskItems \/ NextSchema \/ QueryExported \/ ScriptsAreMade \/ Kill
  PROVE  CopyInv' /\ pc' # "schedule"
<1>1. IsRepo(repo) /\ IsRepo(saved)
  BY DEF CopyInv
<1>2. CASE StatementFails
  <2>1. repo' = repo /\ Commit /\ pc' = "raised"
    BY <1>2 DEF StatementFails
  <2>2. IsRepo(repo') /\ IsRepo(saved')
    BY <1>1, <2>1, Committed
  <2> QED
    BY <2>1, <2>2, Elsewhere DEF IsElsewhereNow
<1>3. CASE Kill
  <2>1. repo' = saved /\ saved' = saved /\ pc' = "killed"
    BY <1>3 DEF Kill
  <2> QED
    BY <1>1, <2>1, Elsewhere DEF IsElsewhereNow
<1>4. CASE vSubmitUnloadSchedule \/ Unload \/ UnloadRaises \/ vExpData
           \/ vAddTaskItems \/ NextSchema \/ QueryExported \/ ScriptsAreMade
  <2>1. UNCHANGED <<repo, saved>>
    BY <1>4 DEF repoVars, vSubmitUnloadSchedule, Unload, UnloadRaises, vExpData, vAddTaskItems, NextSchema,
                QueryExported, ScriptsAreMade, vMakeScripts, ReadColumns, ReadLists, vOutputScripts,
                WriteScript, ScriptsAreWritten, ScriptsFail
  <2>2. pc' \in {"unload", "raised", "killed", "scripts", "query", "done",
                 "columns", "lists", "generate", "output"}
    BY <1>4 DEF vSubmitUnloadSchedule, Unload, UnloadRaises, vExpData, vAddTaskItems, NextSchema,
                QueryExported, ScriptsAreMade, vMakeScripts, ReadColumns, ReadLists, vOutputScripts,
                WriteScript, ScriptsAreWritten, ScriptsFail, IsSynchronized
  <2> QED
    BY <1>1, <2>1, <2>2, Elsewhere DEF IsElsewhereNow
<1> QED
  BY <1>2, <1>3, <1>4

(* Options and repository: before owners are looked for.                   *)
LEMMA FirstSteps ==
  ASSUME CopyInv, oParse \/ oMakeInstance \/ vCreateRepo
  PROVE  CopyInv' /\ pc' # "schedule"
<1>1. IsRepo(repo) /\ IsRepo(saved)
  BY DEF CopyInv
<1>2. CASE oParse
  <2>1. UNCHANGED <<x, repo, saved, oTableList>> /\ oTableList = <<>>
    BY <1>2 DEF oParse, repoVars, listVars, CopyInv
  <2>2. CASE Outcome(x.start) = "parsed"
    <3>1. pc' = "parsed" /\ conf_' = [o \in Used |-> as(vm_(x.start), o)]
      BY <1>2, <2>2 DEF oParse
    <3>2. OptionsAreUsed'
      BY <2>1, <2>2, <3>1 DEF OptionsAreUsed
    <3> QED
      BY <1>1, <2>1, <3>1, <3>2 DEF CopyInv
  <2>3. CASE Outcome(x.start) # "parsed"
    <3>1. pc' \in {"terminated", "ended", "raised"}
      BY <1>2, <2>3 DEF oParse, Outcome
    <3> QED
      BY <1>1, <2>1, <3>1, Elsewhere DEF IsElsewhereNow
  <2> QED
    BY <2>2, <2>3
<1>3. CASE oMakeInstance
  <2>1. /\ UNCHANGED <<x, conf_, saved, oTableList>> /\ oTableList = <<>> /\ OptionsAreUsed
        /\ repo' = IF IsFile THEN saved ELSE NoRepo
        /\ pc' \in {"create", "getmeta", "raised"}
    BY <1>3 DEF oMakeInstance, listVars, CopyInv
  <2>2. IsRepo(repo') /\ IsRepo(saved')
    BY <1>1, <2>1, NoRepoIsOne
  <2>3. CASE pc' = "create"
    <3>1. OptionsAreUsed'
      BY <2>1 DEF OptionsAreUsed
    <3> QED
      BY <2>1, <2>2, <2>3, <3>1 DEF CopyInv
  <2>4. CASE pc' # "create"
    BY <2>1, <2>2, <2>4, Elsewhere DEF IsElsewhereNow
  <2> QED
    BY <2>3, <2>4
<1>4. CASE vCreateRepo
  <2>1. /\ UNCHANGED <<x, conf_, oTableList>> /\ oTableList = <<>> /\ OptionsAreUsed
    BY <1>4 DEF vCreateRepo, listVars, CopyInv
  <2>2. CASE pc' = "raised" /\ UNCHANGED repoVars
    BY <1>1, <2>2, Elsewhere DEF IsElsewhereNow, repoVars
  <2>3. CASE /\ repo' = [NoRepo EXCEPT !["EFFECTIVE_CONS"] = repo["EFFECTIVE_CONS"]]
             /\ Commit /\ inherited' = repo["EFFECTIVE_CONS"] /\ pc' = "owners"
    <3>1. IsRepo(repo') /\ repo'["EFFECTIVE_CONS"] = inherited'
      <4>1. repo' = [NoRepo EXCEPT !["EFFECTIVE_CONS"] = inherited'] /\ IsRepo(NoRepo)
        BY <2>3, NoRepoIsOne
      <4>2. "EFFECTIVE_CONS" \in RepoTables
        BY TablesAreThere
      <4> QED
        BY <4>1, <4>2 DEF IsRepo
    <3>2. IsRepo(saved')
      BY <1>1, <2>3, <3>1, Committed
    <3>3. OptionsAreUsed'
      BY <2>1 DEF OptionsAreUsed
    <3> QED
      BY <2>1, <2>3, <3>1, <3>2, <3>3 DEF CopyInv
  <2> QED
    BY <1>4, <2>2, <2>3 DEF vCreateRepo
<1> QED
  BY <1>2, <1>3, <1>4

(* The owners that match, while nothing went wrong.                        *)
LEMMA OwnersAreFound ==
  ASSUME CopyInv, oConvEffectiveOwnerName
  PROVE  CopyInv' /\ pc' # "schedule"
<1>1. /\ IsRepo(repo) /\ IsRepo(saved) /\ OptionsAreUsed /\ oTableList = <<>>
      /\ repo["EFFECTIVE_CONS"] = inherited
  BY DEF CopyInv, oConvEffectiveOwnerName
<1>2. /\ UNCHANGED <<x, conf_, inherited, oTableList>> /\ Commit
  BY DEF oConvEffectiveOwnerName, listVars
<1>3. PICK o \in vExecuteAndFetch("ALL_USERS", AllUsersRows(x)) :
        /\ Fetched(o)
        /\ repo' = [repo EXCEPT !["ALL_USERS"] = o.rows,
                                !["TARGET_OWNERS"] = TargetOwners(o.rows, conf_.src_user).rows]
        /\ pc' = IF TargetOwners(o.rows, conf_.src_user).raises \/ TargetOwners(o.rows, conf_.src_user).rows = {}
                 THEN "raised" ELSE "values"
  BY DEF oConvEffectiveOwnerName
<1> DEFINE found == TargetOwners(o.rows, conf_.src_user)
           half == [repo EXCEPT !["ALL_USERS"] = o.rows]
<1>4. IsRepo(repo') /\ repo'["EFFECTIVE_CONS"] = inherited /\ owners' = found.rows
  <2>1. repo' = [half EXCEPT !["TARGET_OWNERS"] = found.rows]
    BY <1>3
  <2>2. IsRepo(half) /\ half["EFFECTIVE_CONS"] = inherited
    <3>1. {"ALL_USERS", "EFFECTIVE_CONS"} \subseteq RepoTables
      BY TablesAreThere
    <3> QED
      BY <1>1, <3>1 DEF IsRepo
  <2> HIDE DEF half, found
  <2>3. "TARGET_OWNERS" \in RepoTables
    BY TablesAreThere
  <2>4. /\ IsRepo(repo') /\ repo'["TARGET_OWNERS"] = found.rows
        /\ \A t \in RepoTables : t # "TARGET_OWNERS" => repo'[t] = half[t]
    BY <2>1, <2>2, <2>3 DEF IsRepo
  <2> QED
    BY <2>2, <2>4, TablesAreThere DEF owners
<1>5. IsRepo(saved')
  BY <1>1, <1>2, <1>4, Committed
<1>6. CASE pc' = "raised"
  BY <1>4, <1>5, <1>6, Elsewhere DEF IsElsewhereNow
<1>7. CASE pc' = "values"
  <2>1. ~found.raises
    BY <1>3, <1>7
  <2>2. Undisturbed' => owners' = {u \in x.users : Matched(conf_.src_user, u)}
    <3> SUFFICES ASSUME Undisturbed' PROVE owners' = {u \in x.users : Matched(conf_.src_user, u)}
      OBVIOUS
    <3>1. o.failed = {} /\ o.cont_
      BY <1>3 DEF Undisturbed, Fetched
    <3>2. o.rows = x.users
      BY <3>1, BroughtAll DEF AllUsersRows
    <3>3. found.rows = {u \in o.rows : Matched(conf_.src_user, u)}
      BY <2>1 DEF TargetOwners
    <3> QED
      BY <1>4, <3>2, <3>3
  <2>3. OptionsAreUsed'
    BY <1>1, <1>2 DEF OptionsAreUsed
  <2> QED
    BY <1>1, <1>2, <1>4, <1>5, <1>7, <2>2, <2>3 DEF CopyInv
<1> QED
  BY <1>3, <1>6, <1>7

(* The copy begins with all tables still to copy.                          *)
LEMMA CopyBegins ==
  ASSUME CopyInv, cStartValues
  PROVE  CopyInv' /\ pc' # "schedule"
<1>1. /\ IsRepo(repo) /\ IsRepo(saved) /\ OptionsAreUsed /\ oTableList = <<>>
      /\ repo["EFFECTIVE_CONS"] = inherited
      /\ Undisturbed => owners = {o \in x.users : Matched(conf_.src_user, o)}
  BY DEF CopyInv, cStartValues
<1>2. /\ UNCHANGED <<x, conf_, repo, saved, inherited, oTableList, cont_, failed>>
      /\ pc' \in {"raised", "copy", "query"} /\ (pc' = "copy" => todo' = tSeqList)
  BY DEF cStartValues, repoVars
<1>3. CASE pc' = "copy"
  <2>1. /\ todo' \in Seq({tSeqList[i] : i \in DOMAIN tSeqList})
        /\ \A table \in Consulted : \E i \in DOMAIN todo' : todo'[i] = table
    BY <1>2, <1>3, TablesInOrder
  <2>2. OptionsAreUsed' /\ owners' = owners /\ Undisturbed' = Undisturbed
    BY <1>1, <1>2 DEF OptionsAreUsed, owners, Undisturbed
  <2>3. \A table \in Consulted : IsStillToCopy(table)'
    BY <2>1 DEF IsStillToCopy
  <2> QED
    BY <1>1, <1>2, <1>3, <2>1, <2>2, <2>3 DEF CopyInv
<1>4. CASE pc' # "copy"
  BY <1>1, <1>2, <1>4, Elsewhere DEF IsElsewhereNow
<1> QED
  BY <1>3, <1>4

(* One table is copied, whole unless the run is disturbed.                 *)
LEMMA OneIsCopied ==
  ASSUME CopyInv, cRefresher
  PROVE  CopyInv' /\ pc' # "schedule"
<1> DEFINE table == Head(todo)
<1>1. /\ IsRepo(repo) /\ IsRepo(saved) /\ OptionsAreUsed /\ oTableList = <<>>
      /\ repo["EFFECTIVE_CONS"] = inherited
      /\ Undisturbed => /\ owners = {o \in x.users : Matched(conf_.src_user, o)}
                        /\ \A t \in Consulted : IsCopied(t) \/ IsStillToCopy(t)
      /\ todo \in Seq({tSeqList[i] : i \in DOMAIN tSeqList}) /\ todo # <<>>
  BY DEF CopyInv, cRefresher
<1>2. /\ UNCHANGED <<x, conf_, saved, inherited, oTableList, pc>> /\ pc = "copy" /\ todo' = Tail(todo)
  BY DEF cRefresher
<1>3. PICK o \in vExecuteAndFetch(table, CopyOf(x, conf_, owners, table)) :
        Fetched(o) /\ repo' = [repo EXCEPT ![table] = o.rows]
  BY DEF cRefresher
<1>4. /\ 1 \in DOMAIN todo /\ table = todo[1] /\ todo' \in Seq({tSeqList[i] : i \in DOMAIN tSeqList})
      /\ \A i \in DOMAIN todo : i = 1 \/ \E j \in DOMAIN todo' : todo'[j] = todo[i]
  BY <1>1, <1>2, HeadAndTail
<1>5. \E i \in DOMAIN tSeqList : table = tSeqList[i]
  BY <1>1, <1>4
<1> HIDE DEF table
<1>6. table \in RepoTables \ {"TARGET_OWNERS", "EFFECTIVE_CONS"}
  BY <1>5, TablesInOrder, TablesAreThere
<1>7. /\ IsRepo(repo') /\ repo'[table] = o.rows
      /\ \A t \in RepoTables : t # table => repo'[t] = repo[t]
  <2> DEFINE rows == o.rows
  <2>1. repo' = [repo EXCEPT ![table] = rows] /\ table \in RepoTables /\ IsRepo(repo)
    BY <1>1, <1>3, <1>6
  <2> HIDE DEF rows
  <2>2. /\ IsRepo(repo') /\ repo'[table] = rows
        /\ \A t \in RepoTables : t # table => repo'[t] = repo[t]
    BY <2>1 DEF IsRepo
  <2> QED
    BY <2>2 DEF rows
<1>8. repo'["EFFECTIVE_CONS"] = inherited /\ owners' = owners
  BY <1>1, <1>6, <1>7, TablesAreThere DEF owners
<1>9. ASSUME Undisturbed' PROVE Undisturbed /\ o.rows = CopyOf(x, conf_, owners, table)
  <2>1. o.failed = {} /\ o.cont_
    BY <1>3, <1>9 DEF Undisturbed, Fetched
  <2> QED
    BY <2>1, BroughtAll
<1>10. ASSUME Undisturbed', NEW t \in Consulted PROVE IsCopied(t)' \/ IsStillToCopy(t)'
  <2>1. CopyOf(x, conf_, owners, t)' = CopyOf(x, conf_, owners, t)
    BY <1>2, <1>8
  <2>2. CASE t = table
    BY <1>7, <1>9, <1>10, <2>1, <2>2 DEF IsCopied
  <2>3. CASE t # table /\ IsCopied(t)
    BY <1>7, <2>1, <2>3, TablesAreThere DEF IsCopied
  <2>4. CASE t # table /\ IsStillToCopy(t)
    BY <1>4, <2>4 DEF IsStillToCopy
  <2> QED
    BY <1>1, <1>9, <1>10, <2>2, <2>3, <2>4
<1>11. OptionsAreUsed'
  BY <1>1, <1>2 DEF OptionsAreUsed
<1> QED
  BY <1>1, <1>2, <1>4, <1>7, <1>8, <1>9, <1>10, <1>11 DEF CopyInv

(* The count begins with the targets of a whole copy.                      *)
LEMMA CountBegins ==
  ASSUME x \in Given, CopyInv, cTargetTables
  PROVE  CopyInv' /\ pc' # "schedule"
<1>1. /\ IsRepo(repo) /\ IsRepo(saved) /\ OptionsAreUsed /\ oTableList = <<>>
      /\ repo["EFFECTIVE_CONS"] = inherited
      /\ Undisturbed => /\ owners = {o \in x.users : Matched(conf_.src_user, o)}
                        /\ \A t \in Consulted : IsCopied(t) \/ IsStillToCopy(t)
      /\ todo = <<>>
  BY DEF CopyInv, cTargetTables
<1>2. /\ UNCHANGED <<x, conf_, saved, inherited, cont_, failed>> /\ pc' = "count"
      /\ repo' = [repo EXCEPT !["TARGET_TABLES"] = TargetTables(conf_, repo)]
  BY DEF cTargetTables
<1>3. IsRepo(repo') /\ repo'["EFFECTIVE_CONS"] = inherited /\ owners' = owners
  <2> DEFINE targets == TargetTables(conf_, repo)
  <2>1. repo' = [repo EXCEPT !["TARGET_TABLES"] = targets] /\ IsRepo(repo)
    BY <1>1, <1>2
  <2> HIDE DEF targets
  <2>2. "TARGET_TABLES" \in RepoTables
    BY TablesAreThere
  <2>3. IsRepo(repo') /\ \A t \in RepoTables : t # "TARGET_TABLES" => repo'[t] = repo[t]
    BY <2>1, <2>2 DEF IsRepo
  <2> QED
    BY <1>1, <2>3, TablesAreThere DEF owners
<1>4. Undisturbed' = Undisturbed
  BY <1>2 DEF Undisturbed
<1>5. ASSUME Undisturbed PROVE CountInv'
  <2>1. \A t : ~IsStillToCopy(t)
    BY <1>1 DEF IsStillToCopy
  <2> QED
    BY <1>1, <1>5, <2>1, TargetsChosen
<1>6. OptionsAreUsed'
  BY <1>1, <1>2 DEF OptionsAreUsed
<1> QED
  BY <1>1, <1>2, <1>3, <1>4, <1>5, <1>6 DEF CopyInv

(* One target is counted, and the others are still listed.                 *)
LEMMA CountGoesOn ==
  ASSUME x \in Given, CopyInv, oRmWhereNumRows
  PROVE  CopyInv' /\ pc' # "schedule"
<1> DEFINE less == repo["TARGET_TABLES"] \ {Head(todo)}
<1>1. /\ IsRepo(repo) /\ IsRepo(saved) /\ OptionsAreUsed
      /\ repo["EFFECTIVE_CONS"] = inherited
      /\ Undisturbed => owners = {o \in x.users : Matched(conf_.src_user, o)} /\ CountInv
  BY DEF CopyInv, oRmWhereNumRows
<1>2. /\ UNCHANGED <<x, conf_, saved, inherited, cont_, failed, pc>> /\ pc = "count"
      /\ repo' = IF deleted' THEN [repo EXCEPT !["TARGET_TABLES"] = less] ELSE repo
  BY DEF oRmWhereNumRows
<1> HIDE DEF less
<1>3. IsRepo(repo') /\ repo'["EFFECTIVE_CONS"] = inherited /\ owners' = owners
  BY <1>1, <1>2, Put, TablesAreThere DEF owners
<1>4. Undisturbed' = Undisturbed
  BY <1>2 DEF Undisturbed
<1>5. ASSUME Undisturbed PROVE CountInv'
  BY <1>1, <1>5, TargetsCounted
<1>6. OptionsAreUsed'
  BY <1>1, <1>2 DEF OptionsAreUsed
<1> QED
  BY <1>1, <1>2, <1>3, <1>4, <1>5, <1>6 DEF CopyInv

(* The count has ended and the schedule begins.                            *)
LEMMA ScheduleBegins ==
  ASSUME x \in Given, CopyInv, RefreshCons
  PROVE  CopyInv' /\ TargetsAreTheTablesAsked' /\ ConstraintsAreThoseOfTheTargets'
<1> DEFINE new == Refreshed(repo["EFFECTIVE_CONS"], B(repo))
<1>1. /\ IsRepo(repo) /\ IsRepo(saved) /\ OptionsAreUsed
      /\ repo["EFFECTIVE_CONS"] = inherited /\ (Undisturbed => CountInv)
  BY DEF CopyInv, RefreshCons
<1>2. /\ UNCHANGED <<cont_, failed>> /\ Commit /\ pc' = "schedule"
      /\ repo' = [repo EXCEPT !["EFFECTIVE_CONS"] = new]
  BY DEF RefreshCons
<1> HIDE DEF new
<1>3. IsRepo(repo')
  BY <1>1, <1>2, Put, TablesAreThere
<1>4. IsRepo(saved')
  BY <1>1, <1>2, <1>3, Committed
<1>5. CopyInv'
  BY <1>2, <1>3, <1>4 DEF CopyInv
<1>6. Undisturbed' = Undisturbed
  BY <1>2 DEF Undisturbed
<1>7. CASE Undisturbed
  BY <1>1, <1>5, <1>7, NothingIsToBeCounted, ConstraintsRefreshed
<1>8. CASE ~Undisturbed
  BY <1>5, <1>6, <1>8 DEF TargetsAreTheTablesAsked, ConstraintsAreThoseOfTheTargets
<1> QED
  BY <1>7, <1>8

(* A signal disturbs the run, and a run that starts again has not got far. *)
LEMMA StopOrRestart ==
  ASSUME x \in Given, CopyInv, vBreak \/ Restart
  PROVE  /\ CopyInv' /\ x' \in Given
         /\ pc' # "schedule" \/ ~Undisturbed'
<1>1. CASE vBreak
  <2>1. /\ UNCHANGED <<x, conf_, pc, repo, saved, inherited, todo, oTableList>> /\ ~cont_'
    BY <1>1 DEF vBreak, repoVars, listVars
  <2>2. ~Undisturbed'
    BY <2>1 DEF Undisturbed
  <2>3. OptionsAreUsed' <=> OptionsAreUsed
    BY <2>1 DEF OptionsAreUsed
  <2> QED
    BY <2>1, <2>2, <2>3 DEF CopyInv, IsRepo
<1>2. CASE Restart
  <2>1. /\ x' \in Given /\ pc' = "start" /\ repo' = NoRepo /\ saved' = saved /\ oTableList' = <<>>
    BY <1>2 DEF Restart
  <2> QED
    BY <2>1, NoRepoIsOne DEF CopyInv, IsRepo
<1> QED
  BY <1>1, <1>2

(* Nothing of what the invariant looks at changes.                         *)
LEMMA NothingHappens ==
  ASSUME UNCHANGED vars
  PROVE  /\ CopyInv => CopyInv'
         /\ TargetsAreTheTablesAsked => TargetsAreTheTablesAsked'
         /\ ConstraintsAreThoseOfTheTargets => ConstraintsAreThoseOfTheTargets'
<1>1. UNCHANGED <<x, conf_, pc, repo, saved, inherited, cont_, failed, todo, oTableList>>
  BY DEF vars, repoVars, listVars
<1>2. /\ owners' = owners /\ Undisturbed' = Undisturbed /\ Targets' = Targets /\ Uncounted' = Uncounted
      /\ \A o, t : IsTarget(o, t)' <=> IsTarget(o, t)
      /\ OptionsAreUsed' <=> OptionsAreUsed
      /\ \A t : IsCopied(t)' <=> IsCopied(t)
      /\ \A t : IsStillToCopy(t)' <=> IsStillToCopy(t)
  BY <1>1 DEF owners, Undisturbed, Targets, Uncounted, IsTarget, OptionsAreUsed, IsCopied, IsStillToCopy
<1>3. /\ Asked' = Asked /\ Wanted("num_rows")' = Wanted("num_rows")
      /\ \A t : MayBeMisjudged(t)' <=> MayBeMisjudged(t)
  BY <1>1, GivenStays
<1>4. TargetsAreTheTablesAsked => TargetsAreTheTablesAsked'
  BY <1>1, <1>2, <1>3 DEF TargetsAreTheTablesAsked, RowsOf
<1>5. ConstraintsAreThoseOfTheTargets => ConstraintsAreThoseOfTheTargets'
  BY <1>1, <1>2 DEF ConstraintsAreThoseOfTheTargets
<1>6. TargetsAreListed' <=> TargetsAreListed
  BY <1>1, <1>2 DEF TargetsAreListed
<1>7. TargetsAreSorted' <=> TargetsAreSorted
  BY <1>1 DEF TargetsAreSorted, IsNoSmaller, RowsOf
<1>8. TargetsAreAsked' <=> TargetsAreAsked
  BY <1>2, <1>3 DEF TargetsAreAsked
<1>9. CopyInv => CopyInv'
  BY <1>1, <1>2, <1>6, <1>7, <1>8 DEF CopyInv, CountInv, IsRepo
<1> QED
  BY <1>4, <1>5, <1>9

(* --- The theorems ------------------------------------------------------ *)

(* Wherever the program may be, the repository holds what the steps so far *)
(* should have brought, unless the program was disturbed.                  *)
THEOREM CopyIsKept == Spec => [](x \in Given /\ CopyInv)
<1>1. Init => x \in Given /\ CopyInv
  BY StartsWell DEF Init
<1>2. x \in Given /\ CopyInv /\ [Next]_vars => (x \in Given /\ CopyInv)'
  <2> SUFFICES ASSUME x \in Given, CopyInv, [Next]_vars PROVE x' \in Given /\ CopyInv'
    OBVIOUS
  <2>1. CASE UNCHANGED vars
    BY <2>1, NothingHappens DEF vars
  <2>2. CASE Restart \/ vBreak
    BY <2>2, StopOrRestart
  <2>3. CASE RefreshCons
    BY <2>3, ScheduleBegins DEF RefreshCons
  <2>4. CASE oParse \/ oMakeInstance \/ vCreateRepo
    BY <2>4, FirstSteps DEF oParse, oMakeInstance, vCreateRepo
  <2>5. CASE oConvEffectiveOwnerName \/ cStartValues \/ cRefresher
    BY <2>5, OwnersAreFound, CopyBegins, OneIsCopied DEF oConvEffectiveOwnerName, cStartValues, cRefresher
  <2>6. CASE cTargetTables \/ oRmWhereNumRows
    BY <2>6, CountBegins, CountGoesOn DEF cTargetTables, oRmWhereNumRows
  <2>7. CASE \/ StatementFails \/ vSubmitUnloadSchedule \/ Unload \/ UnloadRaises \/ vExpData
             \/ vAddTaskItems \/ NextSchema \/ QueryExported \/ ScriptsAreMade \/ Kill
    <3>1. CopyInv'
      BY <2>7, LaterSteps
    <3>2. x' = x
      BY <2>7 DEF StatementFails, vSubmitUnloadSchedule, Unload, UnloadRaises, vExpData,
                  vAddTaskItems, NextSchema, QueryExported, ScriptsAreMade, vMakeScripts, ReadColumns,
                  ReadLists, vOutputScripts, WriteScript, ScriptsAreWritten, ScriptsFail, Kill
    <3> QED
      BY <3>1, <3>2
  <2> QED
    BY <2>1, <2>2, <2>3, <2>4, <2>5, <2>6, <2>7 DEF Next, ScriptsAreMade
<1> QED
  BY <1>1, <1>2, PTL DEF Spec

(* The steps that lead to the schedule, or leave it as it is.              *)
LEMMA OnlyRefreshLeadsToTheSchedule ==
  ASSUME x \in Given, CopyInv, Next
  PROVE  RefreshCons \/ pc' # "schedule" \/ ~Undisturbed'
<1>1. CASE Restart \/ vBreak
  BY <1>1, StopOrRestart
<1>2. CASE oParse \/ oMakeInstance \/ vCreateRepo
  BY <1>2, FirstSteps
<1>3. CASE oConvEffectiveOwnerName \/ cStartValues \/ cRefresher
  BY <1>3, OwnersAreFound, CopyBegins, OneIsCopied
<1>4. CASE cTargetTables \/ oRmWhereNumRows
  BY <1>4, CountBegins, CountGoesOn
<1>5. CASE \/ StatementFails \/ vSubmitUnloadSchedule \/ Unload \/ UnloadRaises \/ vExpData
           \/ vAddTaskItems \/ NextSchema \/ QueryExported \/ ScriptsAreMade \/ Kill
  BY <1>5, LaterSteps
<1> QED
  BY <1>1, <1>2, <1>3, <1>4, <1>5 DEF Next, ScriptsAreMade

(* cTargetTables.cpp:256: what is unloaded is what the parameters ask for, *)
(* the largest table first, and the repository says the same, whatever the *)
(* dictionary, the parameters, the patterns and the number of tables.      *)
THEOREM TargetsAreAskedFor == Spec => []TargetsAreTheTablesAsked
<1>1. Init => TargetsAreTheTablesAsked
  BY DEF Init, TargetsAreTheTablesAsked
<1>2. x \in Given /\ CopyInv /\ TargetsAreTheTablesAsked /\ [Next]_vars => TargetsAreTheTablesAsked'
  <2> SUFFICES ASSUME x \in Given, CopyInv, TargetsAreTheTablesAsked, [Next]_vars
               PROVE  TargetsAreTheTablesAsked'
    OBVIOUS
  <2>1. CASE UNCHANGED vars
    BY <2>1, NothingHappens
  <2>2. CASE RefreshCons
    BY <2>2, ScheduleBegins
  <2>3. CASE pc' # "schedule" \/ ~Undisturbed'
    BY <2>3 DEF TargetsAreTheTablesAsked
  <2> QED
    BY <2>1, <2>2, <2>3, OnlyRefreshLeadsToTheSchedule
<1> QED
  BY <1>1, <1>2, CopyIsKept, PTL DEF Spec

(* cReposRefresher.h:55: a run ends up with the constraints of its targets *)
(* and the foreign keys that refer to them, whatever earlier runs, however *)
(* many and however they ended, have left in the repository.               *)
THEOREM ConstraintsAreOfTargets == Spec => []ConstraintsAreThoseOfTheTargets
<1>1. Init => ConstraintsAreThoseOfTheTargets
  BY DEF Init, ConstraintsAreThoseOfTheTargets
<1>2. x \in Given /\ CopyInv /\ ConstraintsAreThoseOfTheTargets /\ [Next]_vars
      => ConstraintsAreThoseOfTheTargets'
  <2> SUFFICES ASSUME x \in Given, CopyInv, ConstraintsAreThoseOfTheTargets, [Next]_vars
               PROVE  ConstraintsAreThoseOfTheTargets'
    OBVIOUS
  <2>1. CASE UNCHANGED vars
    BY <2>1, NothingHappens
  <2>2. CASE RefreshCons
    BY <2>2, ScheduleBegins
  <2>3. CASE pc' # "schedule" \/ ~Undisturbed'
    BY <2>3 DEF ConstraintsAreThoseOfTheTargets
  <2> QED
    BY <2>1, <2>2, <2>3, OnlyRefreshLeadsToTheSchedule
<1> QED
  BY <1>1, <1>2, CopyIsKept, PTL DEF Spec

=============================================================================
