-------------------------- MODULE RankTableProofs ---------------------------
(***************************************************************************)
(* What the operators of RankTable keep and bound.                         *)
(***************************************************************************)
EXTENDS RankTable, SequenceTheorems, FiniteSetTheorems, TLAPS

\* Sorting the servers neither loses nor invents nor repeats one.
LEMMA SortServersLemma ==
    ASSUME NEW list \in Seq(Entry), NEW s \in SortServers(list)
    PROVE  /\ s \in Seq(Entry)
           /\ Len(s) = Len(list)
           /\ Pods(s) = Pods(list)
           /\ NoPodTwice(list) => NoPodTwice(s)
           /\ Sorted(s)
<1>1. Sorted(s)
  BY DEF SortServers
<1>2. PICK f \in Bijection(DOMAIN list, DOMAIN list) :
         s = [i \in DOMAIN list |-> list[f[i]]]
  BY DEF SortServers
<1>3. /\ DOMAIN list = 1 .. Len(list)
      /\ Len(list) \in Nat
      /\ \A i \in 1 .. Len(list) : list[i] \in Entry
  OBVIOUS
<1>4. /\ f \in [1 .. Len(list) -> 1 .. Len(list)]
      /\ \A a, b \in 1 .. Len(list) : f[a] = f[b] => a = b
      /\ \A b \in 1 .. Len(list) : \E a \in 1 .. Len(list) : f[a] = b
  BY <1>2, <1>3 DEF Bijection, Injection, Surjection, IsInjective
<1>5. /\ DOMAIN s = 1 .. Len(list)
      /\ \A i \in 1 .. Len(list) : s[i] = list[f[i]] /\ f[i] \in 1 .. Len(list)
  BY <1>2, <1>3, <1>4
<1>6. s \in [1 .. Len(list) -> Entry]
  BY <1>2, <1>3, <1>4
<1>7. s \in Seq(Entry) /\ Len(s) = Len(list)
  BY <1>3, <1>6, SeqDef, LenProperties
<1>8. Pods(s) = Pods(list)
  <2>1. Pods(s) \subseteq Pods(list)
    BY <1>3, <1>5 DEF Pods
  <2>2. Pods(list) \subseteq Pods(s)
    <3>1. SUFFICES ASSUME NEW b \in DOMAIN list
                   PROVE  list[b].pod \in Pods(s)
      BY DEF Pods
    <3>2. PICK a \in 1 .. Len(list) : f[a] = b
      BY <1>3, <1>4
    <3>3. a \in DOMAIN s /\ s[a].pod = list[b].pod
      BY <1>5, <3>2
    <3>. QED  BY <3>3 DEF Pods
  <2>. QED  BY <2>1, <2>2
<1>9. ASSUME NoPodTwice(list)
      PROVE  NoPodTwice(s)
  <2>1. SUFFICES ASSUME NEW i \in 1 .. Len(list), NEW j \in 1 .. Len(list),
                        s[i].pod = s[j].pod
                 PROVE  i = j
    BY <1>5 DEF NoPodTwice
  <2>2. list[f[i]].pod = list[f[j]].pod
    BY <1>5, <2>1
  <2>3. f[i] = f[j]
    BY <1>3, <1>5, <1>9, <2>2 DEF NoPodTwice
  <2>. QED  BY <1>4, <2>3
<1>. QED  BY <1>1, <1>7, <1>8, <1>9

\* Appending an entry for a pod that is not there keeps the pods distinct.
LEMMA AppendLemma ==
    ASSUME NEW list \in Seq(Entry), NEW e \in Entry
    PROVE  /\ Append(list, e) \in Seq(Entry)
           /\ Len(Append(list, e)) = Len(list) + 1
           /\ Pods(Append(list, e)) = Pods(list) \cup {e.pod}
           /\ e.pod \notin Pods(list) /\ NoPodTwice(list)
                => NoPodTwice(Append(list, e))
<1>. DEFINE l == Append(list, e)
            n == Len(list)
<1>1. /\ l \in Seq(Entry)
      /\ Len(l) = n + 1
      /\ n \in Nat
      /\ DOMAIN list = 1 .. n
      /\ DOMAIN l = 1 .. n + 1
      /\ \A i \in 1 .. n : l[i] = list[i]
      /\ l[n + 1] = e
  OBVIOUS
<1>. HIDE DEF l
<1>2. Pods(l) = Pods(list) \cup {e.pod}
  <2>1. 1 .. n + 1 = (1 .. n) \cup {n + 1}
    BY <1>1
  <2>. QED  BY <1>1, <2>1 DEF Pods
<1>3. ASSUME e.pod \notin Pods(list), NoPodTwice(list)
      PROVE  NoPodTwice(l)
  <2>1. SUFFICES ASSUME NEW i \in 1 .. n + 1, NEW j \in 1 .. n + 1,
                        l[i].pod = l[j].pod
                 PROVE  i = j
    BY <1>1 DEF NoPodTwice
  <2>2. \A k \in 1 .. n : l[k].pod # e.pod
    BY <1>1, <1>3 DEF Pods
  <2>3. CASE i \in 1 .. n /\ j \in 1 .. n
    BY <1>1, <1>3, <2>1, <2>3 DEF NoPodTwice
  <2>4. CASE i = n + 1 \/ j = n + 1
    BY <1>1, <2>1, <2>2, <2>4
  <2>. QED  BY <1>1, <2>3, <2>4
<1>. QED  BY <1>1, <1>2, <1>3 DEF l

\* CachePodInfo adds one pod, whichever version of the table it is.
LEMMA CachePodInfoLemma ==
    ASSUME NEW list \in Seq(Entry), NEW p \in Pod, NEW r \in Int,
           NEW s \in CachePodInfo(list, p, r)
    PROVE  /\ s \in Seq(Entry)
           /\ Len(s) = Len(list) + 1
           /\ Pods(s) = Pods(list) \cup {p}
           /\ ~Cached(list, p) /\ NoPodTwice(list) => NoPodTwice(s)
           /\ JSONVersion = "v2" => Sorted(s)
<1>1. CASE JSONVersion = "v1"
  <2>. DEFINE e == [pod |-> p, rank |-> None]
  <2>1. e \in Entry /\ e.pod = p
    BY DEF Entry
  <2>2. s = Append(list, e)
    BY <1>1 DEF CachePodInfo, CachePodInfoV1
  <2>. HIDE DEF e
  <2>. QED  BY <1>1, <2>1, <2>2, AppendLemma DEF Cached
<1>2. CASE JSONVersion # "v1"
  <2>. DEFINE e == [pod |-> p, rank |-> r]
  <2>1. e \in Entry /\ e.pod = p
    BY DEF Entry
  <2>2. s \in SortServers(Append(list, e))
    BY <1>2 DEF CachePodInfo
  <2>. HIDE DEF e
  <2>3. /\ Append(list, e) \in Seq(Entry)
        /\ Len(Append(list, e)) = Len(list) + 1
        /\ Pods(Append(list, e)) = Pods(list) \cup {p}
        /\ ~Cached(list, p) /\ NoPodTwice(list) => NoPodTwice(Append(list, e))
    BY <2>1, AppendLemma DEF Cached
  <2>. QED  BY <2>2, <2>3, SortServersLemma
<1>. QED  BY <1>1, <1>2

\* RemovePodInfo takes out one entry and keeps the others.
LEMMA RemovePodInfoLemma ==
    ASSUME NEW list \in Seq(Entry), NEW p \in Pod,
           Cached(list, p), NoPodTwice(list)
    PROVE  /\ RemovePodInfo(list, p) \in Seq(Entry)
           /\ Len(RemovePodInfo(list, p)) = Len(list) - 1
           /\ NoPodTwice(RemovePodInfo(list, p))
<1>. DEFINE n == Len(list)
            s == RemovePodInfo(list, p)
<1>1. n \in Nat /\ DOMAIN list = 1 .. n /\ \A i \in 1 .. n : list[i] \in Entry
  OBVIOUS
<1>2. PICK k \in 1 .. n : list[k].pod = p
  BY <1>1 DEF Cached, Pods
<1>3. n - 1 \in Nat /\ n \in 1 .. n
  BY <1>1, <1>2
<1>4. /\ DOMAIN s = 1 .. n - 1
      /\ \A i \in 1 .. n - 1 :
            s[i] = IF list[i].pod = p THEN list[n] ELSE list[i]
  BY DEF RemovePodInfo
<1>5. s \in [1 .. n - 1 -> Entry]
  BY <1>1, <1>3 DEF RemovePodInfo
<1>6. s \in Seq(Entry) /\ Len(s) = n - 1
  BY <1>3, <1>5, SeqDef, LenProperties
<1>. HIDE DEF n, s
<1>7. NoPodTwice(s)
  <2>1. SUFFICES ASSUME NEW i \in 1 .. n - 1, NEW j \in 1 .. n - 1,
                        s[i].pod = s[j].pod
                 PROVE  i = j
    BY <1>4 DEF NoPodTwice
  <2>2. \A a, b \in 1 .. n : list[a].pod = list[b].pod => a = b
    BY <1>1 DEF NoPodTwice
  <2>3. i \in 1 .. n /\ j \in 1 .. n /\ i # n /\ j # n
    BY <1>1
  <2>4. CASE list[i].pod = p
    BY <1>3, <1>4, <2>1, <2>2, <2>3, <2>4
  <2>5. CASE list[i].pod # p
    BY <1>3, <1>4, <2>1, <2>2, <2>3, <2>5
  <2>. QED  BY <2>4, <2>5
<1>. QED  BY <1>6, <1>7 DEF n, s

\* GetPodNum is a number of chips, whatever order the table is in.
LEMMA GetPodNumLemma ==
    ASSUME NEW list \in Seq(Entry)
    PROVE  GetPodNum(list) \in Nat
<1>1. CASE JSONVersion = "v1" \/ list = << >>
  BY <1>1 DEF GetPodNum
<1>2. CASE ~(JSONVersion = "v1" \/ list = << >>)
  <2>1. Len(list) \in Nat /\ list[1] \in Entry
    BY <1>2
  <2>2. Devices[list[1].pod] \in Nat
    BY <2>1, DevicesAssumption DEF Entry
  <2>3. GetPodNum(list) = Len(list) * Devices[list[1].pod]
    BY <1>2 DEF GetPodNum
  <2>. QED  BY <2>1, <2>2, <2>3
<1>. QED  BY <1>1, <1>2

-----------------------------------------------------------------------------
(* The table as a set of entries: the order, and with it the sorting, is    *)
(* forgotten.                                                              *)

\* CachePodInfo adds one entry.
LEMMA CachePodInfoRange ==
    ASSUME NEW list \in Seq(Entry), NEW p \in Pod, NEW r \in Int,
           NEW s \in CachePodInfo(list, p, r)
    PROVE  Range(s) = Range(list) \cup
             {[pod |-> p, rank |-> IF JSONVersion = "v1" THEN None ELSE r]}
<1>. DEFINE e == [pod |-> p, rank |-> IF JSONVersion = "v1" THEN None ELSE r]
            l == Append(list, e)
            n == Len(list)
<1>1. e \in Entry
  BY DEF Entry
<1>2. /\ l \in Seq(Entry) /\ n \in Nat
      /\ DOMAIN list = 1 .. n /\ DOMAIN l = 1 .. n + 1
      /\ \A i \in 1 .. n : l[i] = list[i]
      /\ l[n + 1] = e
  BY <1>1
<1>3. Range(l) = Range(list) \cup {e}
  <2>. HIDE DEF l, e, n
  <2>1. 1 .. n + 1 = (1 .. n) \cup {n + 1}
    BY <1>2
  <2>. QED  BY <1>2, <2>1 DEF Range
<1>4. CASE JSONVersion = "v1"
  BY <1>3, <1>4 DEF CachePodInfo, CachePodInfoV1
<1>5. CASE JSONVersion # "v1"
  <2>1. s \in SortServers(l)
    BY <1>5 DEF CachePodInfo
  <2>2. PICK f \in Bijection(DOMAIN l, DOMAIN l) : s = [i \in DOMAIN l |-> l[f[i]]]
    BY <2>1 DEF SortServers
  <2>3. /\ f \in [DOMAIN l -> DOMAIN l]
        /\ \A b \in DOMAIN l : \E a \in DOMAIN l : f[a] = b
    BY <2>2 DEF Bijection, Injection, Surjection
  <2>. HIDE DEF l
  <2>4. Range(s) = Range(l)
    BY <2>2, <2>3 DEF Range
  <2>. QED  BY <1>3, <2>4
<1>. QED  BY <1>4, <1>5

\* RemovePodInfo takes one entry out.
LEMMA RemovePodInfoRange ==
    ASSUME NEW list \in Seq(Entry), NEW p \in Pod,
           Cached(list, p), NoPodTwice(list)
    PROVE  \E e \in Range(list) :
             e.pod = p /\ Range(RemovePodInfo(list, p)) = Range(list) \ {e}
<1>. DEFINE n == Len(list)
            s == RemovePodInfo(list, p)
<1>1. n \in Nat /\ DOMAIN list = 1 .. n
  OBVIOUS
<1>2. PICK k \in 1 .. n : list[k].pod = p
  BY <1>1 DEF Cached, Pods
<1>3. n \in 1 .. n
  BY <1>1, <1>2
<1>4. /\ DOMAIN s = 1 .. n - 1
      /\ \A i \in 1 .. n - 1 :
            s[i] = IF list[i].pod = p THEN list[n] ELSE list[i]
  BY DEF RemovePodInfo
<1>5. \A i, j \in 1 .. n : list[i].pod = list[j].pod => i = j
  BY <1>1 DEF NoPodTwice
<1>. HIDE DEF n, s
<1>6. \A i \in 1 .. n : list[i].pod = p <=> i = k
  BY <1>2, <1>5
<1>7. \A i \in 1 .. n - 1 : i \in 1 .. n /\ i # n
  BY <1>1
<1>8. \A i \in 1 .. n : i = n \/ i \in 1 .. n - 1
  BY <1>1
<1>9. Range(s) \subseteq Range(list) \ {list[k]}
  <2>1. SUFFICES ASSUME NEW i \in 1 .. n - 1 PROVE s[i] \in Range(list) \ {list[k]}
    BY <1>4 DEF Range
  <2>2. CASE i = k
    BY <1>1, <1>2, <1>3, <1>4, <1>5, <1>6, <1>7, <2>2 DEF Range
  <2>3. CASE i # k
    BY <1>1, <1>2, <1>4, <1>5, <1>6, <1>7, <2>3 DEF Range
  <2>. QED  BY <2>2, <2>3
<1>10. Range(list) \ {list[k]} \subseteq Range(s)
  <2>1. SUFFICES ASSUME NEW i \in 1 .. n, i # k PROVE list[i] \in Range(s)
    BY <1>1 DEF Range
  <2>2. CASE i = n
    <3>1. k \in 1 .. n - 1
      BY <1>8, <2>1, <2>2
    <3>2. s[k] = list[n]
      BY <1>2, <1>4, <3>1
    <3>. QED  BY <1>4, <2>2, <3>1, <3>2 DEF Range
  <2>3. CASE i # n
    BY <1>4, <1>6, <1>8, <2>1, <2>3 DEF Range
  <2>. QED  BY <2>2, <2>3
<1>11. list[k] \in Range(list)
  BY <1>1 DEF Range
<1>. QED  BY <1>2, <1>9, <1>10, <1>11 DEF s

\* RemovePodInfo takes the pod out of the table, and no other.
LEMMA RemovePodInfoPods ==
    ASSUME NEW list \in Seq(Entry), NEW p \in Pod,
           Cached(list, p), NoPodTwice(list)
    PROVE  Pods(RemovePodInfo(list, p)) = Pods(list) \ {p}
<1>. DEFINE s == RemovePodInfo(list, p)
<1>1. PICK e \in Range(list) : e.pod = p /\ Range(s) = Range(list) \ {e}
  BY RemovePodInfoRange
<1>2. /\ \A q : q \in Pods(list) <=> \E f \in Range(list) : f.pod = q
      /\ \A q : q \in Pods(s) <=> \E f \in Range(s) : f.pod = q
  BY DEF Pods, Range
<1>3. \A f \in Range(list) : f.pod = p => f = e
  BY <1>1 DEF NoPodTwice, Range
<1>4. \A q : q \in Pods(s) <=> q \in Pods(list) /\ q # p
  BY <1>1, <1>2, <1>3
<1>. QED  BY <1>4

\* The length of a table without repetition is the number of its entries.
LEMMA TableCardinality ==
    ASSUME NEW list \in Seq(Entry), NoPodTwice(list)
    PROVE  Cardinality(Range(list)) = Len(list)
<1>1. list \in Bijection(1 .. Len(list), Range(list))
  BY DEF Bijection, Injection, Surjection, IsInjective, Range, NoPodTwice
<1>2. ExistsBijection(1 .. Len(list), Range(list))
  BY <1>1 DEF ExistsBijection
<1>. QED  BY <1>2, FS_CountingElements
-----------------------------------------------------------------------------
(* Ranks that follow each other *)

\* Only the identity orders 1 .. n; this is what makes sort.Slice, which is not
\* stable, have one result.
LEMMA OrderedIsIdentity ==
    ASSUME NEW n \in Nat, NEW f \in Bijection(1 .. n, 1 .. n),
           \A i, j \in 1 .. n : i < j => f[i] <= f[j]
    PROVE  \A i \in 1 .. n : f[i] = i
<1>1. /\ f \in [1 .. n -> 1 .. n]
      /\ \A i, j \in 1 .. n : f[i] = f[j] => i = j
  BY DEF Bijection, Injection, IsInjective
<1>2. SUFFICES ASSUME NEW i \in 1 .. n PROVE f[i] = i
  OBVIOUS
<1>3. f[i] \in 1 .. n
  BY <1>1
<1>4. i <= f[i]
  <2>. DEFINE g == [j \in 1 .. i |-> f[j]]
  <2>1. \A j \in 1 .. i : j \in 1 .. n /\ f[j] \in 1 .. f[i]
    <3>1. \A j \in 1 .. i : j \in 1 .. n /\ (j < i \/ j = i)
      OBVIOUS
    <3>. QED  BY <1>1, <1>3, <3>1
  <2>2. g \in Injection(1 .. i, 1 .. f[i])
    BY <1>1, <2>1 DEF Injection, IsInjective
  <2>3. Cardinality(1 .. i) <= Cardinality(1 .. f[i])
    BY <1>3, <2>2, FS_Injection, FS_Interval
  <2>. QED  BY <1>3, <2>3, FS_Interval
<1>5. f[i] <= i
  <2>. DEFINE g == [j \in i .. n |-> f[j]]
  <2>1. \A j \in i .. n : j \in 1 .. n /\ f[j] \in f[i] .. n
    <3>1. \A j \in i .. n : j \in 1 .. n /\ (i < j \/ j = i)
      OBVIOUS
    <3>. QED  BY <1>1, <1>3, <3>1
  <2>2. g \in Injection(i .. n, f[i] .. n)
    BY <1>1, <2>1 DEF Injection, IsInjective
  <2>3. Cardinality(i .. n) <= Cardinality(f[i] .. n)
    BY <1>3, <2>2, FS_Injection, FS_Interval
  <2>4. Cardinality(i .. n) = n - i + 1 /\ Cardinality(f[i] .. n) = n - f[i] + 1
    BY <1>3, FS_Interval
  <2>. QED  BY <1>3, <2>3, <2>4
<1>. QED  BY <1>3, <1>4, <1>5

\* When all pods have as many chips, the table whose i-th entry has rank i - 1
\* takes the next rank at its end, and sorting leaves it so.
LEMMA RanksFollow ==
    ASSUME NEW list \in Seq(Entry), NEW p \in Pod, JSONVersion = "v2",
           \A q, r \in Pod : Devices[q] = Devices[r],
           \A i \in DOMAIN list : list[i].rank = i - 1,
           NEW s \in CachePodInfo(list, p, Len(list))
    PROVE  \A i \in DOMAIN s : s[i].rank = i - 1
<1>. DEFINE e == [pod |-> p, rank |-> Len(list)]
            l == Append(list, e)
            n == Len(list) + 1
            d == Devices[p]
<1>1. e \in Entry /\ l \in Seq(Entry) /\ n \in Nat /\ Len(l) = n /\ DOMAIN l = 1 .. n
  BY DEF Entry
<1>2. \A i \in 1 .. n : l[i].rank = i - 1 /\ l[i] \in Entry
  <2>1. \A i \in 1 .. Len(list) : l[i] = list[i] /\ list[i] \in Entry
    BY <1>1
  <2>2. l[n] = e
    BY <1>1
  <2>3. 1 .. n = (1 .. Len(list)) \cup {n}
    OBVIOUS
  <2>. HIDE DEF l
  <2>4. \A i \in 1 .. Len(list) : l[i].rank = i - 1
    BY <2>1
  <2>5. l[n].rank = n - 1
    BY <2>2
  <2>. HIDE DEF e, n
  <2>. QED  BY <1>1, <2>1, <2>2, <2>3, <2>4, <2>5
<1>3. s \in SortServers(l)
  BY DEF CachePodInfo
<1>. HIDE DEF l, n, e
<1>4. PICK f \in Bijection(1 .. n, 1 .. n) : s = [i \in 1 .. n |-> l[f[i]]] /\ Sorted(s)
  BY <1>1, <1>3 DEF SortServers
<1>5. f \in [1 .. n -> 1 .. n]
  BY <1>4 DEF Bijection, Injection
<1>6. \A i \in 1 .. n : FirstRankID(s[i]) = (f[i] - 1) * d
  <2>1. \A i \in 1 .. n : s[i] = l[f[i]] /\ f[i] \in 1 .. n
    BY <1>4, <1>5
  <2>2. \A i \in 1 .. n : s[i].rank = f[i] - 1 /\ s[i].pod \in Pod
    BY <1>2, <2>1 DEF Entry
  <2>3. \A i \in 1 .. n : Devices[s[i].pod] = d
    BY <2>2
  <2>. HIDE DEF d
  <2>. QED  BY <2>2, <2>3 DEF FirstRankID
<1>7. d \in Nat /\ d > 0
  BY DevicesAssumption
<1>. HIDE DEF d
<1>8. \A a, b \in Int : (a - 1) * d <= (b - 1) * d => a <= b
  BY <1>7
<1>9. \A i, j \in 1 .. n : i < j => f[i] <= f[j]
  <2>1. \A i, j \in 1 .. n : i < j => (f[i] - 1) * d <= (f[j] - 1) * d
    <3>1. DOMAIN s = 1 .. n
      BY <1>4
    <3>2. \A i, j \in 1 .. n : i < j => FirstRankID(s[i]) <= FirstRankID(s[j])
      BY <1>4, <3>1 DEF Sorted
    <3>. QED  BY <1>6, <3>2
  <2>2. \A i \in 1 .. n : f[i] \in Int
    BY <1>1, <1>5
  <2>. QED  BY <1>8, <2>1, <2>2
<1>10. \A i \in 1 .. n : f[i] = i
  BY <1>1, <1>9, OrderedIsIdentity
<1>. QED  BY <1>2, <1>4, <1>10

=============================================================================
