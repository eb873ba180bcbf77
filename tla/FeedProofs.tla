------------------------------ MODULE FeedProofs ------------------------------
(***************************************************************************)
(* The page follows the URL and the feed shows the beginning of the ranking, *)
(* for any number of posts and channels and every size of a page.            *)
(***************************************************************************)
EXTENDS Feed, SumTheorems

NoneTwice(s) == \A i, j \in DOMAIN s : s[i] = s[j] => i = j

-----------------------------------------------------------------------------
(* Lists *)

\* What a filter leaves of the entries of a list
LEMMA FilterSet ==
  ASSUME NEW T, NEW s \in Seq(T), NEW S
  PROVE  /\ Filter(s, S) \in Seq(T)
         /\ ToSet(Filter(s, S)) = ToSet(s) \cap S
         /\ NoneTwice(s) => NoneTwice(Filter(s, S))
<1>1. PICK r : r = Filter(s, S)
  OBVIOUS
<1>2. r \in Seq(T) /\ \E f : Places(s, S, Len(s), r, f)
  BY <1>1, FilterKeeps
<1>3. PICK f : Places(s, S, Len(s), r, f)
  BY <1>2
<1>4. DOMAIN s = 1..Len(s) /\ DOMAIN r = 1..Len(r) /\ Len(r) \in Nat /\ Len(s) \in Nat
  BY <1>2
<1>5. /\ \A i \in DOMAIN r : f[i] \in DOMAIN s /\ r[i] = s[f[i]] /\ s[f[i]] \in S
      /\ \A i, j \in DOMAIN r : i < j => f[i] < f[j]
      /\ \A j \in DOMAIN s : s[j] \in S => \E i \in DOMAIN r : f[i] = j
  BY <1>3, <1>4 DEF Places
<1>6. ToSet(r) = ToSet(s) \cap S
  BY <1>5 DEF ToSet
<1>7. ASSUME NoneTwice(s), NEW i \in DOMAIN r, NEW j \in DOMAIN r, r[i] = r[j]
      PROVE  i = j
  <2>1. f[i] = f[j] /\ f[i] \in Nat
    BY <1>4, <1>5, <1>7 DEF NoneTwice
  <2>2. ~(i < j) /\ ~(j < i)
    BY <1>4, <1>5, <2>1
  <2> QED BY <1>4, <2>2
<1> QED BY <1>1, <1>2, <1>6, <1>7 DEF NoneTwice

\* A list without repetitions is as long as its set of entries is large.
LEMMA LenIsSize ==
  ASSUME NEW T, NEW s \in Seq(T), NoneTwice(s)
  PROVE  IsFiniteSet(ToSet(s)) /\ Cardinality(ToSet(s)) = Len(s)
<1>1. DOMAIN s = 1..Len(s) /\ Len(s) \in Nat
  OBVIOUS
<1>2. s \in [1..Len(s) -> ToSet(s)]
  BY <1>1 DEF ToSet
<1>3. s \in Bijection(1..Len(s), ToSet(s))
  BY <1>1, <1>2 DEF NoneTwice, ToSet, Bijection, Injection, Surjection, IsInjective
<1>4. ExistsBijection(1..Len(s), ToSet(s))
  BY <1>3 DEF ExistsBijection
<1> QED BY <1>1, <1>4, FS_CountingElements, FS_NatBijection

\* A list with fewer entries is no longer, also if only some of them count.
LEMMA FewerEntries ==
  ASSUME NEW T, NEW s \in Seq(T), NEW t \in Seq(T), NoneTwice(s), NoneTwice(t),
         ToSet(s) \subseteq ToSet(t), NEW S
  PROVE  Len(Filter(s, S)) <= Len(Filter(t, S))
<1>1. PICK u : u = Filter(s, S)
  OBVIOUS
<1>2. PICK v : v = Filter(t, S)
  OBVIOUS
<1>3. /\ u \in Seq(T) /\ NoneTwice(u) /\ v \in Seq(T) /\ NoneTwice(v)
      /\ ToSet(u) = ToSet(s) \cap S /\ ToSet(v) = ToSet(t) \cap S
  BY <1>1, <1>2, FilterSet
<1>4. /\ IsFiniteSet(ToSet(v)) /\ Cardinality(ToSet(v)) = Len(v)
      /\ Cardinality(ToSet(u)) = Len(u)
  BY <1>3, LenIsSize
<1>5. ToSet(u) \subseteq ToSet(v)
  BY <1>3
<1>6. Cardinality(ToSet(u)) <= Cardinality(ToSet(v))
  BY <1>4, <1>5, FS_Subset
<1> QED BY <1>1, <1>2, <1>4, <1>6

\* An entry that is put into a list
LEMMA Inserted ==
  ASSUME NEW T, NEW s \in Seq(T), NEW e \in T, NEW i \in 1..(Len(s) + 1)
  PROVE  /\ InsertAt(s, i, e) \in Seq(T)
         /\ ToSet(InsertAt(s, i, e)) = ToSet(s) \cup {e}
         /\ NoneTwice(s) /\ e \notin ToSet(s) => NoneTwice(InsertAt(s, i, e))
<1>1. PICK a : a = SubSeq(s, 1, i - 1)
  OBVIOUS
<1>2. PICK b : b = SubSeq(s, i, Len(s))
  OBVIOUS
<1>3. Len(s) \in Nat /\ i \in Nat /\ i >= 1 /\ i <= Len(s) + 1 /\ DOMAIN s = 1..Len(s)
  OBVIOUS
<1>4. a \in Seq(T) /\ Len(a) = i - 1 /\ \A j \in 1..(i - 1) : a[j] = s[j]
  BY <1>1, <1>3
<1>5. /\ b \in Seq(T) /\ Len(b) = (Len(s) - i) + 1
      /\ \A j \in 1..((Len(s) - i) + 1) : b[j] = s[(j + i) - 1]
  BY <1>2, <1>3
<1>6. PICK r : r = InsertAt(s, i, e)
  OBVIOUS
<1>7. r = a \o <<e>> \o b
  BY <1>1, <1>2, <1>6 DEF InsertAt
<1>8. PICK c : c = a \o <<e>>
  OBVIOUS
<1>9. c \in Seq(T) /\ Len(c) = i /\ c[i] = e /\ \A j \in 1..(i - 1) : c[j] = s[j]
  BY <1>3, <1>4, <1>8
<1>10. r = c \o b
  BY <1>7, <1>8
<1>11. /\ r \in Seq(T) /\ Len(r) = Len(s) + 1
       /\ \A j \in 1..i : r[j] = c[j]
       /\ \A j \in 1..((Len(s) - i) + 1) : r[i + j] = b[j]
  BY <1>3, <1>5, <1>9, <1>10
<1>12. /\ DOMAIN r = 1..(Len(s) + 1) /\ r[i] = e
       /\ \A j \in 1..(i - 1) : r[j] = s[j]
       /\ \A j \in i..Len(s) : r[j + 1] = s[j]
  <2>1. DOMAIN r = 1..(Len(s) + 1)
    BY <1>11
  <2>2. r[i] = e /\ \A j \in 1..(i - 1) : r[j] = s[j]
    BY <1>3, <1>9, <1>11
  <2>3. ASSUME NEW j \in i..Len(s) PROVE r[j + 1] = s[j]
    <3>1. PICK k : k = (j - i) + 1
      OBVIOUS
    <3>2. k \in 1..((Len(s) - i) + 1) /\ i + k = j + 1 /\ (k + i) - 1 = j
      BY <1>3, <3>1
    <3> QED BY <1>5, <1>11, <3>2
  <2> QED BY <2>1, <2>2, <2>3
\* Where an entry of r comes from
<1>13. ASSUME NEW j \in DOMAIN r
       PROVE  \/ j = i /\ r[j] = e
              \/ j < i /\ j \in DOMAIN s /\ r[j] = s[j]
              \/ j > i /\ j - 1 \in DOMAIN s /\ r[j] = s[j - 1]
  <2>1. CASE j = i
    BY <1>12, <2>1
  <2>2. CASE j < i
    BY <1>3, <1>12, <2>2
  <2>3. CASE j > i
    <3>1. j - 1 \in i..Len(s) /\ (j - 1) + 1 = j /\ j - 1 \in DOMAIN s
      BY <1>3, <1>12, <2>3
    <3> QED BY <1>12, <2>3, <3>1
  <2> QED BY <1>3, <1>12, <2>1, <2>2, <2>3
<1>14. ToSet(r) = ToSet(s) \cup {e}
  <2>1. ToSet(r) \subseteq ToSet(s) \cup {e}
    BY <1>13 DEF ToSet
  <2>2. e \in ToSet(r)
    BY <1>3, <1>12 DEF ToSet
  <2>3. ASSUME NEW j \in DOMAIN s PROVE s[j] \in ToSet(r)
    <3>1. CASE j < i
      BY <1>3, <1>12, <3>1 DEF ToSet
    <3>2. CASE ~(j < i)
      <4>1. j \in i..Len(s) /\ j + 1 \in DOMAIN r
        BY <1>3, <1>12, <3>2
      <4> QED BY <1>12, <4>1 DEF ToSet
    <3> QED BY <3>1, <3>2
  <2> QED BY <2>1, <2>2, <2>3 DEF ToSet
<1>15. ASSUME NoneTwice(s), e \notin ToSet(s), NEW j \in DOMAIN r, NEW k \in DOMAIN r,
              r[j] = r[k]
       PROVE  j = k
  <2>1. \A m \in DOMAIN s : s[m] # e
    BY <1>15 DEF ToSet
  <2>2. \A m, n \in DOMAIN s : s[m] = s[n] => m = n
    BY <1>15 DEF NoneTwice
  <2>3. j \in Int /\ k \in Int
    BY <1>3, <1>12
  <2>4. /\ \/ j = i /\ r[j] = e
           \/ j < i /\ j \in DOMAIN s /\ r[j] = s[j]
           \/ j > i /\ j - 1 \in DOMAIN s /\ r[j] = s[j - 1]
        /\ \/ k = i /\ r[k] = e
           \/ k < i /\ k \in DOMAIN s /\ r[k] = s[k]
           \/ k > i /\ k - 1 \in DOMAIN s /\ r[k] = s[k - 1]
    BY <1>13
  <2> QED BY <1>3, <1>15, <2>1, <2>2, <2>3, <2>4
<1> QED BY <1>6, <1>11, <1>14, <1>15 DEF NoneTwice

\* Two lists with the same entries are the same.
LEMMA SameEntries ==
  ASSUME NEW T, NEW s \in Seq(T), NEW t \in Seq(T), Len(s) = Len(t),
         \A i \in 1..Len(s) : s[i] = t[i]
  PROVE  s = t
<1>1. s = [i \in 1..Len(s) |-> s[i]] /\ t = [i \in 1..Len(t) |-> t[i]]
  OBVIOUS
<1> QED BY <1>1

\* Two pieces of a list that meet
LEMMA PiecesMeet ==
  ASSUME NEW T, NEW s \in Seq(T), NEW a \in Nat, NEW b \in Nat, a <= b, b <= Len(s)
  PROVE  SubSeq(s, 1, a) \o SubSeq(s, a + 1, b) = SubSeq(s, 1, b)
<1>1. PICK p : p = SubSeq(s, 1, a)
  OBVIOUS
<1>2. PICK q : q = SubSeq(s, a + 1, b)
  OBVIOUS
<1>3. PICK r : r = SubSeq(s, 1, b)
  OBVIOUS
<1>4. p \in Seq(T) /\ Len(p) = a /\ \A i \in 1..a : p[i] = s[i]
  BY <1>1
<1>5. q \in Seq(T) /\ Len(q) = b - a /\ \A i \in 1..(b - a) : q[i] = s[a + i]
  BY <1>2
<1>6. r \in Seq(T) /\ Len(r) = b /\ \A i \in 1..b : r[i] = s[i]
  BY <1>3
<1>7. PICK u : u = p \o q
  OBVIOUS
<1>8. /\ u \in Seq(T) /\ Len(u) = b
      /\ \A i \in 1..a : u[i] = p[i]
      /\ \A i \in 1..(b - a) : u[a + i] = q[i]
  <2>1. u \in Seq(T) /\ Len(u) = Len(p) + Len(q)
    BY <1>4, <1>5, <1>7
  <2>2. \A i \in 1..Len(p) : u[i] = p[i]
    BY <1>4, <1>5, <1>7
  <2>3. \A i \in 1..Len(q) : u[Len(p) + i] = q[i]
    BY <1>4, <1>5, <1>7
  <2> QED BY <1>4, <1>5, <2>1, <2>2, <2>3
<1>9. ASSUME NEW i \in 1..b PROVE u[i] = r[i]
  <2>1. CASE i \in 1..a
    BY <1>4, <1>6, <1>8, <2>1
  <2>2. CASE i \notin 1..a
    <3>1. PICK k : k = i - a
      OBVIOUS
    <3>2. k \in 1..(b - a) /\ a + k = i
      BY <2>2, <3>1
    <3> QED BY <1>5, <1>6, <1>8, <3>2
  <2> QED BY <2>1, <2>2
<1>10. u = r
  BY <1>6, <1>8, <1>9, SameEntries
<1> QED BY <1>1, <1>2, <1>3, <1>7, <1>10

\* The first m entries of a list, all of them if there are fewer
Upto(s, m) == IF m < Len(s) THEN m ELSE Len(s)

\* A list, and the page that follows on its first m entries
LEMMA NextPiece ==
  ASSUME NEW T, NEW s \in Seq(T), NEW m \in Nat, NEW n \in Nat, m <= n
  PROVE  SubSeq(s, 1, Upto(s, m)) \o SubSeq(s, m + 1, Upto(s, n)) = SubSeq(s, 1, Upto(s, n))
<1>1. Len(s) \in Nat
  OBVIOUS
<1>2. CASE m < Len(s)
  <2>1. PICK b : b = Upto(s, n)
    OBVIOUS
  <2>2. b \in Nat /\ m <= b /\ b <= Len(s) /\ Upto(s, m) = m
    BY <1>1, <1>2, <2>1 DEF Upto
  <2>3. SubSeq(s, 1, m) \o SubSeq(s, m + 1, b) = SubSeq(s, 1, b)
    BY <2>2, PiecesMeet
  <2> QED BY <2>1, <2>2, <2>3
<1>3. CASE ~(m < Len(s))
  <2>1. PICK p : p = SubSeq(s, 1, Len(s))
    OBVIOUS
  <2>2. Upto(s, m) = Len(s) /\ Upto(s, n) = Len(s)
    BY <1>1, <1>3 DEF Upto
  <2>3. p \in Seq(T)
    BY <1>1, <2>1
  <2>4. SubSeq(s, m + 1, Len(s)) = << >>
    BY <1>1, <1>3
  <2>5. p \o << >> = p
    BY <2>3
  <2> QED BY <2>1, <2>2, <2>4, <2>5
<1> QED BY <1>2, <1>3

\* Pages of one size, put together, are the beginning of the list.
LEMMA PagesJoin ==
  ASSUME NEW T, NEW r \in Seq(T), NEW P \in Nat, NEW s, Len(s) \in Nat, Len(s) > 0,
         \A i \in 1..Len(s) : s[i] = SubSeq(r, (i - 1) * P + 1, Upto(r, i * P))
  PROVE  FlattenSeq(s) = SubSeq(r, 1, Upto(r, Len(s) * P))
<1> DEFINE flatten == CHOOSE f : Flattening(s, f)
<1>1. FlattenSeq(s) = flatten[Len(s)]
  BY DEF FlattenSeq, Flattening
<1>2. Flattening(s, flatten)
  BY FlatteningExists
<1> HIDE DEF flatten
<1>3. \A i \in 1..Len(s) : flatten[i] = IF i = 1 THEN s[i] ELSE flatten[i - 1] \o s[i]
  BY <1>2 DEF Flattening
<1> DEFINE G == {n \in Nat : n + 1 <= Len(s) =>
                     flatten[n + 1] = SubSeq(r, 1, Upto(r, (n + 1) * P))}
<1>4. 0 \in G
  <2>1. 1 \in 1..Len(s) /\ 0 + 1 = 1 /\ (1 - 1) * P + 1 = 1
    OBVIOUS
  <2>2. flatten[1] = s[1]
    BY <1>3, <2>1
  <2>3. s[1] = SubSeq(r, (1 - 1) * P + 1, Upto(r, 1 * P))
    BY <2>1
  <2>4. flatten[0 + 1] = SubSeq(r, 1, Upto(r, (0 + 1) * P))
    BY <2>1, <2>2, <2>3
  <2> QED BY <2>4
<1>5. ASSUME NEW n \in G PROVE n + 1 \in G
  <2> SUFFICES ASSUME (n + 1) + 1 <= Len(s)
               PROVE  flatten[(n + 1) + 1] = SubSeq(r, 1, Upto(r, ((n + 1) + 1) * P))
    OBVIOUS
  <2>1. PICK k : k = n + 1
    OBVIOUS
  <2>2. /\ k \in Nat /\ k + 1 \in 1..Len(s) /\ k + 1 # 1 /\ (k + 1) - 1 = k
        /\ n + 1 <= Len(s)
    BY <2>1
  <2>3. flatten[k] = SubSeq(r, 1, Upto(r, k * P))
    BY <2>1, <2>2
  <2>4. flatten[k + 1] = flatten[k] \o s[k + 1]
    BY <1>3, <2>2, Zenon
  <2>5. s[k + 1] = SubSeq(r, ((k + 1) - 1) * P + 1, Upto(r, (k + 1) * P))
    BY <2>2, Zenon
  <2>6. s[k + 1] = SubSeq(r, k * P + 1, Upto(r, (k + 1) * P))
    BY <2>2, <2>5, Zenon
  <2>7. PICK m : m = k * P
    OBVIOUS
  <2>8. PICK o : o = (k + 1) * P
    OBVIOUS
  <2>9. m \in Nat /\ o \in Nat /\ m <= o
    <3>1. \A x \in Nat, y \in Nat : x * y \in Nat /\ (x + 1) * y = x * y + y
      OBVIOUS
    <3>2. o = m + P /\ m \in Nat
      BY <2>2, <2>7, <2>8, <3>1
    <3> QED BY <3>2
  <2>10. SubSeq(r, 1, Upto(r, m)) \o SubSeq(r, m + 1, Upto(r, o)) = SubSeq(r, 1, Upto(r, o))
    BY <2>9, NextPiece
  <2>11. flatten[k + 1] = SubSeq(r, 1, Upto(r, o))
    BY <2>3, <2>4, <2>6, <2>7, <2>8, <2>10, Zenon
  <2> QED BY <2>1, <2>8, <2>11
<1>6. G = Nat
  <2>1. G \in SUBSET Nat
    OBVIOUS
  <2> HIDE DEF G
  <2> QED BY <1>4, <1>5, <2>1, NatSetInduction
<1>7. PICK n \in Nat : n + 1 = Len(s)
  <2>1. Len(s) - 1 \in Nat /\ (Len(s) - 1) + 1 = Len(s)
    OBVIOUS
  <2> QED BY <2>1
<1>8. flatten[n + 1] = SubSeq(r, 1, Upto(r, (n + 1) * P))
  <2>1. n \in G
    BY <1>6
  <2>2. n + 1 <= Len(s)
    BY <1>7
  <2> QED BY <2>1, <2>2
<1> QED BY <1>1, <1>7, <1>8

-----------------------------------------------------------------------------
(* The invariant *)

HashSet == [path : Paths \cup {""}, channel : Opt(Channel)]

\* A page that handleFeed answers with
ResultPage == {q \in [posts : Seq(Post), total : Nat] : Len(q.posts) <= PAGE_SIZE}

Request == [got : Seq(ResultPage), want : Nat, next : BOOLEAN, of : Key]

UrlFits ==
  /\ history \in Seq(HashSet) /\ at \in DOMAIN history /\ events \in Nat
  /\ page \in Paths \cup {"feed"} /\ channel \in Opt(Channel) /\ strategy \in Strategy
  /\ UrlShowsPage

\* No post is listed twice, and trending lists nothing that new does not.
RankingFits ==
  /\ ranking \in [Strategy -> Seq(Post)]
  /\ NoneTwice(ranking["new"]) /\ NoneTwice(ranking["trending"])
  /\ ToSet(ranking["trending"]) \subseteq ToSet(ranking["new"])

\* A request under way has pages to fetch, and asks for the selection of its key.
RequestFits(f, k) ==
  /\ f \in Request
  /\ f = Idle \/ /\ Len(f.got) < f.want /\ f.of = k
                 /\ f.got # << >> => NextPageParam(f.got) # 0

QueryFits ==
  /\ pages \in [Key -> Seq(ResultPage)]
  /\ fetch = [k \in Key |-> fetch[k]]
  /\ \A k \in Key : RequestFits(fetch[k], k)

\* The pages are those of the ranking as it is.
Exact(ps, k) == \A i \in DOMAIN ps : ps[i] = GetFeed(k[1], k[2], i)

RestFits == changes = 0 => \A k \in Key : Exact(pages[k], k) /\ Exact(fetch[k].got, k)

CountsFit ==
  moves \in 0..MaxMoves /\ changes \in 0..MaxChanges /\ failures \in 0..MaxFailures

FeedInv == UrlFits /\ RankingFits /\ QueryFits /\ RestFits /\ CountsFit

-----------------------------------------------------------------------------
(* The indexer *)

\* A page of a list has at most so many entries.
LEMMA PieceTyped ==
  ASSUME NEW T, NEW s \in Seq(T), NEW a \in Nat, NEW b \in Nat
  PROVE  /\ SubSeq(s, a + 1, Upto(s, a + b)) \in Seq(T)
         /\ Len(SubSeq(s, a + 1, Upto(s, a + b))) <= b
<1>1. Len(s) \in Nat
  OBVIOUS
<1>2. PICK q : q = SubSeq(s, a + 1, Upto(s, a + b))
  OBVIOUS
<1>3. CASE a < Len(s)
  <2>1. PICK e : e = Upto(s, a + b)
    OBVIOUS
  <2>2. e \in Nat /\ a <= e /\ e <= Len(s) /\ e <= a + b
    BY <1>1, <1>3, <2>1 DEF Upto
  <2>3. q \in Seq(T) /\ Len(q) = e - a
    BY <1>2, <2>1, <2>2
  <2> QED BY <1>2, <2>2, <2>3, SMTT(30)
<1>4. CASE ~(a < Len(s))
  <2>1. Upto(s, a + b) = Len(s)
    BY <1>1, <1>4 DEF Upto
  <2>2. q = << >>
    BY <1>1, <1>2, <1>4, <2>1
  <2>3. << >> \in Seq(T) /\ Len(<< >>) = 0 /\ 0 <= b
    OBVIOUS
  <2>4. q \in Seq(T) /\ Len(q) = 0
    BY <2>2, <2>3
  <2> QED BY <1>2, <2>3, <2>4
<1> QED BY <1>3, <1>4

\* What is ranked is a list of posts.
LEMMA RankedTyped ==
  ASSUME RankingFits, NEW s \in Strategy, NEW c
  PROVE  Ranked(s, c) \in Seq(Post) /\ Len(Ranked(s, c)) \in Nat
<1>1. ranking[s] \in Seq(Post)
  BY DEF RankingFits
<1>2. Ranked(s, c) \in Seq(Post)
  BY <1>1, FilterSet DEF Ranked
<1> QED BY <1>2

\* The total is no less than what is ranked.
LEMMA TotalIsEnough ==
  ASSUME RankingFits, NEW s \in Strategy, NEW c
  PROVE  Total(c) \in Nat /\ Len(Ranked(s, c)) <= Total(c)
<1>1. "new" \in Strategy /\ "trending" \in Strategy /\ s \in {"new", "trending"}
  BY DEF Strategy
<1>2. Total(c) \in Nat
  BY <1>1, RankedTyped DEF Total
<1>3. ranking["new"] \in Seq(Post) /\ ranking["trending"] \in Seq(Post)
  BY <1>1 DEF RankingFits
<1>4. CASE s = "new"
  BY <1>2, <1>4 DEF Total
<1>5. CASE s = "trending"
  BY <1>2, <1>3, <1>5, FewerEntries DEF Total, Ranked, RankingFits
<1> QED BY <1>1, <1>2, <1>4, <1>5

\* What handleFeed answers with
LEMMA FeedTyped ==
  ASSUME RankingFits, NEW s \in Strategy, NEW c, NEW n \in Nat, n > 0
  PROVE  /\ GetFeed(s, c, n) \in ResultPage
         /\ GetFeed(s, c, n).total = Total(c)
         /\ GetFeed(s, c, n).posts = SubSeq(Ranked(s, c), (n - 1) * PAGE_SIZE + 1,
                                            Upto(Ranked(s, c), n * PAGE_SIZE))
<1>1. PICK r : r = Ranked(s, c)
  OBVIOUS
<1>2. PICK q : q = GetFeed(s, c, n)
  OBVIOUS
<1>3. r \in Seq(Post) /\ Total(c) \in Nat
  BY <1>1, RankedTyped, TotalIsEnough
<1>4. PICK a : a = (n - 1) * PAGE_SIZE
  OBVIOUS
<1>5. a \in Nat /\ n * PAGE_SIZE = a + PAGE_SIZE /\ PAGE_SIZE \in Nat
  <2>1. \A x \in Nat, y \in Nat : x * y \in Nat /\ (x + 1) * y = x * y + y
    OBVIOUS
  <2>2. n - 1 \in Nat /\ (n - 1) + 1 = n /\ PAGE_SIZE \in Nat
    BY FeedAssumption
  <2>3. ((n - 1) + 1) * PAGE_SIZE = (n - 1) * PAGE_SIZE + PAGE_SIZE
    BY <2>1, <2>2, Zenon
  <2> QED BY <1>4, <2>1, <2>2, <2>3
<1>6. PICK p : p = SubSeq(r, a + 1, Upto(r, n * PAGE_SIZE))
  OBVIOUS
<1>7. p \in Seq(Post) /\ Len(p) <= PAGE_SIZE
  BY <1>3, <1>5, <1>6, PieceTyped
<1>8. q = [posts |-> p, total |-> Total(c)]
  BY <1>1, <1>2, <1>4, <1>6 DEF GetFeed, Upto
<1>9. q \in ResultPage /\ q.total = Total(c) /\ q.posts = p
  BY <1>3, <1>7, <1>8 DEF ResultPage
<1> QED BY <1>1, <1>2, <1>4, <1>6, <1>9

\* The channels of posts are channels.
LEMMA ChannelsTyped == ASSUME RankingFits PROVE Channels \subseteq Opt(Channel)
<1>1. "new" \in Strategy
  BY DEF Strategy
<1>2. ToSet(ranking["new"]) \subseteq Post
  BY <1>1 DEF RankingFits, ToSet
<1> QED BY <1>2, FeedAssumption DEF Channels, Opt

-----------------------------------------------------------------------------
(* The URL *)

\* A step of the user or the browser leaves the pages alone.
LEMMA UrlStep ==
  ASSUME FeedInv, UrlFits', UNCHANGED <<query, ranking, changes, failures>>,
         moves' = moves \/ Move
  PROVE  FeedInv'
<1>1. UNCHANGED <<pages, fetch, ranking, changes, failures>>
  BY DEF query
<1>2. RankingFits' /\ QueryFits'
  BY <1>1 DEF FeedInv, RankingFits, QueryFits
<1>3. RestFits'
  BY <1>1 DEF FeedInv, RestFits, Exact, GetFeed, Ranked, Total
<1>4. CountsFit'
  BY <1>1, FeedAssumption DEF FeedInv, CountsFit, Move
<1> QED BY <1>2, <1>3, <1>4 DEF FeedInv

\* The page of a hash
LEMMA PageTyped == ASSUME NEW h PROVE PageOf(h) \in Paths \cup {"feed"}
BY DEF PageOf

\* A link is a hash.
LEMMA LinksTyped == ASSUME FeedInv PROVE Links \subseteq HashSet
<1>1. Channels \subseteq Opt(Channel) /\ None \in Opt(Channel)
  BY ChannelsTyped DEF FeedInv, Opt
<1>2. \A x \in Paths \cup {""}, c \in Opt(Channel) : Hash(x, c) \in HashSet
  BY DEF Hash, HashSet
<1>3. {"post", "channels", "rewards", "profile", ""} = Paths \cup {""}
  BY DEF Paths
<1>4. TopBarLinks \subseteq HashSet /\ PostCardLinks \subseteq HashSet
  BY <1>1, <1>2, <1>3 DEF TopBarLinks, PostCardLinks, Home
<1>5. {Hash("", c) : c \in Channels} \subseteq HashSet /\ {Hash("post", None)} \subseteq HashSet
  BY <1>1, <1>2, <1>3
<1>6. PICK L : L = CASE page = "channels" -> {Hash("", c) : c \in Channels}
                     [] page = "rewards"  -> {Hash("post", None)}
                     [] OTHER             -> PostCardLinks
  OBVIOUS
<1>7. L \subseteq HashSet
  <2>1. CASE page = "channels"
    BY <1>5, <1>6, <2>1
  <2>2. CASE page = "rewards"
    BY <1>5, <1>6, <2>2
  <2>3. CASE page # "channels" /\ page # "rewards"
    BY <1>4, <1>6, <2>3
  <2> QED BY <2>1, <2>2, <2>3
<1>8. Links = TopBarLinks \cup L
  BY <1>6 DEF Links
<1> QED BY <1>4, <1>7, <1>8

\* A link puts an event on its way.
LEMMA NavigateStep ==
  ASSUME FeedInv, NEW h \in Links, Navigate(h)
  PROVE  FeedInv'
<1>1. /\ history' = Append(SubSeq(history, 1, at), h) /\ at' = at + 1
      /\ events' = events + 1 /\ Move
      /\ UNCHANGED <<view, query, ranking, changes, failures>>
  BY DEF Navigate
<1>2. h \in HashSet
  BY LinksTyped
<1>3. history \in Seq(HashSet) /\ at \in DOMAIN history /\ events \in Nat
  BY DEF FeedInv, UrlFits
<1>4. PICK H : H = HashSet
  OBVIOUS
<1>5. PICK g : g = SubSeq(history, 1, at)
  OBVIOUS
<1>6. at \in 1..Len(history) /\ Len(history) \in Nat /\ history \in Seq(H)
  BY <1>3, <1>4
<1>7. g \in Seq(H) /\ Len(g) = at
  BY <1>5, <1>6
<1>8. history' \in Seq(H) /\ Len(history') = at + 1
  BY <1>1, <1>2, <1>4, <1>5, <1>7
<1>9. history' \in Seq(HashSet) /\ at' \in DOMAIN history' /\ events' \in Nat /\ events' # 0
  BY <1>1, <1>3, <1>4, <1>6, <1>8
<1>10. UrlFits'
  BY <1>1, <1>9 DEF FeedInv, UrlFits, UrlShowsPage, view
<1> QED BY <1>1, <1>10, UrlStep

\* The entries of the history are hashes.
LEMMA EntryTyped ==
  ASSUME FeedInv, NEW i \in DOMAIN history
  PROVE  history[i] \in HashSet /\ history[i].channel \in Opt(Channel)
<1>1. history[i] \in HashSet
  <2> HIDE DEF HashSet
  <2> QED BY DEF FeedInv, UrlFits
<1> QED BY <1>1 DEF HashSet

\* So does the back button, unless the hash stays the same.
LEMMA BackStep ==
  ASSUME FeedInv, Back
  PROVE  FeedInv'
<1>1. /\ at > 1 /\ at' = at - 1 /\ Move
      /\ events' = IF history[at - 1] # history[at] THEN events + 1 ELSE events
      /\ UNCHANGED <<history, view, query, ranking, changes, failures>>
  BY DEF Back
<1>2. /\ history \in Seq(HashSet) /\ at \in DOMAIN history /\ events \in Nat
      /\ UrlShowsPage
  BY DEF FeedInv, UrlFits
<1>3. at' \in DOMAIN history'
  BY <1>1, <1>2
<1>4. UrlShowsPage'
  <2>1. CASE history[at - 1] # history[at]
    <3>1. events' # 0
      BY <1>1, <1>2, <2>1
    <3> QED BY <3>1 DEF UrlShowsPage
  <2>2. CASE history[at - 1] = history[at]
    <3>1. events' = events /\ history'[at'] = history[at]
      BY <1>1, <2>2
    <3> QED BY <1>1, <1>2, <3>1 DEF UrlShowsPage, view
  <2> QED BY <2>1, <2>2
<1>5. UrlFits'
  BY <1>1, <1>2, <1>3, <1>4 DEF FeedInv, UrlFits, view
<1> QED BY <1>1, <1>5, UrlStep

\* A channel changes the state and the URL together.
LEMMA SelectChannelStep ==
  ASSUME FeedInv, NEW c \in Opt(Channel), SelectChannel(c)
  PROVE  FeedInv'
<1>1. /\ page = "feed" /\ channel' = c /\ Move
      /\ history' = [history EXCEPT ![at] = Hash("", c)]
      /\ UNCHANGED <<at, events, page, strategy, query, ranking, changes, failures>>
  BY DEF SelectChannel
<1>2. PICK h : h = Hash("", c)
  OBVIOUS
<1>3. h \in HashSet /\ h.channel = c /\ PageOf(h) = "feed"
  BY <1>2 DEF Hash, HashSet, PageOf, Paths
<1>4. history \in Seq(HashSet) /\ at \in DOMAIN history
  BY DEF FeedInv, UrlFits
<1>5. PICK H : H = HashSet
  OBVIOUS
<1>6. history' \in Seq(H) /\ DOMAIN history' = DOMAIN history /\ history'[at] = h
  <2>1. history' = [history EXCEPT ![at] = h]
    BY <1>1, <1>2
  <2>2. h \in H /\ history \in Seq(H) /\ at \in DOMAIN history
    BY <1>3, <1>4, <1>5
  <2> QED BY <2>1, <2>2
<1>7. UrlShowsPage'
  BY <1>1, <1>3, <1>6 DEF UrlShowsPage
<1>8. UrlFits'
  BY <1>1, <1>4, <1>5, <1>6, <1>7 DEF FeedInv, UrlFits
<1> QED BY <1>1, <1>8, UrlStep

\* A strategy is not in the URL.
LEMMA SetStrategyStep ==
  ASSUME FeedInv, NEW s \in Strategy, SetStrategy(s)
  PROVE  FeedInv'
<1>1. /\ strategy' = s /\ Move
      /\ UNCHANGED <<url, page, channel, query, ranking, changes, failures>>
  BY DEF SetStrategy
<1>2. UrlFits'
  BY <1>1 DEF FeedInv, UrlFits, UrlShowsPage, url
<1> QED BY <1>1, <1>2, UrlStep

\* The event makes page and channel those of the URL.
LEMMA HashChangeStep ==
  ASSUME FeedInv, HashChange
  PROVE  FeedInv'
<1>1. /\ events > 0 /\ events' = events - 1
      /\ page' = PageOf(history[at])
      /\ channel' = IF page' = "feed" THEN history[at].channel ELSE channel
      /\ strategy' \in {strategy, "trending"}
      /\ UNCHANGED <<history, at, query, ranking, moves, changes, failures>>
  BY DEF HashChange, ChannelAfterEvent
<1>2. /\ history \in Seq(HashSet) /\ at \in DOMAIN history /\ events \in Nat
      /\ channel \in Opt(Channel) /\ strategy \in Strategy
  BY DEF FeedInv, UrlFits
<1>3. history[at].channel \in Opt(Channel)
  BY <1>2, EntryTyped
<1>4. page' \in Paths \cup {"feed"}
  BY <1>1, PageTyped
<1>5. UrlShowsPage'
  BY <1>1 DEF UrlShowsPage
<1>6. events' \in Nat /\ strategy' \in Strategy
  BY <1>1, <1>2 DEF Strategy
<1>7. UrlFits'
  BY <1>1, <1>2, <1>3, <1>4, <1>5, <1>6 DEF UrlFits
<1> QED BY <1>1, <1>7, UrlStep

-----------------------------------------------------------------------------
(* Fetching *)

\* No request
LEMMA IdleFits ==
  ASSUME NEW k \in Key
  PROVE  RequestFits(Idle, k) /\ Idle.got = << >> /\ Exact(Idle.got, k)
<1>1. << >> \in Seq(ResultPage)
  OBVIOUS
<1>2. <<"new", None>> \in Key
  BY DEF Key, Strategy, Opt
<1>3. Idle \in Request /\ Idle.got = << >>
  BY <1>1, <1>2 DEF Idle, Request
<1>4. Exact(Idle.got, k)
  BY <1>3 DEF Exact
<1> QED BY <1>3, <1>4 DEF RequestFits

\* Where the page and the channel come from is left alone.
LEMMA QueryStep ==
  ASSUME FeedInv, UNCHANGED <<url, view, ranking>>, QueryFits', RestFits', CountsFit'
  PROVE  FeedInv'
<1>1. UrlFits'
  BY DEF FeedInv, UrlFits, UrlShowsPage, url, view
<1>2. RankingFits'
  BY DEF FeedInv, RankingFits
<1> QED BY <1>1, <1>2 DEF FeedInv

\* A request of a key starts, goes on or ends.
LEMMA RequestStep ==
  ASSUME FeedInv, NEW k \in Key, NEW f, RequestFits(f, k),
         UNCHANGED <<url, view, pages, ranking>>, fetch' = [fetch EXCEPT ![k] = f],
         changes' = 0 => changes = 0 /\ Exact(f.got, k), CountsFit'
  PROVE  FeedInv'
<1>1. /\ pages \in [Key -> Seq(ResultPage)] /\ fetch = [j \in Key |-> fetch[j]]
      /\ \A j \in Key : RequestFits(fetch[j], j)
  BY DEF FeedInv, QueryFits
<1>2. \A j \in Key : fetch'[j] = IF j = k THEN f ELSE fetch[j]
  BY <1>1
<1>3. fetch' = [j \in Key |-> fetch'[j]]
  BY <1>1
<1>4. \A j \in Key : RequestFits(fetch'[j], j)
  BY <1>1, <1>2
<1>5. QueryFits'
  BY <1>1, <1>3, <1>4 DEF QueryFits
<1>6. RestFits'
  <2> SUFFICES ASSUME changes' = 0, NEW j \in Key
               PROVE  Exact(pages[j], j)' /\ Exact(fetch[j].got, j)'
    BY DEF RestFits
  <2>1. Exact(pages[j], j) /\ Exact(fetch[j].got, j) /\ Exact(f.got, k)
    BY DEF FeedInv, RestFits
  <2>2. Exact(pages[j], j)'
    BY <2>1 DEF Exact, GetFeed, Ranked, Total
  <2>3. PICK g : g = fetch'[j].got
    OBVIOUS
  <2>4. Exact(g, j)
    BY <1>2, <2>1, <2>3
  <2>5. Exact(fetch[j].got, j)'
    BY <2>3, <2>4 DEF Exact, GetFeed, Ranked, Total
  <2> QED BY <2>2, <2>5
<1> QED BY <1>5, <1>6, QueryStep

\* The selection has a key.
LEMMA CurrentTyped ==
  ASSUME FeedInv
  PROVE  CurrentKey \in Key /\ <<strategy, channel>> = CurrentKey
BY DEF FeedInv, UrlFits, CurrentKey, QueryKey, Key

\* The request for all pages that there are
LEMMA RefetchFits ==
  ASSUME FeedInv
  PROVE  /\ RequestFits(Refetch(CurrentKey), CurrentKey)
         /\ Exact(Refetch(CurrentKey).got, CurrentKey)
<1>1. PICK k : k = CurrentKey
  OBVIOUS
<1>2. k \in Key /\ <<strategy, channel>> = k
  BY <1>1, CurrentTyped
<1>3. PICK ps : ps = pages[k]
  OBVIOUS
<1>4. ps \in Seq(ResultPage)
  <2> HIDE DEF ResultPage
  <2> QED BY <1>2, <1>3 DEF FeedInv, QueryFits
<1>5. PICK w : w = IF ps = << >> THEN 1 ELSE Len(ps)
  OBVIOUS
<1>6. w \in Nat /\ w > 0
  <2> HIDE DEF ResultPage
  <2> QED BY <1>4, <1>5
<1>7. PICK f : f = Refetch(k)
  OBVIOUS
<1>8. f = [got |-> << >>, want |-> w, next |-> FALSE, of |-> k]
  BY <1>2, <1>3, <1>5, <1>7 DEF Refetch
<1>9. << >> \in Seq(ResultPage) /\ Len(<< >>) = 0
  OBVIOUS
<1>10. f \in Request /\ f.got = << >> /\ f.of = k /\ Len(f.got) < f.want
  BY <1>2, <1>6, <1>8, <1>9 DEF Request
<1>11. RequestFits(f, k) /\ Exact(f.got, k)
  BY <1>10 DEF RequestFits, Exact
<1> QED BY <1>1, <1>7, <1>11

\* A refetch
LEMMA StartRefetchStep ==
  ASSUME FeedInv, StartRefetch
  PROVE  FeedInv'
<1>1. /\ fetch' = [fetch EXCEPT ![CurrentKey] = Refetch(CurrentKey)]
      /\ UNCHANGED <<url, view, pages, ranking, moves, changes, failures>>
  BY DEF StartRefetch
<1>2. CountsFit'
  BY <1>1 DEF FeedInv, CountsFit
<1>3. changes' = 0 => changes = 0
  BY <1>1
<1> QED BY <1>1, <1>2, <1>3, CurrentTyped, RefetchFits, RequestStep

\* A refetch because of a pending transaction
LEMMA InvalidateStep ==
  ASSUME FeedInv, Invalidate
  PROVE  FeedInv'
<1>1. /\ fetch' = [fetch EXCEPT ![CurrentKey] = Refetch(CurrentKey)]
      /\ changes < MaxChanges /\ changes' = changes + 1
      /\ UNCHANGED <<url, view, pages, ranking, moves, failures>>
  BY DEF Invalidate
<1>2. CountsFit' /\ changes' # 0
  BY <1>1, FeedAssumption DEF FeedInv, CountsFit
<1> QED BY <1>1, <1>2, CurrentTyped, RefetchFits, RequestStep

\* One more page
LEMMA FetchNextPageStep ==
  ASSUME FeedInv, FetchNextPage
  PROVE  FeedInv'
<1>1. /\ fetch' = [fetch EXCEPT ![CurrentKey] = NextPage(CurrentKey)]
      /\ HasNextPage(pages[CurrentKey])
      /\ UNCHANGED <<url, view, pages, ranking, moves, changes, failures>>
  BY DEF FetchNextPage
<1>2. PICK k : k = CurrentKey
  OBVIOUS
<1>3. k \in Key /\ <<strategy, channel>> = k
  BY <1>2, CurrentTyped
<1>4. PICK ps : ps = pages[k]
  OBVIOUS
<1>5. ps \in Seq(ResultPage) /\ Len(ps) \in Nat
  <2> HIDE DEF ResultPage
  <2> QED BY <1>3, <1>4 DEF FeedInv, QueryFits
<1>6. PICK f : f = NextPage(k)
  OBVIOUS
<1>7. f = [got |-> ps, want |-> Len(ps) + 1, next |-> TRUE, of |-> k]
  BY <1>3, <1>4, <1>6 DEF NextPage
<1>8. f \in Request /\ f.got = ps /\ f.of = k /\ f.want = Len(ps) + 1
  BY <1>3, <1>5, <1>7 DEF Request
<1>9. NextPageParam(ps) # 0
  BY <1>1, <1>2, <1>4 DEF HasNextPage
<1>10. RequestFits(f, k)
  BY <1>5, <1>8, <1>9 DEF RequestFits
<1>11. changes' = 0 => changes = 0 /\ Exact(f.got, k)
  BY <1>1, <1>3, <1>4, <1>8 DEF FeedInv, RestFits
<1>12. CountsFit'
  BY <1>1 DEF FeedInv, CountsFit
<1>13. fetch' = [fetch EXCEPT ![k] = f]
  BY <1>1, <1>2, <1>6
<1> QED BY <1>1, <1>3, <1>10, <1>11, <1>12, <1>13, RequestStep

\* A request that fails leaves the pages as they are.
LEMMA FetchFailsStep ==
  ASSUME FeedInv, NEW k \in Key, FetchFails(k)
  PROVE  FeedInv'
<1>1. /\ fetch' = [fetch EXCEPT ![k] = Idle]
      /\ failures < MaxFailures /\ failures' = failures + 1
      /\ UNCHANGED <<url, view, pages, ranking, moves, changes>>
  BY DEF FetchFails
<1>2. CountsFit'
  BY <1>1, FeedAssumption DEF FeedInv, CountsFit
<1>3. changes' = 0 => changes = 0
  BY <1>1
<1> QED BY <1>1, <1>2, <1>3, IdleFits, RequestStep

\* The number of pages decides what the next page is.
LEMMA NextIsLast ==
  ASSUME NEW ps, NextPageParam(ps) # 0
  PROVE  NextPageParam(ps) = Len(ps) + 1
BY DEF NextPageParam

\* A list with one entry more
LEMMA Appended ==
  ASSUME NEW T, NEW s \in Seq(T), NEW e \in T
  PROVE  Append(s, e) \in Seq(T) /\ Len(Append(s, e)) = Len(s) + 1
OBVIOUS

\* An answer brings the page that comes next, of the selection of its key.
LEMMA AnswerBrings ==
  ASSUME FeedInv, NEW k \in Key, fetch[k] # Idle,
         NEW n, n = (IF fetch[k].got = << >> THEN 1 ELSE NextPageParam(fetch[k].got)),
         NEW got, got = Append(fetch[k].got, GetFeed(fetch[k].of[1], fetch[k].of[2], n))
  PROVE  /\ got \in Seq(ResultPage) /\ got # << >> /\ Len(got) <= fetch[k].want
         /\ fetch[k] \in Request /\ fetch[k].of = k
         /\ changes = 0 => Exact(got, k)
<1>1. PICK f : f = fetch[k]
  OBVIOUS
<1>2. /\ f \in Request /\ Len(f.got) < f.want /\ f.of = k
      /\ f.got # << >> => NextPageParam(f.got) # 0
  BY <1>1 DEF FeedInv, QueryFits, RequestFits
<1>3. PICK g : g = f.got
  OBVIOUS
<1>4. PICK R : R = ResultPage
  OBVIOUS
<1>5. g \in Seq(R) /\ f.want \in Nat
  BY <1>2, <1>3, <1>4 DEF Request
<1>6. Len(g) \in Nat /\ DOMAIN g = 1..Len(g)
  BY <1>5
<1>7. n = Len(g) + 1
  <2>1. CASE g = << >>
    <3>1. Len(<< >>) = 0
      OBVIOUS
    <3> QED BY <1>1, <1>3, <2>1, <3>1
  <2>2. CASE g # << >>
    BY <1>1, <1>2, <1>3, <2>2, NextIsLast
  <2> QED BY <2>1, <2>2
<1>8. k[1] \in Strategy
  BY DEF Key
<1>9. PICK q : q = GetFeed(k[1], k[2], n)
  OBVIOUS
<1>10. q \in R
  BY <1>4, <1>6, <1>7, <1>8, <1>9, FeedTyped DEF FeedInv
<1>11. got = Append(g, q)
  BY <1>1, <1>2, <1>3, <1>9
<1>12. /\ got \in Seq(R) /\ Len(got) = Len(g) + 1 /\ DOMAIN got = 1..(Len(g) + 1)
       /\ got[Len(g) + 1] = q /\ \A i \in 1..Len(g) : got[i] = g[i]
  <2>1. got \in Seq(R) /\ Len(got) = Len(g) + 1
    <3>1. Append(g, q) \in Seq(R) /\ Len(Append(g, q)) = Len(g) + 1
      BY <1>5, <1>10, Appended, Zenon
    <3> QED BY <1>11, <3>1, Zenon
  <2>2. got[Len(g) + 1] = q
    BY <1>5, <1>6, <1>10, <1>11
  <2>3. \A i \in 1..Len(g) : got[i] = g[i]
    BY <1>5, <1>6, <1>10, <1>11, SMTT(30)
  <2>4. DOMAIN got = 1..(Len(g) + 1)
    BY <2>1
  <2> QED BY <2>1, <2>2, <2>3, <2>4
<1>13. got # << >> /\ Len(got) <= f.want
  BY <1>2, <1>3, <1>5, <1>6, <1>12
<1>14. ASSUME changes = 0 PROVE Exact(got, k)
  <2>1. \A i \in DOMAIN g : g[i] = GetFeed(k[1], k[2], i)
    BY <1>1, <1>3, <1>14 DEF FeedInv, RestFits, Exact
  <2>2. \A i \in DOMAIN got : i \in DOMAIN g \/ i = n
    BY <1>6, <1>7, <1>12
  <2>3. got[n] = GetFeed(k[1], k[2], n) /\ \A i \in DOMAIN g : got[i] = g[i]
    BY <1>6, <1>7, <1>9, <1>12
  <2>4. \A i \in DOMAIN got : got[i] = GetFeed(k[1], k[2], i)
    BY <2>1, <2>2, <2>3
  <2> QED BY <2>4 DEF Exact
<1> QED BY <1>1, <1>2, <1>4, <1>12, <1>13, <1>14

\* The last answer replaces the pages.
LEMMA AnswerStep ==
  ASSUME FeedInv, NEW k \in Key, Answer(k)
  PROVE  FeedInv'
<1>1. PICK f : f = fetch[k]
  OBVIOUS
<1>2. PICK n : n = IF f.got = << >> THEN 1 ELSE NextPageParam(f.got)
  OBVIOUS
<1>3. PICK got : got = Append(f.got, GetFeed(f.of[1], f.of[2], n))
  OBVIOUS
<1>4. /\ fetch[k] # Idle
      /\ IF Len(got) = f.want \/ NextPageParam(got) = 0
           THEN /\ pages' = [pages EXCEPT ![k] = got]
                /\ fetch' = [fetch EXCEPT ![k] = Idle]
           ELSE /\ fetch' = [fetch EXCEPT ![k].got = got]
                /\ UNCHANGED pages
      /\ UNCHANGED <<url, view, ranking, moves, changes, failures>>
  BY <1>1, <1>2, <1>3, Zenon DEF Answer
<1>5. /\ got \in Seq(ResultPage) /\ got # << >> /\ Len(got) <= f.want
      /\ f \in Request /\ f.of = k
      /\ changes = 0 => Exact(got, k)
  BY <1>1, <1>2, <1>3, <1>4, AnswerBrings, ZenonT(30)
<1>6. CountsFit'
  BY <1>4 DEF FeedInv, CountsFit
<1>7. CASE Len(got) = f.want \/ NextPageParam(got) = 0
  <2>1. /\ pages' = [pages EXCEPT ![k] = got] /\ fetch' = [fetch EXCEPT ![k] = Idle]
    BY <1>4, <1>7
  <2>2. /\ pages \in [Key -> Seq(ResultPage)] /\ fetch = [j \in Key |-> fetch[j]]
        /\ \A j \in Key : RequestFits(fetch[j], j)
    BY DEF FeedInv, QueryFits
  <2>3. /\ \A j \in Key : fetch'[j] = IF j = k THEN Idle ELSE fetch[j]
        /\ \A j \in Key : pages'[j] = IF j = k THEN got ELSE pages[j]
        /\ fetch' = [j \in Key |-> fetch'[j]]
    BY <2>1, <2>2
  <2>4. pages' \in [Key -> Seq(ResultPage)]
    <3>1. PICK Q : Q = Seq(ResultPage)
      OBVIOUS
    <3>2. pages \in [Key -> Q] /\ got \in Q
      BY <1>5, <2>2, <3>1
    <3> QED BY <2>1, <3>1, <3>2
  <2>5. \A j \in Key : RequestFits(fetch'[j], j)
    BY <2>2, <2>3, IdleFits
  <2>6. QueryFits'
    BY <2>3, <2>4, <2>5 DEF QueryFits
  <2>7. RestFits'
    <3> SUFFICES ASSUME changes' = 0, NEW j \in Key
                 PROVE  Exact(pages[j], j)' /\ Exact(fetch[j].got, j)'
      BY DEF RestFits
    <3>1. Exact(pages[j], j) /\ Exact(fetch[j].got, j) /\ Exact(got, k)
      BY <1>4, <1>5 DEF FeedInv, RestFits
    <3>2. PICK g : g = fetch'[j].got
      OBVIOUS
    <3>3. PICK ps : ps = pages'[j]
      OBVIOUS
    <3>4. Exact(g, j) /\ Exact(ps, j)
      BY <2>3, <3>1, <3>2, <3>3, IdleFits
    <3>5. Exact(pages[j], j)'
      BY <1>4, <3>3, <3>4 DEF Exact, GetFeed, Ranked, Total
    <3>6. Exact(fetch[j].got, j)'
      BY <1>4, <3>2, <3>4 DEF Exact, GetFeed, Ranked, Total
    <3> QED BY <3>5, <3>6
  <2> QED BY <1>4, <1>6, <2>6, <2>7, QueryStep
<1>8. CASE ~(Len(got) = f.want \/ NextPageParam(got) = 0)
  <2>1. fetch' = [fetch EXCEPT ![k].got = got] /\ UNCHANGED pages
    BY <1>4, <1>8
  <2>2. PICK e : e = [f EXCEPT !.got = got]
    OBVIOUS
  <2>3. e \in Request /\ e.got = got /\ e.want = f.want /\ e.of = k
    BY <1>5, <2>2 DEF Request
  <2>4. fetch' = [fetch EXCEPT ![k] = e]
    BY <1>1, <2>1, <2>2
  <2>5. Len(got) \in Nat /\ f.want \in Nat
    <3>1. f.want \in Nat
      BY <1>5 DEF Request
    <3> HIDE DEF ResultPage
    <3> QED BY <1>5, <3>1
  <2>6. RequestFits(e, k)
    BY <1>5, <1>8, <2>3, <2>5 DEF RequestFits
  <2>7. changes' = 0 => changes = 0 /\ Exact(e.got, k)
    BY <1>4, <1>5, <2>3
  <2> QED BY <1>4, <1>6, <2>1, <2>4, <2>6, <2>7, RequestStep
<1> QED BY <1>7, <1>8

\* A fresh start reads the URL and has no pages.
LEMMA ReloadStep ==
  ASSUME FeedInv, Reload
  PROVE  FeedInv'
<1>1. /\ Move /\ events' = 0 /\ page' = PageOf(history[at])
      /\ channel' = history[at].channel /\ strategy' = "trending"
      /\ pages' = [k \in Key |-> << >>] /\ fetch' = [k \in Key |-> Idle]
      /\ UNCHANGED <<history, at, ranking, changes, failures>>
  BY DEF Reload
<1>2. history \in Seq(HashSet) /\ at \in DOMAIN history
  BY DEF FeedInv, UrlFits
<1>3. history[at].channel \in Opt(Channel) /\ PageOf(history[at]) \in Paths \cup {"feed"}
  BY <1>2, EntryTyped, PageTyped
<1>4. UrlFits'
  BY <1>1, <1>2, <1>3 DEF UrlFits, UrlShowsPage, Strategy
<1>5. RankingFits'
  BY <1>1 DEF FeedInv, RankingFits
<1>6. << >> \in Seq(ResultPage)
  OBVIOUS
<1>7. QueryFits'
  <2>1. pages' \in [Key -> Seq(ResultPage)]
    BY <1>1, <1>6
  <2>2. fetch' = [k \in Key |-> fetch'[k]] /\ \A k \in Key : RequestFits(fetch'[k], k)
    BY <1>1, IdleFits
  <2> QED BY <2>1, <2>2 DEF QueryFits
<1>8. RestFits'
  <2> SUFFICES ASSUME NEW j \in Key
               PROVE  Exact(pages[j], j)' /\ Exact(fetch[j].got, j)'
    BY DEF RestFits
  <2>1. pages'[j] = << >> /\ fetch'[j].got = << >>
    BY <1>1, IdleFits
  <2>2. DOMAIN << >> = {}
    OBVIOUS
  <2> QED BY <2>1, <2>2 DEF Exact
<1>9. CountsFit'
  BY <1>1, FeedAssumption DEF FeedInv, CountsFit, Move
<1> QED BY <1>4, <1>5, <1>7, <1>8, <1>9 DEF FeedInv

-----------------------------------------------------------------------------
(* The ranking *)

\* A list with one more entry in front
LEMMA Preceded ==
  ASSUME NEW T, NEW s \in Seq(T), NEW e \in T
  PROVE  /\ <<e>> \o s \in Seq(T)
         /\ ToSet(<<e>> \o s) = ToSet(s) \cup {e}
         /\ NoneTwice(s) /\ e \notin ToSet(s) => NoneTwice(<<e>> \o s)
<1>1. PICK b : b = <<e>>
  OBVIOUS
<1>2. b \in Seq(T) /\ Len(b) = 1 /\ b[1] = e
  BY <1>1
<1>3. b \in Seq(T) /\ s \in Seq(T)
  BY <1>2
<1>4. PICK r : r = b \o s
  OBVIOUS
<1>5. Len(s) \in Nat /\ DOMAIN s = 1..Len(s)
  OBVIOUS
<1>6. r \in Seq(T) /\ Len(r) = Len(b) + Len(s)
  BY <1>4, <1>3
<1>7. DOMAIN r = 1..(Len(s) + 1)
  BY <1>2, <1>5, <1>6
<1>8. r[1] = e
  <2>1. \A j \in 1..Len(b) : r[j] = b[j]
    BY <1>4, <1>3
  <2> QED BY <1>2, <2>1
<1>9. \A j \in 1..Len(s) : r[1 + j] = s[j]
  <2>1. \A j \in 1..Len(s) : r[Len(b) + j] = s[j]
    BY <1>4, <1>3
  <2> QED BY <1>2, <2>1
<1>10. \A i \in DOMAIN r : i # 1 => i - 1 \in DOMAIN s /\ r[i] = s[i - 1]
  <2> SUFFICES ASSUME NEW i \in DOMAIN r, i # 1
               PROVE  i - 1 \in DOMAIN s /\ r[i] = s[i - 1]
    OBVIOUS
  <2>1. i - 1 \in 1..Len(s) /\ 1 + (i - 1) = i
    BY <1>5, <1>7
  <2> QED BY <1>5, <1>9, <2>1
<1>11. \A j \in DOMAIN s : 1 + j \in DOMAIN r /\ r[1 + j] = s[j]
  BY <1>5, <1>7, <1>9
<1>12. 1 \in DOMAIN r
  BY <1>5, <1>7
<1>13. ToSet(r) = ToSet(s) \cup {e}
  BY <1>8, <1>10, <1>11, <1>12 DEF ToSet
<1>14. ASSUME NoneTwice(s), e \notin ToSet(s), NEW i \in DOMAIN r, NEW j \in DOMAIN r,
              r[i] = r[j]
       PROVE  i = j
  <2>1. i \in Nat /\ j \in Nat
    BY <1>5, <1>7
  <2>2. \A m \in DOMAIN s : s[m] # e
    BY <1>14 DEF ToSet
  <2>3. (i = 1) <=> (j = 1)
    BY <1>8, <1>10, <1>14, <2>2
  <2>4. i # 1 => i - 1 = j - 1
    BY <1>10, <1>14, <2>3 DEF NoneTwice
  <2> QED BY <2>1, <2>3, <2>4
<1> QED BY <1>1, <1>4, <1>6, <1>13, <1>14 DEF NoneTwice

\* Once the ranking moves, nothing is claimed of the pages.
LEMMA RankingStep ==
  ASSUME FeedInv, NEW new, Change(new), RankingFits'
  PROVE  FeedInv'
<1>1. /\ changes < MaxChanges /\ changes' = changes + 1
      /\ UNCHANGED <<url, view, query, moves, failures>>
  BY DEF Change
<1>2. CountsFit' /\ changes' # 0
  BY <1>1, FeedAssumption DEF FeedInv, CountsFit
<1>3. UrlFits'
  BY <1>1 DEF FeedInv, UrlFits, UrlShowsPage, url, view
<1>4. QueryFits'
  BY <1>1 DEF FeedInv, QueryFits, query
<1>5. RestFits'
  BY <1>2 DEF RestFits
<1> QED BY <1>2, <1>3, <1>4, <1>5 DEF FeedInv

\* The lists of the ranking
LEMMA ListsTyped ==
  ASSUME FeedInv
  PROVE  /\ ranking \in [Strategy -> Seq(Post)]
         /\ ranking["new"] \in Seq(Post) /\ NoneTwice(ranking["new"])
         /\ ranking["trending"] \in Seq(Post) /\ NoneTwice(ranking["trending"])
         /\ ToSet(ranking["trending"]) \subseteq ToSet(ranking["new"])
         /\ ToSet(ranking["trending"]) \subseteq Post
<1>1. "new" \in Strategy /\ "trending" \in Strategy
  BY DEF Strategy
<1>2. ranking \in [Strategy -> Seq(Post)]
  BY DEF FeedInv, RankingFits
<1>3. ranking["trending"] \in Seq(Post) /\ ranking["new"] \in Seq(Post)
  BY <1>1, <1>2
<1>4. ToSet(ranking["trending"]) \subseteq Post
  BY <1>3 DEF ToSet
<1> QED BY <1>2, <1>3, <1>4 DEF FeedInv, RankingFits

\* A new post comes first.
LEMMA PublishStep ==
  ASSUME FeedInv, NEW p \in Post, Publish(p)
  PROVE  FeedInv'
<1>1. PICK new : new = [s \in Strategy |-> <<p>> \o ranking[s]]
  OBVIOUS
<1>2. p \notin ToSet(ranking["new"]) /\ Change(new)
  BY <1>1 DEF Publish
<1>3. p \notin ToSet(ranking["trending"])
  BY <1>2, ListsTyped
<1>4. PICK a : a = <<p>> \o ranking["new"]
  OBVIOUS
<1>5. PICK b : b = <<p>> \o ranking["trending"]
  OBVIOUS
<1>6. a \in Seq(Post) /\ ToSet(a) = ToSet(ranking["new"]) \cup {p} /\ NoneTwice(a)
  BY <1>2, <1>4, ListsTyped, Preceded
<1>7. b \in Seq(Post) /\ ToSet(b) = ToSet(ranking["trending"]) \cup {p} /\ NoneTwice(b)
  BY <1>3, <1>5, ListsTyped, Preceded
<1>8. ToSet(b) \subseteq ToSet(a)
  BY <1>6, <1>7, ListsTyped
<1>9. new["new"] = a /\ new["trending"] = b /\ new \in [Strategy -> Seq(Post)]
  BY <1>1, <1>4, <1>5, <1>6, <1>7 DEF Strategy
<1>10. ranking' = new
  BY <1>2 DEF Change
<1>11. RankingFits'
  BY <1>6, <1>7, <1>8, <1>9, <1>10 DEF RankingFits
<1> QED BY <1>2, <1>11, RankingStep

\* Trending may become any list of what it has or had.
LEMMA TrendingStep ==
  ASSUME FeedInv, NEW l \in Seq(Post), NoneTwice(l),
         ToSet(l) \subseteq ToSet(ranking["trending"]),
         Change([ranking EXCEPT !["trending"] = l])
  PROVE  FeedInv'
<1>1. PICK new : new = [ranking EXCEPT !["trending"] = l]
  OBVIOUS
<1>2. new["new"] = ranking["new"] /\ new["trending"] = l /\ new \in [Strategy -> Seq(Post)]
  BY <1>1, ListsTyped DEF Strategy
<1>3. ranking' = new /\ Change(new)
  BY <1>1 DEF Change
<1>4. RankingFits'
  BY <1>2, <1>3, ListsTyped DEF RankingFits
<1> QED BY <1>3, <1>4, RankingStep

\* A post leaves the trending list ...
LEMMA ExpireStep ==
  ASSUME FeedInv, NEW p \in Post, Expire(p)
  PROVE  FeedInv'
<1>1. PICK l : l = Filter(ranking["trending"], Post \ {p})
  OBVIOUS
<1>2. Change([ranking EXCEPT !["trending"] = l])
  BY <1>1, ListsTyped DEF Expire, Strategy
<1>3. l \in Seq(Post) /\ NoneTwice(l) /\ ToSet(l) \subseteq ToSet(ranking["trending"])
  BY <1>1, ListsTyped, FilterSet
<1> QED BY <1>2, <1>3, TrendingStep

\* ... or goes to another place of it.
LEMMA ReorderStep ==
  ASSUME FeedInv, NEW p \in Post, NEW i \in 1..Len(ranking["trending"]), Reorder(p, i)
  PROVE  FeedInv'
<1>1. PICK r : r = ranking["trending"]
  OBVIOUS
<1>2. r \in Seq(Post) /\ NoneTwice(r) /\ ToSet(r) \subseteq Post /\ p \in ToSet(r)
  BY <1>1, ListsTyped DEF Reorder
<1>3. PICK l : l = Filter(r, Post \ {p})
  OBVIOUS
<1>4. l \in Seq(Post) /\ NoneTwice(l) /\ ToSet(l) = ToSet(r) \ {p}
  BY <1>2, <1>3, FilterSet
<1>5. Len(r) \in Nat /\ Len(l) \in Nat
  BY <1>2, <1>4
<1>6. Len(l) = Len(r) - 1
  <2>1. IsFiniteSet(ToSet(r)) /\ Cardinality(ToSet(r)) = Len(r)
    BY <1>2, LenIsSize
  <2>2. Cardinality(ToSet(l)) = Len(l)
    BY <1>4, LenIsSize
  <2>3. Cardinality(ToSet(r) \ {p}) = Cardinality(ToSet(r)) - 1
    BY <1>2, <2>1, FS_RemoveElement
  <2> QED BY <1>4, <2>1, <2>2, <2>3
<1>7. i \in 1..(Len(l) + 1)
  BY <1>1, <1>5, <1>6
<1>8. PICK m : m = InsertAt(l, i, p)
  OBVIOUS
<1>9. p \notin ToSet(l)
  BY <1>4
<1>10. m \in Seq(Post) /\ ToSet(m) = ToSet(l) \cup {p} /\ NoneTwice(m)
  BY <1>4, <1>7, <1>8, <1>9, Inserted
<1>11. ToSet(m) \subseteq ToSet(ranking["trending"])
  BY <1>1, <1>2, <1>4, <1>10
<1>12. Change([ranking EXCEPT !["trending"] = m])
  BY <1>1, <1>3, <1>8, ListsTyped DEF Reorder, Strategy
<1> QED BY <1>10, <1>11, <1>12, TrendingStep

-----------------------------------------------------------------------------
(* The invariant holds. *)

\* The first ranking: the posts in some order, the recent ones among them
LEMMA FirstRanking ==
  ASSUME NEW S \in SUBSET Post, NEW R \in SUBSET S, NEW o \in Orders(S),
         ranking = [s \in Strategy |-> IF s = "new" THEN o ELSE Filter(o, R)]
  PROVE  RankingFits
<1>1. Cardinality(S) \in Nat
  BY FeedAssumption, FS_Subset, FS_CardinalityType
<1>2. o \in [1..Cardinality(S) -> Post] /\ NoneTwice(o)
  BY DEF Orders, NoneTwice
<1>3. o \in Seq(Post)
  BY <1>1, <1>2
<1>4. PICK t : t = Filter(o, R)
  OBVIOUS
<1>5. t \in Seq(Post) /\ NoneTwice(t) /\ ToSet(t) \subseteq ToSet(o)
  BY <1>2, <1>3, <1>4, FilterSet
<1>6. ranking["new"] = o /\ ranking["trending"] = t /\ ranking \in [Strategy -> Seq(Post)]
  BY <1>3, <1>4, <1>5 DEF Strategy
<1> QED BY <1>2, <1>5, <1>6 DEF RankingFits

\* The invariant holds at the start.
LEMMA FeedInvInit == Init => FeedInv
<1> SUFFICES ASSUME Init PROVE FeedInv
  OBVIOUS
<1>1. /\ history = <<Home>> /\ at = 1 /\ events = 0
      /\ page = "feed" /\ channel = None /\ strategy = "trending"
      /\ pages = [k \in Key |-> << >>] /\ fetch = [k \in Key |-> Idle]
      /\ moves = 0 /\ changes = 0 /\ failures = 0
  BY DEF Init
<1>2. UrlFits
  <2>1. Home \in HashSet /\ PageOf(Home) = "feed" /\ Home.channel = None
    BY DEF Home, Hash, HashSet, PageOf, Paths, Opt
  <2>2. PICK h : h = Home
    OBVIOUS
  <2>3. PICK H : H = HashSet
    OBVIOUS
  <2>4. <<h>> \in Seq(H) /\ 1 \in DOMAIN <<h>> /\ <<h>>[1] = h
    BY <2>1, <2>2, <2>3
  <2>5. history \in Seq(HashSet) /\ at \in DOMAIN history /\ history[at] = Home
    BY <1>1, <2>2, <2>3, <2>4
  <2> QED BY <1>1, <2>1, <2>5 DEF UrlFits, UrlShowsPage, Opt, Strategy
<1>3. RankingFits
  <2>1. PICK S \in SUBSET Post : \E R \in SUBSET S, o \in Orders(S) :
          ranking = [s \in Strategy |-> IF s = "new" THEN o ELSE Filter(o, R)]
    BY DEF Init
  <2>2. PICK R \in SUBSET S, o \in Orders(S) :
          ranking = [s \in Strategy |-> IF s = "new" THEN o ELSE Filter(o, R)]
    BY <2>1
  <2> QED BY <2>2, FirstRanking
<1>4. << >> \in Seq(ResultPage)
  OBVIOUS
<1>5. QueryFits
  <2>1. pages \in [Key -> Seq(ResultPage)]
    BY <1>1, <1>4
  <2>2. fetch = [k \in Key |-> fetch[k]] /\ \A k \in Key : RequestFits(fetch[k], k)
    BY <1>1, IdleFits
  <2> QED BY <2>1, <2>2 DEF QueryFits
<1>6. RestFits
  <2>1. \A k \in Key : pages[k] = << >> /\ fetch[k].got = << >>
    BY <1>1, IdleFits
  <2>2. DOMAIN << >> = {}
    OBVIOUS
  <2> QED BY <2>1, <2>2 DEF RestFits, Exact
<1>7. CountsFit
  BY <1>1, FeedAssumption DEF CountsFit
<1> QED BY <1>2, <1>3, <1>5, <1>6, <1>7 DEF FeedInv

\* Every step keeps it.
LEMMA FeedInvStep == FeedInv /\ [Next]_vars => FeedInv'
<1> SUFFICES ASSUME FeedInv, [Next]_vars PROVE FeedInv'
  OBVIOUS
<1>1. CASE User
  <2>1. ASSUME NEW h \in Links, Navigate(h) PROVE FeedInv'
    BY <2>1, NavigateStep
  <2>2. ASSUME NEW c \in Opt(Channel), SelectChannel(c) PROVE FeedInv'
    BY <2>2, SelectChannelStep
  <2>3. ASSUME NEW s \in Strategy, SetStrategy(s) PROVE FeedInv'
    BY <2>3, SetStrategyStep
  <2> QED BY <1>1, <2>1, <2>2, <2>3, BackStep, ReloadStep DEF User
<1>2. CASE HashChange
  BY <1>2, HashChangeStep
<1>3. CASE StartRefetch
  BY <1>3, StartRefetchStep
<1>4. CASE Invalidate
  BY <1>4, InvalidateStep
<1>5. CASE FetchNextPage
  BY <1>5, FetchNextPageStep
<1>6. CASE \E k \in Key : Answer(k)
  BY <1>6, AnswerStep
<1>7. CASE \E k \in Key : FetchFails(k)
  BY <1>7, FetchFailsStep
<1>8. CASE \E p \in Post : Publish(p)
  BY <1>8, PublishStep
<1>9. CASE \E p \in Post, i \in 1..Len(ranking["trending"]) : Reorder(p, i)
  BY <1>9, ReorderStep
<1>10. CASE \E p \in Post : Expire(p)
  BY <1>10, ExpireStep
<1>11. CASE UNCHANGED vars
  <2>1. UNCHANGED <<url, view, query, ranking, moves, changes, failures>>
    BY <1>11 DEF vars
  <2>2. UrlFits'
    BY <2>1 DEF FeedInv, UrlFits, UrlShowsPage, url, view
  <2> QED BY <2>1, <2>2, UrlStep
<1> QED
  BY <1>1, <1>2, <1>3, <1>4, <1>5, <1>6, <1>7, <1>8, <1>9, <1>10, <1>11 DEF Next

\* So it holds always.
THEOREM FeedInvAlways == Spec => []FeedInv
<1> QED BY FeedInvInit, FeedInvStep, PTL DEF Spec

-----------------------------------------------------------------------------
(* The theorems *)

\* The browser, the feed and its requests are always what the code can work with:
\* no page is larger than PAGE_SIZE, no request has more pages than it wants
\* (Feed.tsx, router.ts).
THEOREM FeedTyping == Spec => []TypeOK
<1>1. FeedInv => TypeOK
  <2> SUFFICES ASSUME FeedInv PROVE TypeOK
    OBVIOUS
  <2>1. /\ at \in DOMAIN history /\ events \in Nat
        /\ page \in Paths \cup {"feed"} /\ channel \in Opt(Channel) /\ strategy \in Strategy
    BY DEF FeedInv, UrlFits
  <2>2. \A i \in DOMAIN history : history[i] \in [path : Paths \cup {""}, channel : Opt(Channel)]
    BY EntryTyped DEF HashSet
  <2>3. ASSUME NEW k \in Key, NEW i \in DOMAIN pages[k]
        PROVE  pages[k][i].posts \in Seq(Post) /\ Len(pages[k][i].posts) <= PAGE_SIZE
    <3>1. pages[k][i] \in ResultPage
      <4>1. pages[k] \in Seq(ResultPage)
        BY DEF FeedInv, QueryFits
      <4> HIDE DEF ResultPage
      <4> QED BY <4>1
    <3> QED BY <3>1 DEF ResultPage
  <2>4. ASSUME NEW k \in Key
        PROVE  Len(fetch[k].got) <= fetch[k].want
    <3>1. RequestFits(fetch[k], k)
      BY DEF FeedInv, QueryFits
    <3>2. CASE fetch[k] = Idle
      BY <3>2 DEF Idle
    <3>3. CASE fetch[k] # Idle
      <4>1. fetch[k] \in Request /\ Len(fetch[k].got) < fetch[k].want
        BY <3>1, <3>3 DEF RequestFits
      <4>2. fetch[k].want \in Nat /\ fetch[k].got \in Seq(ResultPage)
        BY <4>1 DEF Request
      <4> HIDE DEF ResultPage
      <4>3. Len(fetch[k].got) \in Nat
        BY <4>2
      <4> QED BY <4>1, <4>2, <4>3
    <3> QED BY <3>2, <3>3
  <2>5. ranking \in [Strategy -> Seq(Post)]
    BY DEF FeedInv, RankingFits
  <2>6. moves \in 0..MaxMoves /\ changes \in 0..MaxChanges /\ failures \in 0..MaxFailures
    BY DEF FeedInv, CountsFit
  <2> QED BY <2>1, <2>2, <2>3, <2>4, <2>5, <2>6 DEF TypeOK
<1> QED BY <1>1, FeedInvAlways, PTL

\* Once no event waits, the page and the channel filter are those of the URL,
\* whatever the user did meanwhile (useRoute of router.ts, setChannel and the
\* handler of hashchange in Feed.tsx).
THEOREM PageFollowsUrl == Spec => []UrlShowsPage
<1>1. FeedInv => UrlShowsPage
  BY DEF FeedInv, UrlFits
<1> QED BY <1>1, FeedInvAlways, PTL

\* All of a list is the list.
LEMMA WholeList == ASSUME NEW T, NEW s \in Seq(T) PROVE SubSeq(s, 1, Len(s)) = s
<1>1. Len(s) \in Nat
  OBVIOUS
<1>2. PICK q : q = SubSeq(s, 1, Len(s))
  OBVIOUS
<1>3. q \in Seq(T) /\ Len(q) = Len(s) /\ \A i \in 1..Len(s) : q[i] = s[i]
  BY <1>1, <1>2
<1>4. q = s
  BY <1>3, SameEntries
<1> QED BY <1>2, <1>4

\* The beginning of a list is a prefix of it.
LEMMA BeginningIsPrefix ==
  ASSUME NEW T, NEW r \in Seq(T), NEW e \in Nat, e <= Len(r), NEW q, q = SubSeq(r, 1, e)
  PROVE  q \in Seq(T) /\ Len(q) = e /\ IsPrefix(q, r)
<1>1. q \in Seq(T) /\ Len(q) = e
  OBVIOUS
<1>2. SubSeq(q, 1, Len(q)) = q
  BY <1>1, WholeList
<1>3. SubSeq(q, 1, Len(q)) = SubSeq(r, 1, Len(q))
  BY <1>1, <1>2
<1> QED BY <1>1, <1>3 DEF IsPrefix

\* Pages that are those of the ranking show the beginning of it.
LEMMA ExactShows ==
  ASSUME RankingFits, NEW s \in Strategy, NEW c, NEW ps \in Seq(ResultPage), ps # << >>,
         Exact(ps, <<s, c>>)
  PROVE  Fits(ps, s, c)
<1>1. PICK r : r = Ranked(s, c)
  OBVIOUS
<1>2. r \in Seq(Post) /\ Len(r) \in Nat /\ Total(c) \in Nat /\ Len(r) <= Total(c)
  BY <1>1, RankedTyped, TotalIsEnough
<1>3. PICK l : l = Len(ps)
  OBVIOUS
<1>4. l \in Nat /\ l > 0 /\ DOMAIN ps = 1..l
  <2> HIDE DEF ResultPage
  <2> QED BY <1>3
<1>5. ASSUME NEW i \in 1..l
      PROVE  /\ ps[i].total = Total(c) /\ ps[i].posts \in Seq(Post)
             /\ ps[i].posts = SubSeq(r, (i - 1) * PAGE_SIZE + 1, Upto(r, i * PAGE_SIZE))
  <2>1. ps[i] = GetFeed(s, c, i)
    BY <1>4 DEF Exact
  <2>2. i \in Nat /\ i > 0
    BY <1>4
  <2>3. /\ GetFeed(s, c, i) \in ResultPage
        /\ GetFeed(s, c, i).total = Total(c)
        /\ GetFeed(s, c, i).posts = SubSeq(Ranked(s, c), (i - 1) * PAGE_SIZE + 1,
                                           Upto(Ranked(s, c), i * PAGE_SIZE))
    BY <2>2, FeedTyped
  <2>4. GetFeed(s, c, i).posts \in Seq(Post)
    BY <2>3 DEF ResultPage
  <2> QED BY <1>1, <2>1, <2>3, <2>4
<1>6. PICK x : x = [i \in DOMAIN ps |-> ps[i].posts]
  OBVIOUS
<1>7. x \in Seq(Seq(Post)) /\ Len(x) = l
  <2>1. PICK Q : Q = Seq(Post)
    OBVIOUS
  <2>2. x \in [1..l -> Q]
    BY <1>4, <1>5, <1>6, <2>1
  <2>3. x \in Seq(Q) /\ Len(x) = l
    BY <1>4, <2>2
  <2> QED BY <2>1, <2>3
<1>8. \A i \in 1..Len(x) :
        x[i] = SubSeq(r, (i - 1) * PAGE_SIZE + 1, Upto(r, i * PAGE_SIZE))
  BY <1>4, <1>5, <1>6, <1>7
<1>9. PICK m : m = l * PAGE_SIZE
  OBVIOUS
<1>10. PAGE_SIZE \in Nat /\ m \in Nat
  <2>1. \A y \in Nat, z \in Nat : y * z \in Nat
    OBVIOUS
  <2>2. PAGE_SIZE \in Nat
    BY FeedAssumption
  <2> QED BY <1>4, <1>9, <2>1, <2>2
<1>11. FlattenSeq(x) = SubSeq(r, 1, Upto(r, m))
  <2>1. Len(x) \in Nat /\ Len(x) > 0
    BY <1>4, <1>7
  <2>2. FlattenSeq(x) = SubSeq(r, 1, Upto(r, Len(x) * PAGE_SIZE))
    BY <1>2, <1>8, <1>10, <2>1, PagesJoin
  <2> QED BY <1>7, <1>9, <2>2
<1>12. PICK e : e = Upto(r, m)
  OBVIOUS
<1>13. e \in Nat /\ e <= Len(r) /\ e = IF m < Len(r) THEN m ELSE Len(r)
  BY <1>2, <1>10, <1>12 DEF Upto
<1>14. PICK sh : sh = Shown(ps)
  OBVIOUS
<1>15. sh = SubSeq(r, 1, e)
  BY <1>6, <1>11, <1>12, <1>14 DEF Shown
<1>16. sh \in Seq(Post) /\ Len(sh) = e /\ IsPrefix(sh, r)
  <2>1. r \in Seq(Post)
    BY <1>2
  <2>2. e \in Nat /\ e <= Len(r)
    BY <1>13
  <2> QED BY <1>15, <2>1, <2>2, BeginningIsPrefix
<1>17. m < Len(r) => Len(sh) = m
  BY <1>13, <1>16
<1>18. ASSUME ~ HasNextPage(ps) PROVE sh = r
  <2>1. NextPageParam(ps) = 0
    BY <1>18 DEF HasNextPage
  <2>2. l + 1 # 0
    BY <1>4
  <2>3. ~(m < Last(ps).total)
    BY <1>3, <1>9, <2>1, <2>2 DEF NextPageParam
  <2>4. Last(ps).total = Total(c)
    <3>1. Last(ps) = ps[l]
      BY <1>3 DEF Last
    <3>2. l \in 1..l
      BY <1>4
    <3> QED BY <1>5, <3>1, <3>2
  <2>5. e = Len(r)
    BY <1>2, <1>10, <1>13, <2>3, <2>4
  <2> QED BY <1>2, <1>15, <2>5, WholeList
<1> QED BY <1>1, <1>3, <1>9, <1>14, <1>16, <1>17, <1>18 DEF Fits

\* As long as the ranking rests, what is loaded for the selection is the beginning
\* of the ranking, without gaps or repetitions, and all of it once there is no next
\* page; for every number of posts and channels and every size of a page, through
\* failed, restarted and interleaved requests (queryKey and getNextPageParam of
\* Feed.tsx, handleFeed).
THEOREM FeedShowsRanking == Spec => []FeedIsPrefix
<1>1. FeedInv => FeedIsPrefix
  <2> SUFFICES ASSUME FeedInv, changes = 0, pages[CurrentKey] # << >>
               PROVE  Fits(pages[CurrentKey], strategy, channel)
    BY DEF FeedIsPrefix
  <2>1. PICK k : k = CurrentKey
    OBVIOUS
  <2>2. k \in Key /\ <<strategy, channel>> = k /\ strategy \in Strategy
    BY <2>1, CurrentTyped DEF FeedInv, UrlFits
  <2>3. PICK ps : ps = pages[k]
    OBVIOUS
  <2>4. ps \in Seq(ResultPage) /\ ps # << >>
    BY <2>1, <2>2, <2>3 DEF FeedInv, QueryFits
  <2>5. Exact(ps, <<strategy, channel>>)
    BY <2>2, <2>3 DEF FeedInv, RestFits
  <2>6. Fits(ps, strategy, channel)
    BY <2>2, <2>4, <2>5, ExactShows DEF FeedInv
  <2> QED BY <2>1, <2>3, <2>6
<1> QED BY <1>1, FeedInvAlways, PTL
=============================================================================
