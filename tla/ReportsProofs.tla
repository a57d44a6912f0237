---------------------------- MODULE ReportsProofs ----------------------------
(***************************************************************************)
(* Proofs about Reports, for any users, page sizes, audit log and number   *)
(* of clients that read.                                                   *)
(***************************************************************************)
EXTENDS Reports, AccountsProofs, FiniteSetTheorems, SequenceTheorems

-----------------------------------------------------------------------------
(***************************************************************************)
(* Lists.                                                                  *)
(***************************************************************************)

\* Among naturals, whatever some have, one is the first to have.
LEMMA First ==
    ASSUME NEW S \in SUBSET Nat, S # {}
    PROVE  \E n \in S : \A m \in S : n <= m
<1>1. PICK n \in S : \A m \in S : ~(<<m, n>> \in OpToRel(<, Nat))
  BY NatLessThanWellFounded, WFMin
<1>2. ASSUME NEW m \in S
      PROVE  ~(m < n)
  <2>1. <<m, n>> \in Nat \X Nat /\ <<m, n>>[1] = m /\ <<m, n>>[2] = n
    OBVIOUS
  <2>2. QED
    BY <1>1, <2>1, Zenon DEF OpToRel
<1>3. QED
  BY <1>2

\* SetToSeq lists every element of a finite set, none twice.
LEMMA SetListed ==
    ASSUME NEW S, IsFiniteSet(S)
    PROVE  /\ SetToSeq(S) \in Seq(S)
           /\ IsInjective(SetToSeq(S))
           /\ Range(SetToSeq(S)) = S
<1> DEFINE n == Cardinality(S)
           f == SetToSeq(S)
<1>1. n \in Nat /\ IsFiniteSet(1..n) /\ Cardinality(1..n) = n
  BY FS_CardinalityType, FS_Interval
<1>2. \E g \in [1..n -> S] : IsInjective(g)
  BY FS_CardinalityType DEF ExistsBijection, Bijection, Injection
<1>3. f \in [1..n -> S] /\ IsInjective(f)
  BY <1>2 DEF SetToSeq
<1>4. f \in Surjection(1..n, S)
  BY <1>1, <1>3, FS_Injection DEF Injection
<1>5. Range(f) = S
  BY <1>4 DEF Surjection, Range
<1>6. f \in Seq(S)
  BY <1>1, <1>3
<1>7. QED
  BY <1>3, <1>5, <1>6

\* Two lists with no row in common, one after the other.
LEMMA Joined ==
    ASSUME NEW S, NEW T, NEW s \in Seq(S), NEW t \in Seq(T)
    PROVE  /\ s \o t \in Seq(S \cup T)
           /\ Range(s \o t) = Range(s) \cup Range(t)
           /\ IsInjective(s) /\ IsInjective(t) /\ Range(s) \cap Range(t) = {}
                 => IsInjective(s \o t)
<1>1. /\ Len(s) \in Nat /\ Len(t) \in Nat /\ DOMAIN s = 1..Len(s) /\ DOMAIN t = 1..Len(t)
      /\ s \o t \in Seq(S \cup T) /\ DOMAIN (s \o t) = 1..(Len(s) + Len(t))
      /\ \A i \in 1..(Len(s) + Len(t)) : (s \o t)[i] = IF i <= Len(s) THEN s[i] ELSE t[i - Len(s)]
  OBVIOUS
<1> DEFINE st == s \o t
<1> HIDE DEF st
<1>2. Range(st) \subseteq Range(s) \cup Range(t)
  <2>1. SUFFICES ASSUME NEW i \in 1..(Len(s) + Len(t))
                 PROVE  st[i] \in Range(s) \cup Range(t)
    BY <1>1 DEF st, Range
  <2>2. CASE i <= Len(s)
    BY <1>1, <2>2 DEF st, Range
  <2>3. CASE ~(i <= Len(s))
    <3>1. i - Len(s) \in 1..Len(t)
      BY <1>1, <2>3
    <3>2. QED
      BY <1>1, <2>3, <3>1 DEF st, Range
  <2>4. QED
    BY <2>2, <2>3
<1>3. Range(s) \subseteq Range(st)
  <2>1. SUFFICES ASSUME NEW i \in 1..Len(s)
                 PROVE  s[i] \in Range(st)
    BY <1>1 DEF Range
  <2>2. i \in 1..(Len(s) + Len(t)) /\ i <= Len(s)
    BY <1>1
  <2>3. QED
    BY <1>1, <2>2 DEF st, Range
<1>4. Range(t) \subseteq Range(st)
  <2>1. SUFFICES ASSUME NEW i \in 1..Len(t)
                 PROVE  t[i] \in Range(st)
    BY <1>1 DEF Range
  <2>2. i + Len(s) \in 1..(Len(s) + Len(t)) /\ ~(i + Len(s) <= Len(s)) /\ i + Len(s) - Len(s) = i
    BY <1>1
  <2>3. QED
    BY <1>1, <2>2 DEF st, Range
<1>5. ASSUME IsInjective(s), IsInjective(t), Range(s) \cap Range(t) = {}
      PROVE  IsInjective(st)
  <2>1. SUFFICES ASSUME NEW i \in 1..(Len(s) + Len(t)), NEW j \in 1..(Len(s) + Len(t)), st[i] = st[j]
                 PROVE  i = j
    BY <1>1 DEF st, IsInjective
  <2>2. CASE i <= Len(s) /\ j <= Len(s)
    BY <1>1, <1>5, <2>1, <2>2 DEF st, IsInjective
  <2>3. CASE ~(i <= Len(s)) /\ ~(j <= Len(s))
    <3>1. i - Len(s) \in 1..Len(t) /\ j - Len(s) \in 1..Len(t)
      BY <1>1, <2>3
    <3>2. i - Len(s) = j - Len(s)
      BY <1>1, <1>5, <2>1, <2>3, <3>1 DEF st, IsInjective
    <3>3. QED
      BY <1>1, <3>2
  <2>4. ASSUME NEW k \in 1..Len(s), NEW l \in 1..Len(t)
        PROVE  s[k] # t[l]
    BY <1>1, <1>5 DEF Range
  <2>5. CASE i <= Len(s) /\ ~(j <= Len(s))
    <3>1. i \in 1..Len(s) /\ j - Len(s) \in 1..Len(t)
      BY <1>1, <2>5
    <3>2. QED
      BY <1>1, <2>1, <2>4, <2>5, <3>1 DEF st
  <2>6. CASE ~(i <= Len(s)) /\ j <= Len(s)
    <3>1. j \in 1..Len(s) /\ i - Len(s) \in 1..Len(t)
      BY <1>1, <2>6
    <3>2. QED
      BY <1>1, <2>1, <2>4, <2>6, <3>1 DEF st
  <2>7. QED
    BY <2>2, <2>3, <2>5, <2>6
<1>6. QED
  BY <1>1, <1>2, <1>3, <1>4, <1>5 DEF st

\* What findAll returns are rows of the table, none twice, whatever the filter.
LEMMA UsersListed ==
    ASSUME NEW S, NEW byAge \in Seq(S), IsInjective(byAge), NEW filter, NEW active, NEW deleted
    PROVE  /\ ListedUsers(filter, active, deleted, byAge) \in Seq(S)
           /\ IsInjective(ListedUsers(filter, active, deleted, byAge))
<1> DEFINE selected == {i \in DOMAIN byAge :
                           ~deleted[byAge[i]] /\ filter \in {NoFilter, active[byAge[i]]}}
           upTo(i) == Cardinality(selected \cap 1..i)
           kth(k) == CHOOSE i \in selected : upTo(i) = k
<1>1. DOMAIN byAge = 1..Len(byAge) /\ Len(byAge) \in Nat /\ selected \subseteq 1..Len(byAge)
  OBVIOUS
<1>2. IsFiniteSet(selected) /\ Cardinality(selected) \in Nat
  <2>1. IsFiniteSet(1..Len(byAge)) /\ selected \in SUBSET (1..Len(byAge))
    BY <1>1, FS_Interval
  <2>2. QED
    BY ONLY <2>1, FS_Subset, FS_CardinalityType
<1> HIDE DEF selected
<1>3. ASSUME NEW i \in Nat
      PROVE  upTo(i) \in Nat
  BY <1>2, FS_Intersection, FS_CardinalityType
<1>4. ASSUME NEW k \in 1..Cardinality(selected)
      PROVE  kth(k) \in selected /\ upTo(kth(k)) = k
  <2> HIDE DEF upTo
  <2> DEFINE enough == {i \in Nat : upTo(i) >= k}
  <2>1. selected \cap 1..Len(byAge) = selected
    BY <1>1
  <2>2. Len(byAge) \in enough
    <3>1. upTo(Len(byAge)) = Cardinality(selected)
      BY ONLY <2>1 DEF upTo
    <3>2. Cardinality(selected) >= k
      BY <1>2
    <3>3. QED
      BY <1>1, <3>1, <3>2
  <2>3. PICK i \in enough : \A j \in enough : i <= j
    <3>1. enough \in SUBSET Nat /\ enough # {}
      BY <2>2
    <3>2. QED
      BY ONLY <3>1, First
  <2>4. i \in Nat /\ upTo(i) >= k
    BY <2>3
  <2>5. i # 0
    <3>1. selected \cap 1..0 = {}
      OBVIOUS
    <3>2. upTo(0) = 0
      BY ONLY <3>1, FS_EmptySet DEF upTo
    <3>3. QED
      BY <2>4, <3>2
  <2>6. i - 1 \in Nat /\ ~(upTo(i - 1) >= k)
    <3>1. i - 1 \in Nat /\ ~(i <= i - 1)
      BY <2>4, <2>5
    <3>2. QED
      BY <2>3, <3>1
  <2>7. 1..i = (1..(i - 1)) \cup {i}
    BY <2>4, <2>5
  <2>8. IsFiniteSet(selected \cap 1..(i - 1)) /\ i \notin selected \cap 1..(i - 1)
    <3>1. IsFiniteSet(selected \cap 1..(i - 1))
      BY ONLY <1>2, FS_Intersection
    <3>2. i \notin 1..(i - 1)
      BY <2>4
    <3>3. QED
      BY <3>1, <3>2
  <2>9. i \in selected
    <3>1. SUFFICES ASSUME i \notin selected
                   PROVE  FALSE
      OBVIOUS
    <3>2. selected \cap 1..i = selected \cap 1..(i - 1)
      BY <2>7, <3>1
    <3>3. QED
      BY <2>4, <2>6, <3>2 DEF upTo
  <2>10. upTo(i) = upTo(i - 1) + 1
    <3>1. selected \cap 1..i = (selected \cap 1..(i - 1)) \cup {i}
      BY <2>7, <2>9
    <3>2. QED
      BY ONLY <2>8, <3>1, FS_AddElement DEF upTo
  <2>11. upTo(i) = k
    <3>1. upTo(i - 1) \in Nat
      BY <2>6, <1>3
    <3>2. QED
      BY <2>4, <2>6, <2>10, <3>1
  <2>12. QED
    BY <2>9, <2>11
<1>5. ListedUsers(filter, active, deleted, byAge) = [k \in 1..Cardinality(selected) |-> byAge[kth(k)]]
  BY DEF ListedUsers, selected
<1> HIDE DEF kth
<1>6. \A k \in 1..Cardinality(selected) : kth(k) \in 1..Len(byAge) /\ byAge[kth(k)] \in S
  <2> TAKE k \in 1..Cardinality(selected)
  <2>1. kth(k) \in selected
    BY <1>4
  <2>2. \A i \in 1..Len(byAge) : byAge[i] \in S
    OBVIOUS
  <2>3. kth(k) \in 1..Len(byAge)
    BY <1>1, <2>1
  <2>4. QED
    BY <2>2, <2>3
<1>7. ASSUME NEW k \in 1..Cardinality(selected), NEW l \in 1..Cardinality(selected),
             byAge[kth(k)] = byAge[kth(l)]
      PROVE  k = l
  <2>1. kth(k) = kth(l)
    BY <1>1, <1>6, <1>7 DEF IsInjective
  <2>2. QED
    BY <1>4, <2>1
<1> DEFINE listed == [k \in 1..Cardinality(selected) |-> byAge[kth(k)]]
<1>8. listed \in Seq(S)
  BY <1>2, <1>6
<1>9. IsInjective(listed)
  BY <1>7 DEF IsInjective
<1>10. QED
  BY <1>5, <1>8, <1>9

\* Page by page the offset grows by the page size, and the last page ends no
\* sooner than the list.
LEMMA Offsets ==
    ASSUME NEW page \in Nat \ {0}, NEW limit \in Limits
    PROVE  /\ toOffset(page, limit) \in Nat /\ limit \in Nat \ {0}
           /\ toOffset(1, limit) = 0
           /\ toOffset(page + 1, limit) = toOffset(page, limit) + limit
           /\ \A total \in Nat :
                 ~(page < totalPages(total, limit)) => toOffset(page, limit) + limit >= total
<1>1. limit \in Nat \ {0}
  BY ReportsAssumption
<1>2. (page - 1) * limit \in Nat /\ (page - 1) * limit + limit = page * limit
  BY <1>1
<1>3. ASSUME NEW total \in Nat, ~(page < totalPages(total, limit))
      PROVE  page * limit >= total
  <2> DEFINE pages == (total + limit - 1) \div limit
  <2>1. pages \in Nat /\ pages * limit + limit > total + limit - 1
    BY <1>1
  <2>2. page >= pages
    BY <1>3, <2>1 DEF totalPages
  <2>3. page * limit >= pages * limit
    BY <1>1, <2>1, <2>2
  <2>4. page * limit \in Nat /\ pages * limit \in Nat
    BY <1>1, <2>1
  <2> HIDE DEF pages
  <2>5. QED
    BY <1>1, <2>1, <2>3, <2>4
<1>4. QED
  BY <1>1, <1>2, <1>3 DEF toOffset

-----------------------------------------------------------------------------
(***************************************************************************)
(* The invariant.                                                          *)
(***************************************************************************)

\* The rows of a list at the positions above lo, up to hi.
Between(list, lo, hi) == {list[k] : k \in {i \in DOMAIN list : lo < i /\ i <= hi}}

\* A walk that goes up shows a growing part of the list, row by row: what it
\* has shown lies before the page at hand and holds the first n rows as far as
\* they lie there; the page, once read, does the same for its own stretch; and
\* the number of rows, once read, covers those n.
OldestFirst(w, list, n) ==
    LET offset == toOffset(w.page, w.limit)
    IN  /\ IsInjective(w.shown)
        /\ Range(w.shown) \subseteq Between(list, 0, offset)
        /\ \A k \in 1..n : k <= offset => list[k] \in Range(w.shown)
        /\ w.rows # NotRead =>
              /\ IsInjective(w.rows)
              /\ Range(w.rows) \subseteq Between(list, offset, offset + w.limit)
              /\ \A k \in 1..n : offset < k /\ k <= offset + w.limit => list[k] \in Range(w.rows)
        /\ w.total # NotRead => w.total >= n

\* One that goes down is shown some rows again as the list grows, but of the
\* first n none that lies above the page at hand is missing.  Whether the page
\* is the last is told by the number of rows, which is the one the page was cut
\* from unless a row was added between the two queries.
NewestFirst(w, list, n) ==
    LET offset == toOffset(w.page, w.limit)
        Seen == Range(w.shown) \cup Range(w.rows)
    IN  /\ \A k \in 1..n : k + offset > Len(list) => list[k] \in Range(w.shown)
        /\ w.rows # NotRead =>
              \A k \in 1..n : k + offset + w.limit > Len(list) => list[k] \in Seen
        /\ ~w.torn /\ w.total # NotRead =>
              IF w.rows = NotRead
              THEN w.total = Len(list)
              ELSE \A k \in 1..n : k + offset + w.limit > w.total => list[k] \in Seen

\* The rows a walk began with are still the n oldest of its list.
OnCourse(w, list) ==
    \E n \in 0..Len(list) :
        /\ w.start = Between(list, 0, n)
        /\ w.sort = "asc" => OldestFirst(w, list, n)
        /\ w.sort = "desc" => NewestFirst(w, list, n)

\* A figure read alone is the one the log still gives, unless a row came.
FiguresFit(s) ==
    /\ s.before7d <= s.before24h /\ s.before24h <= log
    /\ s.users # NotRead => s.users.active <= s.users.total
    /\ ~s.torn =>
          /\ s.last24h # NotRead /\ s.last7d = NotRead => s.last24h = log - s.before24h
          /\ s.last24h = NotRead /\ s.last7d # NotRead => s.last7d = log - s.before7d
          /\ s.last24h # NotRead /\ s.last7d # NotRead => s.last24h <= s.last7d

ReportsInv ==
    /\ ReportsTypeOK
    /\ \A v \in Viewers :
          /\ At(v, "read") /\ ~view[v].moved => OnCourse(view[v], ListedNow(view[v]))
          /\ At(v, "summary") => FiguresFit(view[v])
    /\ OldestFirstWalkIsExact
    /\ NewestFirstWalkMissesOnlyIfTorn

-----------------------------------------------------------------------------
(***************************************************************************)
(* Pages.                                                                  *)
(***************************************************************************)

\* A page is the stretch of the sorted list that its offset and size say.
LEMMA PageCut ==
    ASSUME NEW T, NEW list \in Seq(T), IsInjective(list), NEW offset \in Nat, NEW limit \in Nat \ {0}
    PROVE  LET page == SubSeq(list, offset + 1, Min({offset + limit, Len(list)}))
           IN  /\ page \in Seq(T) /\ IsInjective(page)
               /\ Range(page) = Between(list, offset, offset + limit)
<1> DEFINE last == Min({offset + limit, Len(list)})
           page == SubSeq(list, offset + 1, last)
<1>1. last = IF offset + limit <= Len(list) THEN offset + limit ELSE Len(list)
  BY DEF Min
<1> HIDE DEF last
<1>2. last \in Nat /\ last <= Len(list) /\ last <= offset + limit
      /\ \A k \in 1..Len(list) : k <= offset + limit => k <= last
  <2>1. Len(list) \in Nat /\ offset + limit \in Nat
    OBVIOUS
  <2>2. QED
    BY <1>1, <2>1
<1>3. /\ page \in Seq(T)
      /\ Len(page) = IF offset + 1 <= last THEN last - offset ELSE 0
      /\ \A i \in 1..Len(page) : page[i] = list[offset + i]
  BY <1>2
<1> HIDE DEF page
<1>4. IsInjective(page)
  BY <1>2, <1>3 DEF IsInjective
<1>5. Range(page) \subseteq Between(list, offset, offset + limit)
  <2>1. SUFFICES ASSUME NEW i \in 1..Len(page)
                 PROVE  page[i] \in Between(list, offset, offset + limit)
    BY <1>3 DEF Range
  <2>2. /\ offset + i \in DOMAIN list /\ offset < offset + i /\ offset + i <= offset + limit
        /\ page[i] = list[offset + i]
    BY <1>2, <1>3
  <2>3. QED
    BY <2>2 DEF Between
<1>6. Between(list, offset, offset + limit) \subseteq Range(page)
  <2>1. SUFFICES ASSUME NEW k \in 1..Len(list), offset < k, k <= offset + limit
                 PROVE  list[k] \in Range(page)
    BY DEF Between
  <2>2. k - offset \in 1..Len(page) /\ page[k - offset] = list[k]
    BY <1>2, <1>3, <2>1
  <2>3. QED
    BY <1>3, <2>2 DEF Range
<1>7. QED
  BY <1>3, <1>4, <1>5, <1>6 DEF page, last

\* Sorted the other way round, a list has the same rows, counted from its end.
LEMMA Reversed ==
    ASSUME NEW T, NEW list \in Seq(T), IsInjective(list)
    PROVE  /\ Reverse(list) \in Seq(T) /\ IsInjective(Reverse(list)) /\ Len(Reverse(list)) = Len(list)
           /\ \A lo, hi \in Nat : Between(Reverse(list), lo, hi)
                 = {list[k] : k \in {i \in DOMAIN list : i > Len(list) - hi /\ i <= Len(list) - lo}}
<1> DEFINE n == Len(list)
<1>1. /\ Reverse(list) \in Seq(T) /\ Len(Reverse(list)) = n /\ n \in Nat /\ DOMAIN list = 1..n
      /\ \A i \in 1..n : Reverse(list)[i] = list[n - i + 1]
  BY DEF Reverse
<1> HIDE DEF n
<1>2. IsInjective(Reverse(list))
  <2>1. SUFFICES ASSUME NEW i \in 1..n, NEW j \in 1..n, list[n - i + 1] = list[n - j + 1]
                 PROVE  i = j
    BY <1>1 DEF IsInjective
  <2>2. n - i + 1 \in DOMAIN list /\ n - j + 1 \in DOMAIN list
    BY <1>1
  <2>3. n - i + 1 = n - j + 1
    BY <2>1, <2>2 DEF IsInjective
  <2>4. QED
    BY <1>1, <2>3
<1>3. ASSUME NEW lo \in Nat, NEW hi \in Nat
      PROVE  Between(Reverse(list), lo, hi)
                 = {list[k] : k \in {i \in DOMAIN list : i > n - hi /\ i <= n - lo}}
  <2> DEFINE rows == {list[k] : k \in {i \in DOMAIN list : i > n - hi /\ i <= n - lo}}
  <2>1. ASSUME NEW i \in 1..n, lo < i, i <= hi
        PROVE  Reverse(list)[i] \in rows
    <3>1. n - i + 1 \in 1..n /\ n - i + 1 > n - hi /\ n - i + 1 <= n - lo
      BY <1>1, <2>1
    <3>2. QED
      BY <1>1, <3>1
  <2>2. ASSUME NEW k \in 1..n, k > n - hi, k <= n - lo
        PROVE  list[k] \in Between(Reverse(list), lo, hi)
    <3>1. n - k + 1 \in 1..n /\ lo < n - k + 1 /\ n - k + 1 <= hi /\ n - (n - k + 1) + 1 = k
      BY <1>1, <2>2
    <3>2. QED
      BY <1>1, <3>1 DEF Between
  <2>3. Between(Reverse(list), lo, hi) \subseteq rows
    BY <1>1, <2>1 DEF Between
  <2>4. rows \subseteq Between(Reverse(list), lo, hi)
    BY <1>1, <2>2
  <2>5. QED
    BY <2>3, <2>4
<1>4. QED
  BY <1>1, <1>2, <1>3 DEF n

\* Every list a client walks has rows of its table, none twice.
LEMMA ListCut ==
    ASSUME NEW q, NEW active, NEW deleted,
           NEW byAge \in Seq(Users \cup 1..MaxLog), IsInjective(byAge),
           NEW recorded \in Nat, recorded <= MaxLog
    PROVE  /\ Listed(q, active, deleted, byAge, recorded) \in Seq(Users \cup 1..MaxLog)
           /\ IsInjective(Listed(q, active, deleted, byAge, recorded))
<1>1. /\ ListedUsers(q.isActive, active, deleted, byAge) \in Seq(Users \cup 1..MaxLog)
      /\ IsInjective(ListedUsers(q.isActive, active, deleted, byAge))
  BY UsersListed
<1>2. ListedLogs(recorded) \in Seq(Users \cup 1..MaxLog) /\ IsInjective(ListedLogs(recorded))
  BY ReportsAssumption DEF ListedLogs, IsInjective
<1>3. QED
  BY <1>1, <1>2 DEF Listed

\* So has every list as it is now.
LEMMA ListRead ==
    ASSUME ReportsTypeOK, NEW q
    PROVE  ListedNow(q) \in Seq(Users \cup 1..MaxLog) /\ IsInjective(ListedNow(q))
<1>1. order \in Seq(Users \cup 1..MaxLog) /\ IsInjective(order)
  BY DEF ReportsTypeOK, AccountTypeOK
<1>2. log \in Nat /\ log <= MaxLog
  BY ReportsAssumption DEF ReportsTypeOK
<1>3. QED
  BY <1>1, <1>2, ListCut DEF ListedNow

\* A page as findAll returns it: of the list, oldest or newest first.
LEMMA PageRead ==
    ASSUME ReportsTypeOK, NEW w \in Walk
    PROVE  LET list == ListedNow(w)
               offset == toOffset(w.page, w.limit)
           IN  /\ PageOf(w) \in Seq(Users \cup 1..MaxLog) /\ IsInjective(PageOf(w))
               /\ w.sort = "asc" => Range(PageOf(w)) = Between(list, offset, offset + w.limit)
               /\ w.sort = "desc" => Range(PageOf(w)) =
                     {list[k] : k \in {i \in DOMAIN list : /\ i > Len(list) - (offset + w.limit)
                                                           /\ i <= Len(list) - offset}}
<1> DEFINE list == ListedNow(w)
           offset == toOffset(w.page, w.limit)
<1>1. /\ offset \in Nat /\ w.limit \in Nat \ {0} /\ offset + w.limit \in Nat
      /\ w.sort \in {"asc", "desc"}
  <2>1. w.page \in Nat \ {0} /\ w.limit \in Limits /\ w.sort \in {"asc", "desc"}
    BY DEF Walk
  <2>2. toOffset(w.page, w.limit) \in Nat /\ w.limit \in Nat \ {0}
    BY ONLY <2>1, Offsets
  <2>3. QED
    BY <2>1, <2>2
<1>2. list \in Seq(Users \cup 1..MaxLog) /\ IsInjective(list)
  BY ListRead
<1> HIDE DEF list, offset
<1>3. CASE w.sort = "asc"
  <2>1. PageOf(w) = SubSeq(list, offset + 1, Min({offset + w.limit, Len(list)}))
    BY <1>3 DEF PageOf, list, offset
  <2>2. QED
    BY <1>1, <1>2, <1>3, <2>1, PageCut DEF list, offset
<1>4. CASE w.sort = "desc"
  <2>1. PageOf(w) = SubSeq(Reverse(list), offset + 1, Min({offset + w.limit, Len(Reverse(list))}))
    BY <1>4 DEF PageOf, list, offset
  <2>2. Reverse(list) \in Seq(Users \cup 1..MaxLog) /\ IsInjective(Reverse(list))
    BY <1>2, Reversed
  <2>3. /\ PageOf(w) \in Seq(Users \cup 1..MaxLog) /\ IsInjective(PageOf(w))
        /\ Range(PageOf(w)) = Between(Reverse(list), offset, offset + w.limit)
    BY <1>1, <2>1, <2>2, PageCut
  <2>4. QED
    BY <1>1, <1>2, <1>4, <2>3, Reversed DEF list, offset
<1>5. QED
  BY <1>1, <1>3, <1>4

-----------------------------------------------------------------------------
(***************************************************************************)
(* Types.                                                                  *)
(***************************************************************************)

\* What a client is doing tells what it keeps.
LEMMA Kinds ==
    ASSUME ReportsTypeOK, NEW v \in Viewers
    PROVE  /\ At(v, "read") \/ At(v, "ended") => view[v] \in Walk
           /\ At(v, "summary") => view[v] \in Summary
BY DEF ReportsTypeOK, At, Walk, Summary

\* A row that is added goes to the end of the order.
LEMMA OrderGrows ==
    ASSUME ReportsTypeOK, AccountChange
    PROVE  order' \in Seq(users') /\ Range(order') = users' /\ IsInjective(order')
<1> DEFINE new == users' \ users
<1>1. users \subseteq users' /\ IsFiniteSet(new)
  <2>1. AccountNext
    BY DEF AccountChange
  <2>2. ASSUME NEW a \in Ops, AccountStepButInsert(a)
        PROVE  users' = users
    BY <2>2 DEF AccountStepButInsert, CreateFind, StatusEnter, StatusFind, StatusWrite,
       UpdateStatus, SoftDelete, OpAbort, rowVars
  <2>3. ASSUME NEW a \in Ops, CreateInsert(a)
        PROVE  users' = users \/ users' = users \cup {op[a].user}
    BY <2>3 DEF CreateInsert, CreateWithProfile, rowVars
  <2>4. users \subseteq users' /\ (new = {} \/ \E u : new = {u})
    BY <2>1, <2>2, <2>3 DEF AccountNext
  <2>5. QED
    BY <2>4, FS_EmptySet, FS_Singleton
<1>2. /\ SetToSeq(new) \in Seq(new) /\ IsInjective(SetToSeq(new))
      /\ Range(SetToSeq(new)) = new
  BY <1>1, SetListed
<1>3. order' = order \o SetToSeq(new)
  BY DEF AccountChange
<1>4. order \in Seq(users) /\ Range(order) = users /\ IsInjective(order)
  BY DEF ReportsTypeOK
<1>5. QED
  <2>1. users \cup new = users' /\ users \cap new = {}
    BY <1>1
  <2> HIDE DEF new
  <2> DEFINE added == SetToSeq(new)
  <2> HIDE DEF added
  <2>2. added \in Seq(new) /\ IsInjective(added) /\ Range(added) = new /\ order' = order \o added
    BY <1>2, <1>3 DEF added
  <2>3. /\ order' \in Seq(users \cup new) /\ Range(order') = users \cup new
        /\ Range(order) \cap Range(added) = {} => IsInjective(order')
    <3>1. order \in Seq(users) /\ added \in Seq(new)
      BY <1>4, <2>2
    <3>2. /\ order \o added \in Seq(users \cup new)
          /\ Range(order \o added) = Range(order) \cup Range(added)
          /\ IsInjective(order) /\ IsInjective(added) /\ Range(order) \cap Range(added) = {}
                => IsInjective(order \o added)
      BY ONLY <3>1, Joined, Zenon
    <3>3. QED
      BY <1>4, <2>2, <3>2, Zenon
  <2>4. QED
    BY <1>4, <2>1, <2>2, <2>3

-----------------------------------------------------------------------------
(***************************************************************************)
(* What a step does to one walk.                                           *)
(***************************************************************************)

\* What the type says of a walk.
LEMMA WalkShape ==
    ASSUME NEW w \in Walk
    PROVE  /\ toOffset(w.page, w.limit) \in Nat /\ w.limit \in Nat \ {0}
           /\ w.page \in Nat \ {0} /\ w.limit \in Limits
           /\ w.rows # NotRead => w.rows \in Seq(Users \cup 1..MaxLog)
           /\ w.total # NotRead => w.total \in Nat
           /\ w.shown \in Seq(Users \cup 1..MaxLog)
           /\ w.sort \in {"asc", "desc"}
<1>1. w.page \in Nat \ {0} /\ w.limit \in Limits
  BY DEF Walk
<1>2. toOffset(w.page, w.limit) \in Nat /\ w.limit \in Nat \ {0}
  BY ONLY <1>1, Offsets
<1>3. QED
  BY <1>1, <1>2 DEF Walk

\* Rows that are added behind those of the list do not disturb a walk.
LEMMA ListGrows ==
    ASSUME NEW w \in Walk, NEW T, NEW list \in Seq(T), NEW longer \in Seq(T), IsPrefix(list, longer),
           OnCourse(w, list), NEW moved, NEW torn \in BOOLEAN,
           ~torn => ~w.torn /\ (list = longer \/ ~HalfRead(w.rows, w.total))
    PROVE  OnCourse([w EXCEPT !.moved = moved, !.torn = torn], longer)
<1> DEFINE x == [w EXCEPT !.moved = moved, !.torn = torn]
<1>1. /\ x.start = w.start /\ x.sort = w.sort /\ x.shown = w.shown /\ x.rows = w.rows
      /\ x.total = w.total /\ x.page = w.page /\ x.limit = w.limit /\ x.torn = torn
  BY DEF Walk
<1> HIDE DEF x
<1>2. /\ Len(list) \in Nat /\ Len(longer) \in Nat /\ Len(list) <= Len(longer)
      /\ DOMAIN list = 1..Len(list) /\ DOMAIN longer = 1..Len(longer)
      /\ \A k \in 1..Len(list) : longer[k] = list[k]
  <2>1. Len(list) \in Nat /\ Len(longer) \in Nat /\ Len(list) <= Len(longer)
    BY DEF IsPrefix
  <2>2. SubSeq(list, 1, Len(list)) = SubSeq(longer, 1, Len(list))
    BY DEF IsPrefix
  <2>3. ASSUME NEW k \in 1..Len(list)
        PROVE  longer[k] = list[k]
    <3>1. SubSeq(list, 1, Len(list))[k] = list[k] /\ SubSeq(longer, 1, Len(list))[k] = longer[k]
      BY <2>1
    <3>2. QED
      BY <2>2, <3>1
  <2>4. QED
    BY <2>1, <2>3
<1>3. PICK n \in 0..Len(list) :
         /\ w.start = Between(list, 0, n)
         /\ w.sort = "asc" => OldestFirst(w, list, n)
         /\ w.sort = "desc" => NewestFirst(w, list, n)
  BY DEF OnCourse
<1>4. n \in 0..Len(longer) /\ 1..n \subseteq 1..Len(list)
  BY <1>2
<1>5. Between(longer, 0, n) = Between(list, 0, n)
  BY <1>2, <1>4 DEF Between
<1>6. \A lo, hi : Between(list, lo, hi) \subseteq Between(longer, lo, hi)
  BY <1>2 DEF Between
<1>7. ASSUME OldestFirst(w, list, n)
      PROVE  OldestFirst(x, longer, n)
  BY <1>1, <1>2, <1>4, <1>6, <1>7 DEF OldestFirst
<1>8. ASSUME NewestFirst(w, list, n)
      PROVE  NewestFirst(x, longer, n)
  <2> DEFINE offset == toOffset(w.page, w.limit)
             Seen == Range(w.shown) \cup Range(w.rows)
  <2>1. offset \in Nat /\ w.limit \in Nat
    BY WalkShape
  <2>2. /\ \A k \in 1..n : k + offset > Len(list) => list[k] \in Range(w.shown)
        /\ w.rows # NotRead => \A k \in 1..n : k + offset + w.limit > Len(list) => list[k] \in Seen
        /\ ~w.torn /\ w.total # NotRead /\ w.rows = NotRead => w.total = Len(list)
        /\ ~w.torn /\ w.total # NotRead /\ w.rows # NotRead =>
              \A k \in 1..n : k + offset + w.limit > w.total => list[k] \in Seen
    BY <1>8 DEF NewestFirst
  <2>3. \A k \in 1..n : /\ longer[k] = list[k]
                        /\ k + offset > Len(longer) => k + offset > Len(list)
                        /\ k + offset + w.limit > Len(longer) => k + offset + w.limit > Len(list)
    BY <1>2, <1>4, <2>1
  <2>4. ~torn /\ w.total # NotRead /\ w.rows = NotRead => w.total = Len(longer)
    BY <2>2 DEF HalfRead
  <2> HIDE DEF offset, Seen
  <2>5. /\ \A k \in 1..n : k + offset > Len(longer) => longer[k] \in Range(w.shown)
        /\ w.rows # NotRead => \A k \in 1..n : k + offset + w.limit > Len(longer) => longer[k] \in Seen
        /\ ~torn /\ w.total # NotRead /\ w.rows # NotRead =>
              \A k \in 1..n : k + offset + w.limit > w.total => longer[k] \in Seen
    BY <2>2, <2>3
  <2>6. QED
    BY <1>1, <2>4, <2>5 DEF NewestFirst, offset, Seen
<1>9. QED
  BY <1>1, <1>3, <1>4, <1>5, <1>7, <1>8 DEF OnCourse, x

\* A walk that starts has the whole list before it.
LEMMA StartsOnCourse ==
    ASSUME ReportsTypeOK, NEW w \in Walk, w.page = 1, w.rows = NotRead, w.total = NotRead,
           w.shown = <<>>, w.start = Range(ListedNow(w))
    PROVE  OnCourse(w, ListedNow(w))
<1> DEFINE list == ListedNow(w)
           n == Len(list)
<1>1. list \in Seq(Users \cup 1..MaxLog)
  BY ListRead
<1>2. toOffset(w.page, w.limit) = 0
  BY WalkShape, Offsets
<1> HIDE DEF list
<1>3. n \in 0..Len(list) /\ n \in Nat /\ DOMAIN list = 1..n
  BY <1>1
<1>4. w.start = Between(list, 0, n)
  BY <1>3 DEF Between, Range, list
<1>5. IsInjective(w.shown) /\ Range(w.shown) = {}
  BY DEF IsInjective, Range
<1>6. OldestFirst(w, list, n)
  BY <1>2, <1>3, <1>5 DEF OldestFirst
<1>7. NewestFirst(w, list, n)
  BY <1>2, <1>3, <1>5 DEF NewestFirst
<1>8. QED
  BY <1>3, <1>4, <1>6, <1>7 DEF OnCourse, list

\* The query for the rows of a page.
LEMMA RowsOnCourse ==
    ASSUME ReportsTypeOK, NEW w \in Walk, w.rows = NotRead, OnCourse(w, ListedNow(w))
    PROVE  OnCourse([w EXCEPT !.rows = PageOf(w)], ListedNow(w))
<1> DEFINE list == ListedNow(w)
           page == PageOf(w)
           offset == toOffset(w.page, w.limit)
           x == [w EXCEPT !.rows = page]
<1>1. /\ x.start = w.start /\ x.sort = w.sort /\ x.shown = w.shown /\ x.rows = page
      /\ x.total = w.total /\ x.page = w.page /\ x.limit = w.limit /\ x.torn = w.torn
  BY DEF Walk
<1> HIDE DEF x
<1>2. list \in Seq(Users \cup 1..MaxLog) /\ offset \in Nat /\ w.limit \in Nat
  BY ListRead, WalkShape
<1>3. /\ page \in Seq(Users \cup 1..MaxLog) /\ IsInjective(page)
      /\ w.sort = "asc" => Range(page) = Between(list, offset, offset + w.limit)
      /\ w.sort = "desc" => Range(page) =
            {list[k] : k \in {i \in DOMAIN list : /\ i > Len(list) - (offset + w.limit)
                                                  /\ i <= Len(list) - offset}}
  BY PageRead
<1> HIDE DEF list, page
<1>4. PICK n \in 0..Len(list) :
         /\ w.start = Between(list, 0, n)
         /\ w.sort = "asc" => OldestFirst(w, list, n)
         /\ w.sort = "desc" => NewestFirst(w, list, n)
  BY DEF OnCourse, list
<1>5. Len(list) \in Nat /\ DOMAIN list = 1..Len(list) /\ n \in Nat /\ 1..n \subseteq 1..Len(list)
  BY <1>2
<1>6. ASSUME w.sort = "asc"
      PROVE  OldestFirst(x, list, n)
  <2>1. \A k \in 1..n : offset < k /\ k <= offset + w.limit => list[k] \in Range(page)
    BY <1>3, <1>5, <1>6 DEF Between
  <2>2. OldestFirst(w, list, n)
    BY <1>4, <1>6
  <2>3. QED
    BY <1>1, <1>3, <1>6, <2>1, <2>2 DEF OldestFirst
<1>7. ASSUME w.sort = "desc"
      PROVE  NewestFirst(x, list, n)
  <2> DEFINE Seen == Range(w.shown) \cup Range(page)
  <2>1. /\ \A k \in 1..n : k + offset > Len(list) => list[k] \in Range(w.shown)
        /\ ~w.torn /\ w.total # NotRead => w.total = Len(list)
    BY <1>4, <1>7 DEF NewestFirst
  <2>2. ASSUME NEW k \in 1..n, k + offset + w.limit > Len(list)
        PROVE  list[k] \in Seen
    <3>1. CASE k + offset > Len(list)
      BY <2>1, <3>1
    <3>2. CASE ~(k + offset > Len(list))
      <4>1. k \in DOMAIN list /\ k > Len(list) - (offset + w.limit) /\ k <= Len(list) - offset
        BY <1>2, <1>5, <2>2, <3>2
      <4>2. QED
        BY <1>3, <1>7, <4>1
    <3>3. QED
      BY <3>1, <3>2
  <2> HIDE DEF Seen, offset
  <2>3. QED
    BY <1>1, <2>1, <2>2 DEF NewestFirst, Seen, offset
<1>8. QED
  BY <1>1, <1>4, <1>6, <1>7 DEF OnCourse, x, list, page

\* The query for their number.
LEMMA CountOnCourse ==
    ASSUME ReportsTypeOK, NEW w \in Walk, w.total = NotRead, OnCourse(w, ListedNow(w))
    PROVE  OnCourse([w EXCEPT !.total = Len(ListedNow(w))], ListedNow(w))
<1> DEFINE list == ListedNow(w)
           x == [w EXCEPT !.total = Len(list)]
<1>1. /\ x.start = w.start /\ x.sort = w.sort /\ x.shown = w.shown /\ x.rows = w.rows
      /\ x.total = Len(list) /\ x.page = w.page /\ x.limit = w.limit /\ x.torn = w.torn
  BY DEF Walk
<1> HIDE DEF x
<1>2. list \in Seq(Users \cup 1..MaxLog)
  BY ListRead
<1> HIDE DEF list
<1>3. PICK n \in 0..Len(list) :
         /\ w.start = Between(list, 0, n)
         /\ w.sort = "asc" => OldestFirst(w, list, n)
         /\ w.sort = "desc" => NewestFirst(w, list, n)
  BY DEF OnCourse, list
<1>4. Len(list) >= n
  BY <1>2
<1>5. w.sort = "asc" => OldestFirst(x, list, n)
  BY <1>1, <1>3, <1>4 DEF OldestFirst
<1>6. w.sort = "desc" => NewestFirst(x, list, n)
  BY <1>1, <1>3 DEF NewestFirst
<1>7. QED
  BY <1>1, <1>3, <1>5, <1>6 DEF OnCourse, x, list

\* A page that goes up repeats none of the rows shown before it.
LEMMA PageAppended ==
    ASSUME NEW w \in Walk, w.rows # NotRead, NEW T, NEW list \in Seq(T), IsInjective(list),
           NEW n, OldestFirst(w, list, n)
    PROVE  IsInjective(w.shown \o w.rows)
<1> DEFINE offset == toOffset(w.page, w.limit)
<1>1. offset \in Nat /\ w.limit \in Nat /\ DOMAIN list = 1..Len(list)
  BY WalkShape
<1> HIDE DEF offset
<1>2. Between(list, 0, offset) \cap Between(list, offset, offset + w.limit) = {}
  <2>1. ASSUME NEW i \in DOMAIN list, i <= offset, NEW j \in DOMAIN list, offset < j
        PROVE  list[i] # list[j]
    <3>1. i # j
      BY <1>1, <2>1
    <3>2. QED
      BY <3>1 DEF IsInjective
  <2>2. QED
    BY <2>1 DEF Between
<1>3. /\ IsInjective(w.shown) /\ Range(w.shown) \subseteq Between(list, 0, offset)
      /\ IsInjective(w.rows) /\ Range(w.rows) \subseteq Between(list, offset, offset + w.limit)
  BY DEF OldestFirst, offset
<1>4. Range(w.shown) \cap Range(w.rows) = {}
  BY <1>2, <1>3
<1>5. w.shown \in Seq(Users \cup 1..MaxLog) /\ w.rows \in Seq(Users \cup 1..MaxLog)
  BY WalkShape
<1>6. QED
  BY ONLY <1>3, <1>4, <1>5, Joined, Zenon

\* What is shown once a page is appended.
LEMMA ShownGrows ==
    ASSUME NEW w \in Walk, w.rows # NotRead
    PROVE  /\ w.shown \o w.rows \in Seq(Users \cup 1..MaxLog)
           /\ Range(w.shown \o w.rows) = Range(w.shown) \cup Range(w.rows)
<1> DEFINE S == Users \cup 1..MaxLog
           s == w.shown
           t == w.rows
<1>1. s \in Seq(S) /\ t \in Seq(S)
  BY WalkShape
<1> HIDE DEF S, s, t
<1>2. /\ s \o t \in Seq(S \cup S)
      /\ Range(s \o t) = Range(s) \cup Range(t)
      /\ IsInjective(s) /\ IsInjective(t) /\ Range(s) \cap Range(t) = {} => IsInjective(s \o t)
  BY ONLY <1>1, Joined, Zenon
<1>3. S \cup S = S
  OBVIOUS
<1>4. QED
  BY <1>2, <1>3 DEF S, s, t

\* The next page is asked for.
LEMMA NextOnCourse ==
    ASSUME NEW w \in Walk, w.rows # NotRead, NEW T, NEW list \in Seq(T), IsInjective(list),
           OnCourse(w, list), NEW x \in Walk,
           x.start = w.start, x.sort = w.sort, x.limit = w.limit, x.page = w.page + 1,
           x.shown = w.shown \o w.rows, x.rows = NotRead, x.total = NotRead
    PROVE  OnCourse(x, list)
<1> DEFINE offset == toOffset(w.page, w.limit)
<1>1. /\ offset \in Nat /\ w.limit \in Nat /\ DOMAIN list = 1..Len(list) /\ Len(list) \in Nat
      /\ toOffset(x.page, x.limit) = offset + w.limit
  <2>1. /\ w.page \in Nat \ {0} /\ w.limit \in Limits /\ offset \in Nat /\ w.limit \in Nat
    BY WalkShape
  <2>2. toOffset(w.page + 1, w.limit) = offset + w.limit
    BY ONLY <2>1, Offsets
  <2>3. QED
    BY <2>1, <2>2
<1>2. Range(x.shown) = Range(w.shown) \cup Range(w.rows)
  BY ShownGrows
<1>3. PICK n \in 0..Len(list) :
         /\ w.start = Between(list, 0, n)
         /\ w.sort = "asc" => OldestFirst(w, list, n)
         /\ w.sort = "desc" => NewestFirst(w, list, n)
  BY DEF OnCourse
<1>4. ASSUME w.sort = "asc"
      PROVE  OldestFirst(x, list, n)
  <2>1. IsInjective(x.shown)
    BY <1>3, <1>4, PageAppended
  <2>2. /\ Range(w.shown) \subseteq Between(list, 0, offset)
        /\ Range(w.rows) \subseteq Between(list, offset, offset + w.limit)
        /\ \A k \in 1..n : k <= offset => list[k] \in Range(w.shown)
        /\ \A k \in 1..n : offset < k /\ k <= offset + w.limit => list[k] \in Range(w.rows)
    BY <1>3, <1>4 DEF OldestFirst
  <2> HIDE DEF offset
  <2>3. /\ Between(list, 0, offset) \subseteq Between(list, 0, offset + w.limit)
        /\ Between(list, offset, offset + w.limit) \subseteq Between(list, 0, offset + w.limit)
    BY <1>1 DEF Between
  <2>4. Range(x.shown) \subseteq Between(list, 0, offset + w.limit)
    BY <1>2, <2>2, <2>3
  <2>5. \A k \in 1..n : k <= offset + w.limit => list[k] \in Range(x.shown)
    BY <1>1, <1>2, <2>2
  <2>6. QED
    BY <1>1, <2>1, <2>4, <2>5 DEF OldestFirst
<1>5. ASSUME w.sort = "desc"
      PROVE  NewestFirst(x, list, n)
  <2>1. \A k \in 1..n : k + offset + w.limit > Len(list) => list[k] \in Range(x.shown)
    BY <1>2, <1>3, <1>5 DEF NewestFirst
  <2> HIDE DEF offset
  <2>2. \A k \in 1..n : k + (offset + w.limit) > Len(list) => list[k] \in Range(x.shown)
    BY <1>1, <2>1
  <2>3. QED
    BY <1>1, <2>2 DEF NewestFirst
<1>6. QED
  BY <1>3, <1>4, <1>5 DEF OnCourse

\* There is none: the rows the walk began with have been shown.
LEMMA LastPageCompletes ==
    ASSUME NEW w \in Walk, w.rows # NotRead, w.total # NotRead,
           NEW T, NEW list \in Seq(T), IsInjective(list), OnCourse(w, list),
           ~(w.page < totalPages(w.total, w.limit))
    PROVE  /\ w.sort = "asc" => /\ w.start \subseteq Range(w.shown \o w.rows)
                                /\ IsInjective(w.shown \o w.rows)
           /\ w.sort = "desc" /\ ~w.torn => w.start \subseteq Range(w.shown \o w.rows)
<1> DEFINE offset == toOffset(w.page, w.limit)
<1>1. /\ offset \in Nat /\ w.limit \in Nat /\ w.total \in Nat /\ DOMAIN list = 1..Len(list)
      /\ offset + w.limit >= w.total /\ Len(list) \in Nat
  <2>1. /\ w.page \in Nat \ {0} /\ w.limit \in Limits /\ w.total \in Nat
        /\ offset \in Nat /\ w.limit \in Nat
    BY WalkShape
  <2>2. offset + w.limit >= w.total
    BY ONLY <2>1, Offsets, ~(w.page < totalPages(w.total, w.limit))
  <2>3. QED
    BY <2>1, <2>2
<1>2. Range(w.shown \o w.rows) = Range(w.shown) \cup Range(w.rows)
  BY ShownGrows
<1>3. PICK n \in 0..Len(list) :
         /\ w.start = Between(list, 0, n)
         /\ w.sort = "asc" => OldestFirst(w, list, n)
         /\ w.sort = "desc" => NewestFirst(w, list, n)
  BY DEF OnCourse
<1>4. ASSUME \A k \in 1..n : list[k] \in Range(w.shown) \cup Range(w.rows)
      PROVE  w.start \subseteq Range(w.shown \o w.rows)
  BY <1>1, <1>2, <1>3, <1>4 DEF Between
<1>5. ASSUME w.sort = "asc"
      PROVE  \A k \in 1..n : list[k] \in Range(w.shown) \cup Range(w.rows)
  <2>1. /\ w.total >= n
        /\ \A k \in 1..n : k <= offset => list[k] \in Range(w.shown)
        /\ \A k \in 1..n : offset < k /\ k <= offset + w.limit => list[k] \in Range(w.rows)
    BY <1>3, <1>5 DEF OldestFirst
  <2> HIDE DEF offset
  <2>2. QED
    BY <1>1, <2>1
<1>6. ASSUME w.sort = "desc", ~w.torn
      PROVE  \A k \in 1..n : list[k] \in Range(w.shown) \cup Range(w.rows)
  <2>1. \A k \in 1..n : k + offset + w.limit > w.total => list[k] \in Range(w.shown) \cup Range(w.rows)
    BY <1>3, <1>6 DEF NewestFirst
  <2> HIDE DEF offset
  <2>2. QED
    BY <1>1, <2>1
<1>7. w.sort = "asc" => IsInjective(w.shown \o w.rows)
  BY <1>3, PageAppended
<1>8. QED
  BY <1>4, <1>5, <1>6, <1>7

-----------------------------------------------------------------------------
(***************************************************************************)
(* Writers.                                                                *)
(***************************************************************************)

\* What a write leaves of a walk or a summary but for the history variables.
LEMMA Watching ==
    ASSUME ReportsTypeOK, view' = Watched, NEW v \in Viewers
    PROVE  /\ At(v, "read") =>
                 \E moved, torn \in BOOLEAN :
                    LET after == Listed(view[v], isActive', isDeleted', order', log')
                    IN  /\ view'[v] = [view[v] EXCEPT !.moved = moved, !.torn = torn]
                        /\ ~moved => ~view[v].moved /\ IsPrefix(ListedNow(view[v]), after)
                        /\ ~torn => /\ ~view[v].torn
                                    /\ \/ ListedNow(view[v]) = after
                                       \/ ~HalfRead(view[v].rows, view[v].total)
           /\ At(v, "summary") =>
                 \E torn \in BOOLEAN :
                    /\ view'[v] = [view[v] EXCEPT !.torn = torn]
                    /\ ~torn => /\ ~view[v].torn
                                /\ log' = log \/ ~HalfRead(view[v].last24h, view[v].last7d)
           /\ ~At(v, "read") /\ ~At(v, "summary") => view'[v] = view[v]
<1>1. ASSUME At(v, "read")
      PROVE  \E moved, torn \in BOOLEAN :
                LET after == Listed(view[v], isActive', isDeleted', order', log')
                IN  /\ view'[v] = [view[v] EXCEPT !.moved = moved, !.torn = torn]
                    /\ ~moved => ~view[v].moved /\ IsPrefix(ListedNow(view[v]), after)
                    /\ ~torn => /\ ~view[v].torn
                                /\ \/ ListedNow(view[v]) = after
                                   \/ ~HalfRead(view[v].rows, view[v].total)
  <2> DEFINE before == ListedNow(view[v])
             after == Listed(view[v], isActive', isDeleted', order', log')
             moved == view[v].moved \/ ~IsPrefix(before, after)
             torn == view[v].torn \/ (before # after /\ HalfRead(view[v].rows, view[v].total))
  <2>1. view'[v] = [view[v] EXCEPT !.moved = moved, !.torn = torn]
    BY <1>1 DEF Watched
  <2>2. moved \in BOOLEAN /\ torn \in BOOLEAN
    OBVIOUS
  <2>3. ~moved => ~view[v].moved /\ IsPrefix(before, after)
    OBVIOUS
  <2>4. ~torn => /\ ~view[v].torn
                 /\ (before = after \/ ~HalfRead(view[v].rows, view[v].total))
    OBVIOUS
  <2> HIDE DEF before, after, moved, torn
  <2>5. QED
    BY <2>1, <2>2, <2>3, <2>4 DEF before, after
<1>2. ASSUME At(v, "summary")
      PROVE  \E torn \in BOOLEAN :
                /\ view'[v] = [view[v] EXCEPT !.torn = torn]
                /\ ~torn => /\ ~view[v].torn
                            /\ log' = log \/ ~HalfRead(view[v].last24h, view[v].last7d)
  <2> DEFINE torn == view[v].torn \/ (log # log' /\ HalfRead(view[v].last24h, view[v].last7d))
  <2>1. ~At(v, "read")
    BY <1>2 DEF At
  <2>2. view'[v] = [view[v] EXCEPT !.torn = torn]
    BY <1>2, <2>1 DEF Watched
  <2>3. torn \in BOOLEAN /\ (~torn => /\ ~view[v].torn
                                       /\ (log' = log \/ ~HalfRead(view[v].last24h, view[v].last7d)))
    OBVIOUS
  <2> HIDE DEF torn
  <2>4. QED
    BY <2>2, <2>3
<1>3. ~At(v, "read") /\ ~At(v, "summary") => view'[v] = view[v]
  BY DEF Watched
<1>4. QED
  BY <1>1, <1>2, <1>3

\* Writers keep the types.
LEMMA WriterTypes ==
    ASSUME ReportsTypeOK, AccountChange \/ Record
    PROVE  ReportsTypeOK'
<1>1. AccountTypeOK' /\ order' \in Seq(users') /\ Range(order') = users' /\ IsInjective(order')
      /\ log' \in InitialLog..MaxLog /\ view' = Watched
  <2>1. CASE AccountChange
    BY <2>1, OrderGrows, AccountTypeStep DEF AccountChange, ReportsTypeOK
  <2>2. CASE Record
    BY <2>2, ReportsAssumption DEF Record, ReportsTypeOK, AccountTypeOK, accountVars
  <2>3. QED
    BY <2>1, <2>2
<1>2. ASSUME NEW v \in Viewers
      PROVE  view'[v] = Idle \/ view'[v] \in Walk \/ view'[v] \in Summary
  <2>1. CASE At(v, "read")
    <3>1. view[v] \in Walk
      BY <2>1, Kinds
    <3>2. PICK moved, torn \in BOOLEAN : view'[v] = [view[v] EXCEPT !.moved = moved, !.torn = torn]
      BY <1>1, <2>1, Watching
    <3>3. QED
      BY <3>1, <3>2 DEF Walk
  <2>2. CASE At(v, "summary")
    <3>1. view[v] \in Summary
      BY <2>2, Kinds
    <3>2. PICK torn \in BOOLEAN : view'[v] = [view[v] EXCEPT !.torn = torn]
      BY <1>1, <2>2, Watching
    <3>3. QED
      BY <3>1, <3>2 DEF Summary
  <2>3. CASE ~At(v, "read") /\ ~At(v, "summary")
    BY <1>1, <2>3, Watching DEF ReportsTypeOK
  <2>4. QED
    BY <2>1, <2>2, <2>3
<1>3. QED
  BY <1>1, <1>2 DEF ReportsTypeOK

\* Writers disturb no walk and no summary but as the history variables tell.
LEMMA WriterStep ==
    ASSUME ReportsInv, AccountChange \/ Record
    PROVE  ReportsInv'
<1>1. ReportsTypeOK /\ ReportsTypeOK'
  BY WriterTypes DEF ReportsInv
<1>2. view' = Watched /\ log \in Nat /\ log' \in Nat /\ log <= log'
  BY <1>1, ReportsAssumption DEF AccountChange, Record, ReportsTypeOK
<1>3. ASSUME NEW v \in Viewers, At(v, "read")'
      PROVE  At(v, "read") /\ (~view[v].moved' => OnCourse(view[v], ListedNow(view[v]))')
  <2>1. At(v, "read")
    <3>1. CASE At(v, "summary")
      <4>1. view[v] \in Summary
        BY <1>1, <3>1, Kinds
      <4>2. PICK torn \in BOOLEAN : view'[v] = [view[v] EXCEPT !.torn = torn]
        BY <1>1, <1>2, <3>1, Watching
      <4>3. QED
        BY <1>3, <4>1, <4>2 DEF Summary, At
    <3>2. CASE ~At(v, "read") /\ ~At(v, "summary")
      BY <1>1, <1>2, <1>3, <3>2, Watching DEF At
    <3>3. QED
      BY <3>1, <3>2
  <2>2. view[v] \in Walk
    BY <1>1, <2>1, Kinds
  <2>3. PICK moved, torn \in BOOLEAN :
          LET after == Listed(view[v], isActive', isDeleted', order', log')
          IN  /\ view'[v] = [view[v] EXCEPT !.moved = moved, !.torn = torn]
              /\ ~moved => ~view[v].moved /\ IsPrefix(ListedNow(view[v]), after)
              /\ ~torn => /\ ~view[v].torn
                          /\ \/ ListedNow(view[v]) = after
                             \/ ~HalfRead(view[v].rows, view[v].total)
    BY <1>1, <1>2, <2>1, Watching
  <2>4. ListedNow(view[v])' = Listed(view[v], isActive', isDeleted', order', log')
    BY <2>2, <2>3 DEF ListedNow, Listed, Walk
  <2>5. view[v].moved' = moved
    BY <2>2, <2>3 DEF Walk
  <2>6. ASSUME ~moved
        PROVE  OnCourse(view[v], ListedNow(view[v]))'
    <3> DEFINE before == ListedNow(view[v])
               after == Listed(view[v], isActive', isDeleted', order', log')
    <3>1. OnCourse(view[v], before)
      BY <2>1, <2>3, <2>6 DEF ReportsInv
    <3>2. before \in Seq(Users \cup 1..MaxLog)
      BY <1>1, ListRead
    <3>3. after \in Seq(Users \cup 1..MaxLog)
      <4>1. /\ order' \in Seq(Users \cup 1..MaxLog) /\ IsInjective(order')
            /\ log' \in Nat /\ log' <= MaxLog
        BY <1>1, ReportsAssumption DEF ReportsTypeOK, AccountTypeOK, IsInjective
      <4>2. QED
        BY <4>1, ListCut
    <3>4. /\ IsPrefix(before, after)
          /\ ~torn => ~view[v].torn /\ (before = after \/ ~HalfRead(view[v].rows, view[v].total))
      BY <2>3, <2>6
    <3> HIDE DEF before, after
    <3>5. OnCourse([view[v] EXCEPT !.moved = moved, !.torn = torn], after)
      BY <2>2, <3>1, <3>2, <3>3, <3>4, ListGrows
    <3>6. view'[v] = [view[v] EXCEPT !.moved = moved, !.torn = torn]
      BY <2>3
    <3>7. OnCourse(view'[v], after)
      BY <3>5, <3>6
    <3>8. QED
      BY <2>4, <3>7 DEF after, OnCourse, OldestFirst, NewestFirst
  <2>7. QED
    BY <2>1, <2>5, <2>6
<1>4. ASSUME NEW v \in Viewers, At(v, "summary")'
      PROVE  FiguresFit(view[v])'
  <2>1. At(v, "summary")
    <3>1. CASE At(v, "read")
      <4>1. view[v] \in Walk
        BY <1>1, <3>1, Kinds
      <4>2. PICK moved, torn \in BOOLEAN : view'[v] = [view[v] EXCEPT !.moved = moved, !.torn = torn]
        BY <1>1, <1>2, <3>1, Watching
      <4>3. QED
        BY <1>4, <3>1, <4>1, <4>2 DEF Walk, At
    <3>2. CASE ~At(v, "read") /\ ~At(v, "summary")
      BY <1>1, <1>2, <1>4, <3>2, Watching DEF At
    <3>3. QED
      BY <3>1, <3>2
  <2>2. view[v] \in Summary /\ FiguresFit(view[v])
    BY <1>1, <2>1, Kinds DEF ReportsInv
  <2>3. PICK torn \in BOOLEAN :
           /\ view'[v] = [view[v] EXCEPT !.torn = torn]
           /\ ~torn => ~view[v].torn /\ (log' = log \/ ~HalfRead(view[v].last24h, view[v].last7d))
    BY <1>1, <1>2, <2>1, Watching
  <2>4. QED
    BY <1>2, <2>2, <2>3 DEF FiguresFit, HalfRead, Summary
<1>5. ASSUME NEW v \in Viewers, At(v, "ended")'
      PROVE  At(v, "ended") /\ view'[v] = view[v]
  <2>1. CASE At(v, "read")
    <3>1. view[v] \in Walk
      BY <1>1, <2>1, Kinds
    <3>2. PICK moved, torn \in BOOLEAN : view'[v] = [view[v] EXCEPT !.moved = moved, !.torn = torn]
      BY <1>1, <1>2, <2>1, Watching
    <3>3. QED
      BY <1>5, <2>1, <3>1, <3>2 DEF Walk, At
  <2>2. CASE At(v, "summary")
    <3>1. view[v] \in Summary
      BY <1>1, <2>2, Kinds
    <3>2. PICK torn \in BOOLEAN : view'[v] = [view[v] EXCEPT !.torn = torn]
      BY <1>1, <1>2, <2>2, Watching
    <3>3. QED
      BY <1>5, <2>2, <3>1, <3>2 DEF Summary, At
  <2>3. CASE ~At(v, "read") /\ ~At(v, "summary")
    BY <1>1, <1>2, <1>5, <2>3, Watching DEF At
  <2>4. QED
    BY <2>1, <2>2, <2>3
<1>6. OldestFirstWalkIsExact' /\ NewestFirstWalkMissesOnlyIfTorn'
  BY <1>5 DEF ReportsInv, OldestFirstWalkIsExact, NewestFirstWalkMissesOnlyIfTorn
<1>7. QED
  BY <1>1, <1>3, <1>4, <1>6 DEF ReportsInv

-----------------------------------------------------------------------------
(***************************************************************************)
(* Readers.                                                                *)
(***************************************************************************)

\* What a list holds depends on the table and the filter alone.
LEMMA SameList ==
    ASSUME NEW q, NEW x, x.list = q.list, x.isActive = q.isActive
    PROVE  ListedNow(x) = ListedNow(q)
BY DEF ListedNow, Listed

\* A reader writes nothing but its own slot.
LEMMA OwnSlot ==
    ASSUME ReportsInv, NEW v \in Viewers, NEW x, view' = [view EXCEPT ![v] = x], OnlyReads,
           x = Idle \/ x \in Walk \/ x \in Summary,
           x # Idle /\ x.pc = "read" /\ ~x.moved => OnCourse(x, ListedNow(x)),
           x # Idle /\ x.pc = "summary" => FiguresFit(x),
           x # Idle /\ x.pc = "ended" =>
              /\ x.sort = "asc" /\ ~x.moved => x.start \subseteq Range(x.shown) /\ IsInjective(x.shown)
              /\ x.sort = "desc" /\ ~x.moved /\ ~x.torn => x.start \subseteq Range(x.shown)
    PROVE  ReportsInv'
<1> DEFINE OneView(y) ==
              /\ y # Idle /\ y.pc = "read" /\ ~y.moved => OnCourse(y, ListedNow(y))
              /\ y # Idle /\ y.pc = "summary" => FiguresFit(y)
              /\ y # Idle /\ y.pc = "ended" =>
                    /\ y.sort = "asc" /\ ~y.moved
                          => y.start \subseteq Range(y.shown) /\ IsInjective(y.shown)
                    /\ y.sort = "desc" /\ ~y.moved /\ ~y.torn => y.start \subseteq Range(y.shown)
<1>1. \A u \in Viewers : OneView(view[u])
  BY DEF ReportsInv, OldestFirstWalkIsExact, NewestFirstWalkMissesOnlyIfTorn, At
<1>2. \A u \in Viewers : view'[u] = x \/ view'[u] = view[u]
  OBVIOUS
<1>3. ReportsTypeOK'
  BY <1>2 DEF ReportsInv, ReportsTypeOK, OnlyReads, AccountTypeOK, accountVars
<1>4. OneView(x)
  OBVIOUS
<1>5. \A u \in Viewers : OneView(view'[u])
  <2> HIDE DEF OneView
  <2>1. \A u \in Viewers : OneView(view[u]) /\ OneView(x)
    BY <1>1, <1>4 DEF OneView
  <2>2. QED
    BY <1>2, <2>1
<1>6. \A u \in Viewers :
         /\ OnCourse(view'[u], ListedNow(view'[u])) => OnCourse(view[u], ListedNow(view[u]))'
         /\ FiguresFit(view'[u]) => FiguresFit(view[u])'
  BY DEF OnlyReads, accountVars, ListedNow, FiguresFit, OnCourse, OldestFirst, NewestFirst
<1>7. QED
  BY <1>3, <1>5, <1>6 DEF ReportsInv, OldestFirstWalkIsExact, NewestFirstWalkMissesOnlyIfTorn, At

\* A walk begins.
LEMMA WalkStartStep ==
    ASSUME ReportsInv, NEW v \in Viewers, NEW list \in {"users", "audit_logs"},
           NEW sort \in {"asc", "desc"}, NEW filter \in BOOLEAN \cup {NoFilter}, NEW limit \in Limits,
           WalkStart(v, list, sort, filter, limit)
    PROVE  ReportsInv'
<1> DEFINE q == [list |-> list, isActive |-> filter]
           x == [pc |-> "read", list |-> list, sort |-> sort, isActive |-> filter, limit |-> limit,
                 page |-> 1, rows |-> NotRead, total |-> NotRead, shown |-> <<>>,
                 start |-> Range(ListedNow(q)), moved |-> FALSE, torn |-> FALSE]
<1>1. view' = [view EXCEPT ![v] = x] /\ OnlyReads
  BY DEF WalkStart
<1>2. ReportsTypeOK
  BY DEF ReportsInv
<1>3. ListedNow(q) \in Seq(Users \cup 1..MaxLog)
  BY <1>2, ListRead
<1>4. ListedNow(x) = ListedNow(q)
  BY SameList
<1>5. Range(ListedNow(q)) \in SUBSET (Users \cup 1..MaxLog)
  BY <1>3 DEF Range
<1>6. x \in Walk /\ x.start = Range(ListedNow(x))
  BY <1>4, <1>5 DEF Walk
<1>7. x.page = 1 /\ x.rows = NotRead /\ x.total = NotRead /\ x.shown = <<>> /\ x.pc = "read"
  OBVIOUS
<1> HIDE DEF x
<1>8. OnCourse(x, ListedNow(x))
  BY <1>2, <1>6, <1>7, StartsOnCourse
<1>9. QED
  BY <1>1, <1>6, <1>7, <1>8, OwnSlot

\* Its queries.
LEMMA WalkReadStep ==
    ASSUME ReportsInv, NEW v \in Viewers, WalkRows(v) \/ WalkCount(v)
    PROVE  ReportsInv'
<1> DEFINE w == view[v]
<1>1. ReportsTypeOK /\ At(v, "read") /\ w \in Walk /\ w.pc = "read"
  BY Kinds DEF ReportsInv, WalkRows, WalkCount, At
<1>2. ~w.moved => OnCourse(w, ListedNow(w))
  BY <1>1 DEF ReportsInv
<1>3. CASE WalkRows(v)
  <2> DEFINE x == [w EXCEPT !.rows = PageOf(w)]
  <2>1. view' = [view EXCEPT ![v] = x] /\ OnlyReads /\ w.rows = NotRead
    BY <1>1, <1>3 DEF WalkRows, ReportsTypeOK
  <2>2. PageOf(w) \in Seq(Users \cup 1..MaxLog)
    BY <1>1, PageRead
  <2>3. x \in Walk /\ x.pc = "read" /\ x.list = w.list /\ x.isActive = w.isActive /\ x.moved = w.moved
    BY <1>1, <2>2 DEF Walk
  <2>4. ~w.moved => OnCourse(x, ListedNow(w))
    BY <1>1, <1>2, <2>1, RowsOnCourse
  <2> HIDE DEF x
  <2>5. ListedNow(x) = ListedNow(w)
    BY <2>3, SameList
  <2>6. QED
    BY <2>1, <2>3, <2>4, <2>5, OwnSlot
<1>4. CASE WalkCount(v)
  <2> DEFINE x == [w EXCEPT !.total = Len(ListedNow(w))]
  <2>1. view' = [view EXCEPT ![v] = x] /\ OnlyReads /\ w.total = NotRead
    BY <1>1, <1>4 DEF WalkCount, ReportsTypeOK
  <2>2. ListedNow(w) \in Seq(Users \cup 1..MaxLog)
    BY <1>1, ListRead
  <2>3. x \in Walk /\ x.pc = "read" /\ x.list = w.list /\ x.isActive = w.isActive /\ x.moved = w.moved
    BY <1>1, <2>2 DEF Walk
  <2>4. ~w.moved => OnCourse(x, ListedNow(w))
    BY <1>1, <1>2, <2>1, CountOnCourse
  <2> HIDE DEF x
  <2>5. ListedNow(x) = ListedNow(w)
    BY <2>3, SameList
  <2>6. QED
    BY <2>1, <2>3, <2>4, <2>5, OwnSlot
<1>5. QED
  BY <1>3, <1>4

\* A page is shown.
LEMMA WalkAnswerStep ==
    ASSUME ReportsInv, NEW v \in Viewers, WalkAnswer(v)
    PROVE  ReportsInv'
<1> DEFINE w == view[v]
           shown == w.shown \o w.rows
           more == w.page < totalPages(w.total, w.limit)
           list == ListedNow(w)
<1>1. ReportsTypeOK /\ At(v, "read") /\ w \in Walk /\ w.rows # NotRead /\ w.total # NotRead
  BY Kinds DEF ReportsInv, WalkAnswer
<1>2. ~w.moved => OnCourse(w, list)
  BY <1>1 DEF ReportsInv
<1>3. list \in Seq(Users \cup 1..MaxLog) /\ IsInjective(list)
  BY <1>1, ListRead
<1>4. shown \in Seq(Users \cup 1..MaxLog)
  BY <1>1, ShownGrows
<1>5. CASE more
  <2> DEFINE x == [w EXCEPT !.shown = shown, !.page = @ + 1, !.rows = NotRead,
                            !.total = NotRead, !.torn = FALSE]
  <2>1. view' = [view EXCEPT ![v] = x] /\ OnlyReads
    BY <1>1, <1>5 DEF WalkAnswer
  <2>2. /\ x \in Walk /\ x.pc = w.pc /\ x.list = w.list /\ x.isActive = w.isActive /\ x.moved = w.moved
        /\ x.start = w.start /\ x.sort = w.sort /\ x.limit = w.limit /\ x.page = w.page + 1
        /\ x.shown = w.shown \o w.rows /\ x.rows = NotRead /\ x.total = NotRead
    <3>1. w.page + 1 \in Nat \ {0}
      BY <1>1 DEF Walk
    <3> HIDE DEF shown, list
    <3>2. x \in Walk
      BY <1>1, <1>4, <3>1 DEF Walk
    <3>3. /\ x.pc = w.pc /\ x.list = w.list /\ x.isActive = w.isActive /\ x.moved = w.moved
          /\ x.start = w.start /\ x.sort = w.sort /\ x.limit = w.limit /\ x.page = w.page + 1
          /\ x.shown = shown /\ x.rows = NotRead /\ x.total = NotRead
      BY <1>1 DEF Walk
    <3>4. QED
      BY <3>2, <3>3 DEF shown
  <2> HIDE DEF x, shown, list
  <2>3. ListedNow(x) = list
    BY <2>2, SameList DEF list
  <2>4. ~w.moved => OnCourse(x, list)
    BY <1>1, <1>2, <1>3, <2>2, NextOnCourse
  <2>5. x.pc = "read"
    BY <1>1, <2>2 DEF At
  <2>6. QED
    BY <2>1, <2>2, <2>3, <2>4, <2>5, OwnSlot
<1>6. CASE ~more
  <2> DEFINE x == [w EXCEPT !.shown = shown, !.pc = "ended"]
  <2>1. view' = [view EXCEPT ![v] = x] /\ OnlyReads
    BY <1>1, <1>6 DEF WalkAnswer
  <2>2. /\ x \in Walk /\ x.pc = "ended" /\ x.moved = w.moved /\ x.torn = w.torn
        /\ x.start = w.start /\ x.sort = w.sort /\ x.shown = w.shown \o w.rows
    BY <1>1, <1>4 DEF Walk
  <2> HIDE DEF x, shown, list
  <2>3. ~w.moved =>
           /\ w.sort = "asc" => /\ w.start \subseteq Range(w.shown \o w.rows)
                                /\ IsInjective(w.shown \o w.rows)
           /\ w.sort = "desc" /\ ~w.torn => w.start \subseteq Range(w.shown \o w.rows)
    BY <1>1, <1>2, <1>3, <1>6, LastPageCompletes
  <2>4. QED
    BY <2>1, <2>2, <2>3, OwnSlot
<1>7. QED
  BY <1>5, <1>6

\* The figures of the dashboard.
LEMMA SummaryStartStep ==
    ASSUME ReportsInv, NEW v \in Viewers, NEW d \in 0..log, NEW w \in 0..log, SummaryStart(v, d, w)
    PROVE  ReportsInv'
<1> DEFINE x == [pc |-> "summary", before24h |-> d, before7d |-> w, users |-> NotRead,
                 last24h |-> NotRead, last7d |-> NotRead, torn |-> FALSE]
<1>1. view' = [view EXCEPT ![v] = x] /\ OnlyReads /\ w <= d
  BY DEF SummaryStart
<1>2. log \in Nat /\ log <= MaxLog /\ MaxLog \in Nat
  BY ReportsAssumption DEF ReportsInv, ReportsTypeOK
<1>3. x \in Summary /\ FiguresFit(x) /\ x.pc = "summary"
  BY <1>1, <1>2 DEF Summary, FiguresFit
<1> HIDE DEF x
<1>4. QED
  BY <1>1, <1>3, OwnSlot

\* The table is what the order lists, so it is finite.
LEMMA UsersFinite ==
    ASSUME ReportsTypeOK
    PROVE  IsFiniteSet(users)
<1>1. Len(order) \in Nat /\ order \in Surjection(1..Len(order), users)
  BY DEF ReportsTypeOK, Surjection, Range
<1>2. QED
  BY <1>1, FS_NatSurjection DEF ExistsSurjection

\* Users are finitely many, so those that are active are no more than all.
LEMMA UsersCounted ==
    ASSUME IsFiniteSet(users)
    PROVE  /\ CountUsers \in [total: Nat, active: Nat]
           /\ CountUsers.active <= CountUsers.total
<1> DEFINE all == {u \in users : ~isDeleted[u]}
           active == {u \in users : ~isDeleted[u] /\ isActive[u]}
<1>1. all \in SUBSET users /\ active \in SUBSET all
  OBVIOUS
<1> HIDE DEF all, active
<1>2. IsFiniteSet(all)
  BY <1>1, FS_Subset
<1>3. Cardinality(all) \in Nat /\ Cardinality(active) \in Nat /\ Cardinality(active) <= Cardinality(all)
  BY <1>1, <1>2, FS_Subset, FS_CardinalityType
<1>4. CountUsers = [total |-> Cardinality(all), active |-> Cardinality(active)]
  BY DEF CountUsers, all, active
<1>5. QED
  BY <1>3, <1>4

\* Its queries.
LEMMA SummaryCountStep ==
    ASSUME ReportsInv, NEW v \in Viewers, SummaryCount(v)
    PROVE  ReportsInv'
<1> DEFINE s == view[v]
<1>1. s \in Summary /\ FiguresFit(s) /\ s.pc = "summary" /\ OnlyReads
  BY Kinds DEF ReportsInv, SummaryCount, At
<1>2. log \in Nat
  BY ReportsAssumption DEF ReportsInv, ReportsTypeOK
<1>3. ASSUME NEW x, view' = [view EXCEPT ![v] = x], x \in Summary, x.pc = "summary", FiguresFit(x)
      PROVE  ReportsInv'
  BY <1>1, <1>3, OwnSlot
<1>4. CASE s.users = NotRead /\ view' = [view EXCEPT ![v].users = CountUsers]
  <2> DEFINE x == [s EXCEPT !.users = CountUsers]
  <2>1. view' = [view EXCEPT ![v] = x]
    BY <1>4
  <2>2. x \in Summary /\ x.pc = "summary" /\ FiguresFit(x)
    BY <1>1, UsersFinite, UsersCounted DEF Summary, FiguresFit, ReportsInv
  <2> HIDE DEF x
  <2>3. QED
    BY <1>3, <2>1, <2>2
<1>5. CASE s.last24h = NotRead /\ view' = [view EXCEPT ![v].last24h = log - view[v].before24h]
  <2> DEFINE x == [s EXCEPT !.last24h = log - s.before24h]
  <2>1. view' = [view EXCEPT ![v] = x]
    BY <1>5
  <2>2. x \in Summary /\ x.pc = "summary" /\ FiguresFit(x)
    BY <1>1, <1>2, <1>5 DEF Summary, FiguresFit
  <2> HIDE DEF x
  <2>3. QED
    BY <1>3, <2>1, <2>2
<1>6. CASE s.last7d = NotRead /\ view' = [view EXCEPT ![v].last7d = log - view[v].before7d]
  <2> DEFINE x == [s EXCEPT !.last7d = log - s.before7d]
  <2>1. view' = [view EXCEPT ![v] = x]
    BY <1>6
  <2>2. x \in Summary /\ x.pc = "summary" /\ FiguresFit(x)
    BY <1>1, <1>2, <1>6 DEF Summary, FiguresFit
  <2> HIDE DEF x
  <2>3. QED
    BY <1>3, <2>1, <2>2
<1>7. QED
  BY <1>4, <1>5, <1>6 DEF SummaryCount

-----------------------------------------------------------------------------
(***************************************************************************)
(* Theorems.                                                               *)
(***************************************************************************)

\* Every step keeps the invariant.
LEMMA ReportsInvStep ==
    ASSUME ReportsInv, ReportsNext
    PROVE  ReportsInv'
<1>1. CASE AccountChange \/ Record
  BY <1>1, WriterStep
<1>2. ASSUME NEW v \in Viewers, ViewEnd(v)
      PROVE  ReportsInv'
  BY <1>2, OwnSlot DEF ViewEnd
<1>3. ASSUME NEW v \in Viewers, ViewStep(v)
      PROVE  ReportsInv'
  BY <1>2, <1>3, WalkStartStep, WalkReadStep, WalkAnswerStep, SummaryStartStep, SummaryCountStep
     DEF ViewStep
<1>4. QED
  BY <1>1, <1>3 DEF ReportsNext

\* The invariant holds at the start.
LEMMA ReportsInvInit ==
    ASSUME ReportsInit
    PROVE  ReportsInv
<1>1. AccountTypeOK /\ users = Registered
  BY AccountTypeInit DEF ReportsInit, AccountInit
<1>2. order \in Seq(users) /\ Range(order) = users /\ IsInjective(order)
  BY <1>1, SetListed, ReportsAssumption DEF ReportsInit
<1>3. log \in InitialLog..MaxLog
  BY ReportsAssumption DEF ReportsInit
<1>4. \A v \in Viewers : view[v] = Idle
  BY DEF ReportsInit
<1>5. QED
  BY <1>1, <1>2, <1>3, <1>4
     DEF ReportsInv, ReportsTypeOK, OldestFirstWalkIsExact, NewestFirstWalkMissesOnlyIfTorn, At

\* ReportsInv is an invariant of clients that read beside any writers.
THEOREM ReportsInvariant == ReportsSpec => []ReportsInv
<1>1. ReportsInv /\ UNCHANGED reportVars => ReportsInv'
  <2>1. SUFFICES ASSUME ReportsInv, UNCHANGED reportVars
                 PROVE  ReportsInv'
    OBVIOUS
  <2>2. UNCHANGED <<users, isActive, isDeleted, passwordHash, op, order, log, view>>
    BY <2>1 DEF reportVars, accountVars
  <2>3. ReportsTypeOK'
    BY <2>1, <2>2 DEF ReportsInv, ReportsTypeOK, AccountTypeOK
  <2>4. OldestFirstWalkIsExact' /\ NewestFirstWalkMissesOnlyIfTorn'
    BY <2>1, <2>2 DEF ReportsInv, OldestFirstWalkIsExact, NewestFirstWalkMissesOnlyIfTorn, At
  <2>5. \A v \in Viewers :
           /\ OnCourse(view[v], ListedNow(view[v])) => OnCourse(view[v], ListedNow(view[v]))'
           /\ FiguresFit(view[v]) => FiguresFit(view[v])'
           /\ At(v, "read")' = At(v, "read") /\ At(v, "summary")' = At(v, "summary")
           /\ view[v]' = view[v]
    BY <2>2 DEF At, OnCourse, OldestFirst, NewestFirst, FiguresFit, ListedNow
  <2>6. QED
    BY <2>1, <2>3, <2>4, <2>5 DEF ReportsInv
<1>2. QED
  BY <1>1, ReportsInvInit, ReportsInvStep, PTL DEF ReportsSpec

\* Types, for any page sizes and any number of rows.
THEOREM ReportsTypeCorrect == ReportsSpec => []ReportsTypeOK
<1>1. ReportsInv => ReportsTypeOK
  BY DEF ReportsInv
<1>2. QED
  BY <1>1, ReportsInvariant, PTL

\* Oldest first, every row a walk began with is shown once, whatever is added
\* meanwhile: for lists and pages of any size.
THEOREM OldestFirstIsExact == ReportsSpec => []OldestFirstWalkIsExact
<1>1. ReportsInv => OldestFirstWalkIsExact
  BY DEF ReportsInv
<1>2. QED
  BY <1>1, ReportsInvariant, PTL

\* Newest first, none is missed, unless a row was added between the two queries
\* of the last page.
THEOREM NewestFirstMissesOnlyIfTorn == ReportsSpec => []NewestFirstWalkMissesOnlyIfTorn
<1>1. ReportsInv => NewestFirstWalkMissesOnlyIfTorn
  BY DEF ReportsInv
<1>2. QED
  BY <1>1, ReportsInvariant, PTL

\* The figures of the dashboard fit each other.
THEOREM FiguresAddUp == ReportsSpec => []SummaryAddsUp
<1>1. ReportsInv => SummaryAddsUp
  BY DEF ReportsInv, SummaryAddsUp, FiguresFit
<1>2. QED
  BY <1>1, ReportsInvariant, PTL

\* Those who read change nothing of what they read.
THEOREM ReportsImplementAccounts == ReportsSpec => AccountSpec
<1>1. ReportsInit => AccountInit
  BY DEF ReportsInit
<1>2. ASSUME ReportsNext
      PROVE  AccountNext \/ UNCHANGED accountVars
  BY <1>2 DEF ReportsNext, AccountChange, Record, ViewStep, WalkStart, WalkRows, WalkCount, WalkAnswer,
     SummaryStart, SummaryCount, ViewEnd, OnlyReads
<1>3. UNCHANGED reportVars => UNCHANGED accountVars
  BY DEF reportVars
<1>4. [ReportsNext]_reportVars => [AccountNext]_accountVars
  BY <1>2, <1>3
<1>5. QED
  BY <1>1, <1>4, PTL DEF ReportsSpec, AccountSpec

\* So a deleted account is never let in again here either, ...
THEOREM ReportsDeletedNeverReturns == ReportsSpec => DeletedStaysOut
BY ReportsImplementAccounts, DeletedNeverReturns

\* ... and no registration replaces a row.
THEOREM ReportsRegistrationKeepsRows == ReportsSpec => RegistrationNeverOverwrites
BY ReportsImplementAccounts, RegistrationKeepsRows

=============================================================================
