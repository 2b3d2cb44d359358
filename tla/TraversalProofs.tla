--------------------------- MODULE TraversalProofs ---------------------------
(***************************************************************************)
(* Proofs about Traversal: the type of its state, that no watermark passes *)
(* a listing no run has stored, that what the baseline saw is not reported *)
(* unless it is raised, and that a stored watermark only grows, for every  *)
(* number of listings and of raises, every order of ties, page size, page  *)
(* cap and request budget.                                                 *)
(***************************************************************************)
EXTENDS Traversal, FiniteSetTheorems, TLAPS

-----------------------------------------------------------------------------
\* The inductive invariant.

\* A watermark made of what has been published: its listings have its time, and its
\* time is not ahead of the feed.
Grounded(w) ==
  /\ w.ids \subseteq 1..published
  /\ \A l \in w.ids : TimeOf[l] = w.time
  /\ w.time <= LocalTime

\* Whatever lies below the watermark is among the accounted listings; below a cursor it
\* need not be yet.
AccountsFor(w, accounted) ==
  \A l \in 1..published : Dealt(w, l) => l \in accounted
AccountsAbove(w, accounted, cursor) ==
  \A l \in 1..published : Dealt(w, l) => l \in accounted \/ (cursor # None /\ l < cursor)

\* A row, stored or about to be, that misses nothing: neither does its checkpoint, but
\* for what a traversal resumed at its cursor will come to.
Sound(r, accounted) ==
  /\ Grounded(r.watermark)
  /\ AccountsFor(r.watermark, accounted)
  /\ r.checkpoint # None =>
       /\ Grounded(r.checkpoint.pending)
       /\ AccountsAbove(r.checkpoint.pending, accounted, r.checkpoint.cursor)

\* What no run has to store any more.
Settled == baseline \cup reported \cup gone

\* The relation of WatermarkGrows.
Grows(old, new) ==
  new.time > old.time \/ (new.time = old.time /\ old.ids \subseteq new.ids)

RowIsSound ==
  /\ row = None => baseline = {} /\ reported = {}
  /\ row # None =>
       /\ Sound(row, Settled)
       /\ \A l \in baseline : Dealt(row.watermark, l) \/ l \in gone
  /\ reported \cap baseline = {}

\* The baseline so far: what has been read is in the maximum, and what was on show is
\* in the maximum, or still to be read.
BaselineIsSound ==
  t.phase \in {"baseline", "store"} =>
    /\ row = None
    /\ Grounded(t.maximum)
    /\ \A l \in t.seen : Dealt(t.maximum, l)
    /\ t.last # None => TimeOf[t.last] <= t.maximum.time
    /\ t.shown \subseteq 1..published
    /\ t.phase = "baseline" /\ t.pages = 0 =>
         t.seen = {} /\ t.shown = {} /\ t.cursor = None /\ t.last = None
    /\ t.phase = "baseline" /\ t.pages > 0 => t.cursor # None /\ t.last # None
    /\ t.phase = "store" \/ t.pages > 0 =>
         /\ t.maximum # NoMaximum
         /\ AccountsFor(t.maximum, t.shown \cup t.seen \cup gone)
         /\ \A l \in t.shown :
              \/ l \in gone \/ Dealt(t.maximum, l)
              \/ t.phase = "baseline" /\ l < t.cursor

\* The traversal so far: what it has passed is found, or lies below the stored watermark.
PageIsSound ==
  t.phase = "page" =>
    /\ row # None
    /\ Grounded(t.maximum)
    /\ AccountsAbove(t.maximum, Settled \cup t.found, t.cursor)
    /\ \A l \in t.seen : l \in t.found \/ Dealt(row.watermark, l)
    /\ t.seen # {} => t.last # None

\* The row to be stored, once what was found is.
NextIsSound ==
  t.phase = "describe" =>
    /\ row # None /\ t.next # None
    /\ Sound(t.next, Settled \cup t.found)
    /\ Grows(row.watermark, t.next.watermark)

PagesAreLeft == t.phase \in {"baseline", "page"} => t.pages < MaxPages
FoundIsNews == t.phase \in {"page", "describe"} => t.found \cap baseline = {}

IInv ==
  /\ TypeOK
  /\ RowIsSound
  /\ BaselineIsSound /\ PageIsSound /\ NextIsSound
  /\ PagesAreLeft /\ FoundIsNews

\* Beside it, what list ids have to do with places in the feed.  Whatever a monitor has to
\* do with has been published, and so has a listing of every id that is in use.
ReadIsPublished ==
  /\ reported \cup baseline \subseteq 1..published
  /\ t.phase # "idle" => t.seen \cup t.found \cup t.shown \subseteq 1..published
IdsArePublished ==
  /\ \A l \in 1..published : listId[l] \in 1..published
  /\ \A l \in Listing : l \notin 1..published => listId[l] = l

\* Of two places of one listing it has left the older, for one at a newer time.
LaterPlace(k, l) == k \in gone /\ TimeOf[k] < TimeOf[l]
Superseded ==
  \A k, l \in 1..published : listId[k] = listId[l] /\ k < l => LaterPlace(k, l)

\* A listing on show all through a baseline was not read at another place.
ShownOnce ==
  t.phase # "idle" =>
    \A l \in t.shown \ gone, k \in t.seen : listId[k] = listId[l] => k = l

\* The listing observed last is the oldest so far, and a listing passed over for its id
\* is newer: it was raised since it was read.
Reading == t.phase \in {"baseline", "page"}
LastIsLowest ==
  Reading /\ t.seen # {} => /\ t.last # None
                           /\ \A k \in t.seen : TimeOf[t.last] <= TimeOf[k]
Raised(l) == ~Dealt(t.maximum, l) /\ TimeOf[t.last] < TimeOf[l]
RaisedIsNews ==
  Reading => \A l \in OnShow \ t.seen, k \in t.seen : listId[k] = listId[l] => Raised(l)

\* What is reported, or will be, of a listing of the baseline has a later place.
NewsIsLater ==
  \A k \in baseline :
    /\ \A l \in reported : listId[k] = listId[l] => k < l
    /\ t.phase # "idle" => \A l \in t.found : listId[k] = listId[l] => k < l

FeedInv ==
  /\ ReadIsPublished /\ IdsArePublished /\ Superseded
  /\ ShownOnce /\ LastIsLowest /\ RaisedIsNews /\ NewsIsLater

-----------------------------------------------------------------------------
\* Least and greatest members.  The order of the natural numbers is well founded, so a
\* set of them that is not empty has a least member, and a bounded one a greatest.

LEMMA LeastMember ==
  ASSUME NEW S \in SUBSET Nat, S # {}
  PROVE  \E x \in S : \A y \in S : x <= y
<1> DEFINE Before == OpToRel(<, Nat)
<1>1. IsWellFoundedOn(Before, Nat)
  BY NatLessThanWellFounded
<1> HIDE DEF Before
<1>2. PICK x \in S : \A y \in S : <<y, x>> \notin Before
  BY <1>1, WFMin, Zenon
<1>3. \A k, l \in Nat : l < k => <<l, k>> \in Before
  BY DEF Before, OpToRel
<1>4. ASSUME NEW y \in S PROVE ~(y < x)
  BY <1>2, <1>3, Zenon
<1>5. \A y \in S : x <= y
  BY <1>4
<1> QED BY <1>2, <1>5

LEMMA GreatestMember ==
  ASSUME NEW S \in SUBSET Int, S # {}, NEW n \in Int, \A x \in S : x <= n
  PROVE  \E x \in S : \A y \in S : x >= y
<1> DEFINE T == {n - x : x \in S}
<1>1. T \in SUBSET Nat
  OBVIOUS
<1>2. T # {}
  OBVIOUS
<1> HIDE DEF T
<1>3. PICK d \in T : \A e \in T : d <= e
  BY <1>1, <1>2, LeastMember
<1>4. PICK x \in S : d = n - x
  BY <1>3 DEF T
<1>5. ASSUME NEW y \in S PROVE x >= y
  <2>1. n - y \in T
    BY DEF T
  <2>2. n - x <= n - y
    BY <1>3, <1>4, <2>1
  <2> QED BY <2>2
<1> QED BY <1>5

LEMMA MinIsLeast ==
  ASSUME NEW S \in SUBSET Nat, S # {}
  PROVE  Min(S) \in S /\ \A y \in S : Min(S) <= y
BY LeastMember DEF Min

LEMMA MaxIsGreatest ==
  ASSUME NEW S \in SUBSET Int, S # {}, NEW n \in Int, \A x \in S : x <= n
  PROVE  Max(S) \in S /\ \A y \in S : Max(S) >= y
<1>1. \E x \in S : \A y \in S : x >= y
  BY GreatestMember
<1> QED BY <1>1 DEF Max

-----------------------------------------------------------------------------
\* The feed.

\* The older of two listings is listed no later.
LEMMA OlderIsNoLater ==
  ASSUME NEW k \in Listing, NEW l \in Listing, k <= l
  PROVE  /\ TimeOf[k] \in Nat /\ TimeOf[l] \in Nat
         /\ TimeOf[k] >= 1 /\ TimeOf[k] <= TimeOf[l]
BY BoundsAreNaturals, PublishedInTimeOrder DEF Listing

\* What is published is no newer than the local time.
LEMMA PublishedByLocalTime ==
  ASSUME published \in 0..MaxListing
  PROVE  /\ 1..published \subseteq Listing
         /\ LocalTime \in Nat
         /\ \A l \in 1..published : TimeOf[l] <= LocalTime
<1>1. 1..published \subseteq Listing
  BY BoundsAreNaturals DEF Listing
<1>2. CASE published = 0
  BY <1>1, <1>2 DEF LocalTime
<1>3. CASE published # 0
  <2>1. published \in Listing /\ LocalTime = TimeOf[published]
    BY <1>3, BoundsAreNaturals DEF Listing, LocalTime
  <2>2. \A l \in 1..published : TimeOf[l] <= TimeOf[published]
    BY <1>1, <2>1, OlderIsNoLater, BoundsAreNaturals
  <2>3. TimeOf[published] \in Nat
    BY <2>1, OlderIsNoLater, BoundsAreNaturals DEF Listing
  <2> QED BY <1>1, <2>1, <2>2, <2>3
<1> QED BY <1>2, <1>3

\* The next listing comes after everything a grounded watermark knows.
LEMMA PublishedLater ==
  ASSUME published \in 0..MaxListing, published < MaxListing,
         NEW w, w.time \in Int, Grounded(w)
  PROVE  ~Dealt(w, published + 1)
<1>1. published + 1 \in Listing /\ published + 1 \notin 1..published
  BY BoundsAreNaturals DEF Listing
<1>2. LocalTime <= TimeOf[published + 1] /\ LocalTime \in Nat
  <2>1. CASE published = 0
    BY <1>1, <2>1, OlderIsNoLater, BoundsAreNaturals DEF LocalTime, Listing
  <2>2. CASE published # 0
    <3>1. published \in Listing /\ published <= published + 1
      BY <2>2, BoundsAreNaturals DEF Listing
    <3> QED BY <1>1, <2>2, <3>1, OlderIsNoLater, PublishedByLocalTime DEF LocalTime
  <2> QED BY <2>1, <2>2
<1>3. TimeOf[published + 1] \in Nat
  BY <1>1, PublishedInTimeOrder
<1>4. ~(TimeOf[published + 1] < w.time)
  BY <1>2, <1>3 DEF Grounded
<1> QED BY <1>1, <1>4 DEF Grounded, Dealt

\* A page is the top of what its cursor leads to: nothing on show is skipped.
LEMMA PageIsTop ==
  ASSUME published \in 0..MaxListing,
         NEW S \in SUBSET (1..published), NEW size \in Nat \ {0}
  PROVE  /\ Top(S, size) \subseteq S
         /\ S # {} => Top(S, size) # {}
         /\ \A k \in Top(S, size), l \in S : k <= l => l \in Top(S, size)
<1> published \in Nat
  BY BoundsAreNaturals
<1> DEFINE Above(l) == S \cap (l + 1)..published
<1>1. ASSUME NEW l \in S
      PROVE  IsFiniteSet(Above(l)) /\ Cardinality(Above(l)) \in Nat
  <2>1. IsFiniteSet((l + 1)..published)
    BY FS_Interval
  <2>2. IsFiniteSet(Above(l))
    BY <2>1, FS_Subset
  <2> QED BY <2>2, FS_CardinalityType
<1>2. S # {} => Top(S, size) # {}
  <2> HAVE S # {}
  <2> S \in SUBSET Int /\ published \in Int /\ \A x \in S : x <= published
    OBVIOUS
  <2>1. PICK x \in S : \A y \in S : x >= y
    BY GreatestMember
  <2>2. Above(x) = {}
    BY <2>1
  <2>3. Cardinality(Above(x)) = 0
    BY <2>2, FS_EmptySet
  <2> QED BY <2>1, <2>3 DEF Top
<1>3. ASSUME NEW k \in Top(S, size), NEW l \in S, k <= l
      PROVE  l \in Top(S, size)
  <2>1. k \in S /\ Cardinality(Above(k)) < size
    BY DEF Top
  <2>2. Above(l) \subseteq Above(k)
    BY <1>3, <2>1
  <2>3. Cardinality(Above(l)) <= Cardinality(Above(k))
    BY <1>1, <2>1, <2>2, FS_Subset
  <2>4. Cardinality(Above(l)) \in Nat /\ Cardinality(Above(k)) \in Nat
    BY <1>1, <2>1
  <2>5. Cardinality(Above(l)) < size
    BY <2>1, <2>3, <2>4
  <2> QED BY <2>5 DEF Top
<1> QED BY <1>2, <1>3 DEF Top

\* The cursor of the next page: there is one unless the page was the last of the feed,
\* and it is the page's last listing.
LEMMA CursorIsLast ==
  ASSUME published \in 0..MaxListing,
         NEW S \in SUBSET (1..published), NEW size \in Nat \ {0},
         NEW page, page = Top(S, size),
         NEW next, next = NextCursor(page, S)
  PROVE  /\ page \subseteq S
         /\ next = None => page = S
         /\ next # None => page # {} /\ next \in page
         /\ next # None => \A l \in S \ page : \A k \in page : l < k
         /\ next # None => \A k \in page : next <= k
<1>1. /\ page \subseteq S
      /\ S # {} => page # {}
      /\ \A k \in page, l \in S : k <= l => l \in page
  BY PageIsTop
<1>2. S \subseteq Listing /\ S \subseteq Nat
  BY PublishedByLocalTime
<1>3. CASE page = S
  BY <1>1, <1>3 DEF NextCursor
<1>4. CASE page # S
  <2>1. page # {}
    BY <1>1, <1>4
  <2>2. Min(page) \in page /\ \A k \in page : Min(page) <= k
    BY <1>1, <1>2, <2>1, MinIsLeast
  <2>3. next = Min(page)
    BY <1>4 DEF NextCursor
  <2>4. next # None
    BY <1>1, <1>2, <2>2, <2>3, NoneIsNoRecord
  <2>5. ASSUME NEW l \in S \ page, NEW k \in page PROVE l < k
    BY <1>1, <1>2
  <2> QED BY <1>1, <2>1, <2>2, <2>3, <2>4, <2>5
<1> QED BY <1>3, <1>4

-----------------------------------------------------------------------------
\* Watermarks.

\* The times of some published listings are bounded, and so there is a newest.
LEMMA NewestTime ==
  ASSUME published \in 0..MaxListing, NEW S \in SUBSET (1..published),
         NEW time \in Int
  PROVE  LET newest == Max({time} \cup {TimeOf[l] : l \in S}) IN
         /\ newest \in Int /\ newest >= time
         /\ \A l \in S : newest >= TimeOf[l] /\ TimeOf[l] >= 1
         /\ newest = time \/ \E l \in S : newest = TimeOf[l]
<1> DEFINE T == {time} \cup {TimeOf[l] : l \in S}
           n == IF time <= LocalTime THEN LocalTime ELSE time
<1>1. \A l \in S : TimeOf[l] \in Nat /\ TimeOf[l] >= 1 /\ TimeOf[l] <= LocalTime
  BY PublishedByLocalTime, PublishedInTimeOrder
<1>2. LocalTime \in Nat
  BY PublishedByLocalTime
<1>3. T \in SUBSET Int /\ T # {}
  BY <1>1
<1>4. n \in Int /\ \A x \in T : x <= n
  BY <1>1, <1>2
<1> HIDE DEF T, n
<1>5. Max(T) \in T /\ \A y \in T : Max(T) >= y
  BY <1>3, <1>4, MaxIsGreatest
<1>6. /\ Max(T) \in Int /\ Max(T) >= time
      /\ \A l \in S : Max(T) >= TimeOf[l] /\ TimeOf[l] >= 1
      /\ Max(T) = time \/ \E l \in S : Max(T) = TimeOf[l]
  BY <1>1, <1>3, <1>5 DEF T
<1> QED BY <1>6 DEF T

\* What the maximum of a traversal becomes once some listings are processed.
LEMMA MaximumGrows ==
  ASSUME published \in 0..MaxListing, NEW S \in SUBSET (1..published),
         NEW max \in Watermark \cup {NoMaximum}, Grounded(max)
  PROVE  /\ WithMaximum(max, S) \in Watermark \cup {NoMaximum}
         /\ Grounded(WithMaximum(max, S))
         /\ WithMaximum(max, S).time \in Int /\ max.time <= WithMaximum(max, S).time
         /\ S # {} \/ max # NoMaximum =>
              WithMaximum(max, S) # NoMaximum /\ WithMaximum(max, S) \in Watermark
         /\ \A l \in S : Dealt(WithMaximum(max, S), l)
                         /\ TimeOf[l] <= WithMaximum(max, S).time
         /\ \A l \in Listing : Dealt(max, l) => Dealt(WithMaximum(max, S), l)
<1> DEFINE w == WithMaximum(max, S)
<1>1. max.time \in Int /\ max.time >= -1 /\ max.ids \subseteq Listing
  BY DEF Watermark, NoMaximum
<1>2. S \subseteq Listing /\ LocalTime \in Nat /\ \A l \in S : TimeOf[l] <= LocalTime
  BY PublishedByLocalTime
<1>3. /\ w.time \in Int /\ w.time >= max.time
      /\ \A l \in S : w.time >= TimeOf[l] /\ TimeOf[l] >= 1
      /\ w.time = max.time \/ \E l \in S : w.time = TimeOf[l]
  BY <1>1, NewestTime DEF WithMaximum
<1>4. w.ids = {l \in S : TimeOf[l] = w.time} \cup
                IF w.time = max.time THEN max.ids ELSE {}
  BY DEF WithMaximum
<1>5. w = [time |-> w.time, ids |-> w.ids]
  BY DEF WithMaximum
<1>6. \A l \in Listing : TimeOf[l] \in Nat
  BY PublishedInTimeOrder
<1> HIDE DEF w
<1>7. Grounded(w)
  BY <1>1, <1>2, <1>3, <1>4 DEF Grounded
<1>8. S # {} \/ max # NoMaximum => w # NoMaximum /\ w \in Watermark
  <2>1. S # {} \/ max # NoMaximum => w.time >= 0
    <3>1. ASSUME NEW l \in S PROVE w.time >= 0
      <4>1. w.time >= TimeOf[l] /\ TimeOf[l] \in Nat
        BY <1>2, <1>3, <1>6
      <4> QED BY <1>3, <4>1
    <3>2. max # NoMaximum => max.time \in Nat
      BY DEF Watermark
    <3>3. max # NoMaximum => w.time >= 0
      BY <1>3, <3>2
    <3> QED BY <3>1, <3>3
  <2>2. w.time >= 0 => w.time \in Nat
    BY <1>3
  <2>3. w.ids \subseteq Listing
    BY <1>1, <1>2, <1>4
  <2>4. w.time >= 0 => w # NoMaximum
    BY DEF NoMaximum
  <2> QED BY <1>5, <2>1, <2>2, <2>3, <2>4 DEF Watermark
<1>9. S = {} => w = max
  <2> HAVE S = {}
  <2>1. w.time = max.time
    BY <1>3
  <2>2. w.ids = max.ids
    BY <1>4, <2>1
  <2>3. max = [time |-> max.time, ids |-> max.ids]
    BY DEF Watermark, NoMaximum
  <2> QED BY <1>5, <2>1, <2>2, <2>3
<1>10. \A l \in S : Dealt(w, l) /\ TimeOf[l] <= w.time
  <2> TAKE l \in S
  <2>1. TimeOf[l] <= w.time /\ TimeOf[l] \in Nat
    BY <1>2, <1>3, <1>6
  <2>2. TimeOf[l] = w.time => l \in w.ids
    BY <1>4
  <2> QED BY <1>3, <2>1, <2>2 DEF Dealt
<1>11. ASSUME NEW l \in Listing, Dealt(max, l) PROVE Dealt(w, l)
  <2>1. CASE w.time = max.time
    BY <1>4, <1>11, <2>1 DEF Dealt
  <2>2. CASE w.time > max.time
    <3>1. TimeOf[l] <= max.time
      BY <1>1, <1>6, <1>11 DEF Dealt, Grounded
    <3> QED BY <1>1, <1>3, <1>6, <2>2, <3>1 DEF Dealt
  <2> QED BY <1>1, <1>3, <2>1, <2>2
<1>12. w \in Watermark \cup {NoMaximum}
  BY <1>8, <1>9
<1> QED BY <1>1, <1>3, <1>7, <1>8, <1>10, <1>11, <1>12 DEF w

\* What the new maximum passes beyond the old one is older than a listing just processed.
LEMMA OvertakenIsOlder ==
  ASSUME published \in 0..MaxListing, NEW S \in SUBSET (1..published),
         NEW max \in Watermark \cup {NoMaximum},
         NEW l \in Listing, Dealt(WithMaximum(max, S), l), ~Dealt(max, l), l \notin S
  PROVE  \E k \in S : l < k /\ max.time < TimeOf[k]
<1> DEFINE w == WithMaximum(max, S)
<1>1. max.time \in Int
  BY DEF Watermark, NoMaximum
<1>2. S \subseteq Listing /\ \A k \in Listing : TimeOf[k] \in Nat
  BY PublishedByLocalTime, PublishedInTimeOrder
<1>3. /\ w.time \in Int /\ w.time >= max.time
      /\ w.time = max.time \/ \E k \in S : w.time = TimeOf[k]
  BY <1>1, NewestTime DEF WithMaximum
<1>4. w.ids = {k \in S : TimeOf[k] = w.time} \cup
                IF w.time = max.time THEN max.ids ELSE {}
  BY DEF WithMaximum
<1>5. Dealt(w, l)
  OBVIOUS
<1> HIDE DEF w
<1>6. l \in w.ids => w.time = max.time /\ l \in max.ids
  BY <1>4
<1>7. TimeOf[l] < w.time /\ w.time # max.time
  BY <1>5, <1>6 DEF Dealt
<1>8. PICK k \in S : w.time = TimeOf[k]
  BY <1>3, <1>7
<1>9. k \in Listing /\ ~(k <= l)
  BY <1>2, <1>7, <1>8, OlderIsNoLater
<1>10. max.time < TimeOf[k]
  BY <1>1, <1>3, <1>7, <1>8
<1> QED BY <1>9, <1>10 DEF Listing

\* A watermark that grew has dealt with all it had dealt with before.
LEMMA DealtIsKept ==
  ASSUME NEW old \in Watermark, \A l \in old.ids : TimeOf[l] = old.time,
         NEW new \in Watermark, Grows(old, new), NEW l \in Listing, Dealt(old, l)
  PROVE  Dealt(new, l)
<1>1. TimeOf[l] \in Nat /\ old.time \in Nat /\ new.time \in Nat
  BY PublishedInTimeOrder DEF Watermark
<1>2. TimeOf[l] <= old.time
  BY <1>1 DEF Dealt
<1>3. CASE new.time > old.time
  BY <1>1, <1>2, <1>3 DEF Dealt
<1>4. CASE new.time = old.time /\ old.ids \subseteq new.ids
  BY <1>4 DEF Dealt
<1> QED BY <1>3, <1>4 DEF Grows

\* The traversal finds what the stored watermark has not dealt with.
LEMMA NewIsNotDealt ==
  ASSUME row \in Row, Grounded(Previous), NEW l \in Listing
  PROVE  IsNew(l) <=> ~Dealt(Previous, l)
<1>1. TimeOf[l] \in Nat /\ Previous.time \in Nat
  BY PublishedInTimeOrder DEF Previous, Row, Watermark
<1>2. l \in Previous.ids => TimeOf[l] = Previous.time
  BY DEF Grounded
<1> QED BY <1>1, <1>2 DEF IsNew, Dealt

\* What a run leaves out of a page lies below the stored watermark.
LEMMA BoundaryIsBelow ==
  ASSUME published \in 0..MaxListing, NEW S \in SUBSET (1..published)
  PROVE  /\ UpToBoundary(S) \subseteq S
         /\ S # {} => UpToBoundary(S) # {}
         /\ \A l \in S \ UpToBoundary(S) : l \in Below(S)
<1>1. CASE Below(S) = {}
  BY <1>1 DEF UpToBoundary
<1>2. CASE Below(S) # {}
  <2>1. UpToBoundary(S) = S \ {l \in Below(S) : l < Max(Below(S))}
    BY <1>2 DEF UpToBoundary
  <2>2. Below(S) \subseteq S /\ Below(S) \in SUBSET Int
    <3>1. Below(S) \subseteq S
      BY DEF Below
    <3>2. S \subseteq Int
      OBVIOUS
    <3> QED BY <3>1, <3>2
  <2>3. published \in Int
    BY BoundsAreNaturals
  <2>4. \A l \in S : l <= published
    BY <2>3
  <2>5. Max(Below(S)) \in Below(S)
    BY <1>2, <2>2, <2>3, <2>4, MaxIsGreatest
  <2>6. Max(Below(S)) \in UpToBoundary(S)
    BY <2>1, <2>2, <2>5
  <2> QED BY <2>1, <2>6
<1> QED BY <1>1, <1>2

\* The watermark a run accumulates: it grows from the stored one, and deals with no more
\* than that and the maximum of the traversal do.
LEMMA AccumulatedGrows ==
  ASSUME published \in 0..MaxListing, row \in Row, Grounded(Previous),
         NEW max \in Watermark \cup {NoMaximum}, Grounded(max),
         NEW w, w = Accumulated(max)
  PROVE  /\ w \in Watermark /\ Grounded(w) /\ Grows(Previous, w)
         /\ \A l \in Listing : Dealt(w, l) => Dealt(Previous, l) \/ Dealt(max, l)
<1>1. /\ Previous \in Watermark
      /\ Previous.time \in Nat /\ Previous.ids \subseteq Listing
  BY DEF Previous, Row, Watermark
<1>2. max.time \in Int /\ max.ids \subseteq Listing
  BY DEF Watermark, NoMaximum
<1>3. CASE max.time < Previous.time
  <2>1. w = Previous
    BY <1>3 DEF Accumulated
  <2> QED BY <1>1, <2>1 DEF Grows
<1>4. CASE max.time = Previous.time
  <2>1. w = [time |-> Previous.time, ids |-> Previous.ids \cup max.ids]
    BY <1>1, <1>2, <1>4 DEF Accumulated
  <2>2. w \in Watermark /\ w.time = Previous.time /\ w.ids = Previous.ids \cup max.ids
    BY <1>1, <1>2, <2>1 DEF Watermark
  <2>3. Grounded(w)
    BY <1>4, <2>2 DEF Grounded
  <2>4. Grows(Previous, w)
    BY <2>2 DEF Grows
  <2>5. \A l \in Listing : Dealt(w, l) => Dealt(Previous, l) \/ Dealt(max, l)
    BY <2>2 DEF Dealt
  <2> QED BY <2>2, <2>3, <2>4, <2>5
<1>5. CASE max.time > Previous.time
  <2>1. w = max
    BY <1>1, <1>2, <1>5 DEF Accumulated
  <2>2. max \in Watermark
    BY <1>1, <1>5 DEF NoMaximum
  <2> QED BY <1>5, <2>1, <2>2 DEF Grows
<1> QED BY <1>1, <1>2, <1>3, <1>4, <1>5

-----------------------------------------------------------------------------
\* The state.

\* Busy or idle, a traversal's fields have their types.
LEMMA TypesOfTraversal ==
  ASSUME TypeOK
  PROVE  /\ published \in 0..MaxListing /\ published \in Nat
         /\ OnShow \subseteq 1..published /\ OnShow \subseteq Listing
         /\ gone \subseteq Listing /\ reported \subseteq Listing
         /\ baseline \subseteq Listing /\ described \subseteq Listing
         /\ row # None => row \in Row
         /\ t.phase # "idle" => t \in Traversing
         /\ t.phase = "idle" => t = Idle
<1>1. published \in 0..MaxListing /\ published \in Nat
  BY BoundsAreNaturals DEF TypeOK
<1>2. 1..published \subseteq Listing
  BY <1>1, PublishedByLocalTime
<1>3. Idle.phase = "idle" /\ \A x \in Traversing : x.phase # "idle"
  BY DEF Idle, Traversing
<1> QED BY <1>1, <1>2, <1>3 DEF TypeOK, OnShow

\* The stored watermark of a sound row.
LEMMA StoredWatermark ==
  ASSUME TypeOK, RowIsSound, row # None
  PROVE  /\ row \in Row /\ Previous = row.watermark /\ Previous \in Watermark
         /\ Grounded(Previous) /\ AccountsFor(Previous, Settled)
<1>1. row \in Row
  BY TypesOfTraversal
<1> QED BY <1>1 DEF RowIsSound, Sound, Previous, Row

-----------------------------------------------------------------------------
\* A page of an incremental run.

\* What the page is, whatever its cursor leads to.
LEMMA PageOfFeed ==
  ASSUME TypeOK, NEW cursor, NEW slip \in Nat, NEW size \in Nat \ {0},
         NEW older, older = Older(cursor, slip),
         NEW page, page = Top(older, size),
         NEW next, next = NextCursor(page, older)
  PROVE  /\ older \subseteq OnShow /\ older \subseteq 1..published
         /\ page \subseteq older /\ page \subseteq Listing
         /\ Fresh(page) \subseteq page
         /\ next = None => page = older
         /\ next # None => page # {} /\ next \in page
         /\ next # None => \A l \in older \ page : \A k \in page : l < k
         /\ next # None => \A k \in page : next <= k
         /\ next \in Listing \cup {None}
<1>1. older \subseteq OnShow /\ older \subseteq 1..published
  BY TypesOfTraversal DEF Older
<1>2. published \in 0..MaxListing
  BY TypesOfTraversal
<1>3. /\ page \subseteq older
      /\ next = None => page = older
      /\ next # None => page # {} /\ next \in page
      /\ next # None => \A l \in older \ page : \A k \in page : l < k
      /\ next # None => \A k \in page : next <= k
  BY <1>1, <1>2, CursorIsLast
<1>4. older \subseteq Listing
  BY <1>1, TypesOfTraversal
<1> QED BY <1>1, <1>3, <1>4 DEF Fresh

\* A listing below the cursor of a traversal is shown on the page, left to the next one,
\* or gone.
LEMMA NothingIsSkipped ==
  ASSUME TypeOK, NEW cursor \in Listing \cup {None},
         NEW slip \in Nat, NEW size \in Nat \ {0},
         NEW l \in 1..published, cursor # None => l < cursor,
         l \notin gone, l \notin Top(Older(cursor, slip), size)
  PROVE  /\ l \in Older(cursor, slip)
         /\ NextCursor(Top(Older(cursor, slip), size), Older(cursor, slip)) # None
         /\ l < NextCursor(Top(Older(cursor, slip), size), Older(cursor, slip))
<1>1. l \in Older(cursor, slip)
  BY DEF Older, OnShow, Listing
<1> QED BY <1>1, PageOfFeed

\* The listing observed last.
LEMMA LastIsSeen ==
  ASSUME NEW S \in SUBSET Listing
  PROVE  /\ S # {} => LastSeen(S) \in S
         /\ S = {} => LastSeen(S) = t.last
<1>1. S \in SUBSET Nat
  BY DEF Listing
<1> QED BY <1>1, MinIsLeast DEF LastSeen

\* What the traversal finds among the listings it processes.
New(S) == {l \in S : IsNew(l)}

\* What it has passed is found, or dealt with by the stored watermark.
PassedAreFound(S, found) == \A l \in S : l \in found \/ Dealt(Previous, l)

\* A page under way, and what IncrementalPage makes of it.
PageAt(slip, size) == Top(Older(t.cursor, slip), size)
NextAt(slip, size) == NextCursor(PageAt(slip, size), Older(t.cursor, slip))
ProcessedAt(slip, size) == UpToBoundary(Fresh(PageAt(slip, size)))
MaximumAt(slip, size) == WithMaximum(t.maximum, ProcessedAt(slip, size))
FoundAt(slip, size) == t.found \cup New(ProcessedAt(slip, size))
LastAt(slip, size) == LastSeen(ProcessedAt(slip, size))
CrossedAt(slip, size) == Below(Fresh(PageAt(slip, size))) # {}
RowAt(slip, size) == RowAfter(MaximumAt(slip, size), LastAt(slip, size),
                              NextAt(slip, size), CrossedAt(slip, size))

\* Once a page has shown anything, there is a listing observed last.
LEMMA PageHasLast ==
  ASSUME TypeOK, PageIsSound, t.phase = "page", NEW slip \in Nat, NEW size \in Nat \ {0}
  PROVE  /\ LastAt(slip, size) \in Listing \cup {None}
         /\ t.seen \cup PageAt(slip, size) # {} => LastAt(slip, size) # None
<1> DEFINE page == PageAt(slip, size)
           processed == ProcessedAt(slip, size)
<1>1. published \in 0..MaxListing /\ t \in Traversing
  BY TypesOfTraversal
<1>2. t.last \in Listing \cup {None}
  BY <1>1 DEF Traversing
<1>3. /\ Fresh(page) \subseteq 1..published /\ Fresh(page) \subseteq Listing
      /\ page # {} /\ t.seen = {} => Fresh(page) # {}
  BY PageOfFeed DEF PageAt, Fresh
<1>4. processed \subseteq Listing /\ (Fresh(page) # {} => processed # {})
  BY <1>1, <1>3, BoundaryIsBelow DEF ProcessedAt
<1>5. CASE processed # {}
  BY <1>4, <1>5, LastIsSeen, NoneIsNoRecord DEF LastAt
<1>6. CASE processed = {}
  <2>1. page # {} => t.seen # {}
    BY <1>3, <1>4, <1>6
  <2> QED BY <1>2, <1>4, <1>6, <2>1, LastIsSeen DEF LastAt, PageIsSound
<1> QED BY <1>5, <1>6

\* A listing passed over for its id is news still once some of the page is processed: no
\* listing of the page is newer than the one observed last, and so none overtakes it.
LEMMA RaisedStaysNews ==
  ASSUME TypeOK, LastIsLowest, RaisedIsNews, Reading, NEW slip \in Nat,
         NEW size \in Nat \ {0}, ~Rises(PageAt(slip, size)),
         NEW S \in SUBSET Fresh(PageAt(slip, size)),
         NEW l \in OnShow \ t.seen, l \notin S, NEW k \in t.seen, listId[k] = listId[l]
  PROVE  ~Dealt(WithMaximum(t.maximum, S), l)
<1> DEFINE fresh == Fresh(PageAt(slip, size))
<1>1. /\ published \in 0..MaxListing /\ published \in Nat /\ t \in Traversing
      /\ OnShow \subseteq Listing
  BY TypesOfTraversal DEF Reading
<1>2. t.maximum \in Watermark \cup {NoMaximum} /\ t.last \in Listing \cup {None}
  BY <1>1 DEF Traversing
<1>3. fresh \subseteq 1..published /\ fresh \subseteq Listing
  BY PageOfFeed DEF PageAt
<1>4. /\ t.last # None /\ TimeOf[t.last] < TimeOf[l] /\ ~Dealt(t.maximum, l)
  BY DEF LastIsLowest, RaisedIsNews, Raised
<1> SUFFICES ASSUME Dealt(WithMaximum(t.maximum, S), l) PROVE FALSE
  OBVIOUS
<1>5. PICK j \in S : l < j
  <2>1. S \in SUBSET (1..published) /\ l \in Listing
    BY <1>1, <1>3
  <2> QED BY <1>1, <1>2, <1>4, <2>1, OvertakenIsOlder
<1>6. /\ fresh \in SUBSET Int /\ fresh # {} /\ published \in Int
      /\ \A i \in fresh : i <= published
  BY <1>1, <1>3, <1>5
<1>7. Max(fresh) \in fresh /\ Max(fresh) >= j
  BY <1>5, <1>6, MaxIsGreatest
<1>8. ~(TimeOf[Max(fresh)] > TimeOf[t.last])
  BY <1>4, <1>6 DEF Rises
<1> HIDE DEF fresh
<1>9. /\ TimeOf[l] <= TimeOf[Max(fresh)]
      /\ TimeOf[l] \in Nat /\ TimeOf[Max(fresh)] \in Nat
  <2>1. l \in Listing /\ Max(fresh) \in Listing /\ j \in Listing
    BY <1>1, <1>3, <1>7 DEF fresh
  <2>2. l <= Max(fresh)
    BY <1>5, <1>7, <2>1 DEF Listing
  <2> QED BY <2>1, <2>2, OlderIsNoLater
<1>10. TimeOf[t.last] \in Nat
  BY <1>2, <1>4, PublishedInTimeOrder
<1> QED BY <1>4, <1>8, <1>9, <1>10

\* A page of an incremental run keeps the account: what it passes is found, or dealt with
\* by the stored watermark; what the new maximum passes is accounted for, or lies below
\* the next cursor.
LEMMA PageKeepsAccount ==
  ASSUME TypeOK, RowIsSound, PageIsSound, FoundIsNews, FeedInv, t.phase = "page",
         NEW slip \in Nat, NEW size \in Nat \ {0}, ~Rises(PageAt(slip, size))
  PROVE  /\ MaximumAt(slip, size) \in Watermark \cup {NoMaximum}
         /\ Grounded(MaximumAt(slip, size))
         /\ AccountsAbove(MaximumAt(slip, size), Settled \cup FoundAt(slip, size),
                          NextAt(slip, size))
         /\ PassedAreFound(t.seen \cup ProcessedAt(slip, size), FoundAt(slip, size))
         /\ FoundAt(slip, size) \subseteq Listing
         /\ FoundAt(slip, size) \cap baseline = {}
<1> DEFINE older == Older(t.cursor, slip)
           page == PageAt(slip, size)
           next == NextAt(slip, size)
           processed == ProcessedAt(slip, size)
           maximum == MaximumAt(slip, size)
           found == FoundAt(slip, size)
<1>1. /\ older = Older(t.cursor, slip) /\ page = Top(older, size)
      /\ next = NextCursor(page, older) /\ processed = UpToBoundary(Fresh(page))
      /\ maximum = WithMaximum(t.maximum, processed)
      /\ found = t.found \cup New(processed)
  BY DEF PageAt, NextAt, ProcessedAt, MaximumAt, FoundAt
<1> HIDE DEF older, page, next, processed, maximum, found
<1> DEFINE accounted == Settled \cup found
<1>2. /\ published \in 0..MaxListing
      /\ t \in Traversing /\ row \in Row
      /\ OnShow \subseteq Listing /\ OnShow \cap gone = {}
      /\ 1..published \subseteq Listing
      /\ Previous = row.watermark /\ Grounded(Previous) /\ AccountsFor(Previous, Settled)
  BY TypesOfTraversal, StoredWatermark, PublishedByLocalTime DEF PageIsSound, OnShow
<1>3. /\ t.cursor \in Listing \cup {None}
      /\ t.maximum \in Watermark \cup {NoMaximum} /\ Grounded(t.maximum)
      /\ t.seen \subseteq Listing /\ t.found \subseteq Listing
  BY <1>2 DEF Traversing, PageIsSound
<1>4. /\ older \subseteq OnShow /\ older \subseteq 1..published
      /\ page \subseteq older /\ page \subseteq Listing
      /\ Fresh(page) \subseteq page
  BY <1>1, PageOfFeed
<1>5. /\ processed \subseteq Fresh(page)
      /\ Fresh(page) # {} => processed # {}
      /\ \A l \in Fresh(page) \ processed : l \in Below(Fresh(page))
  BY <1>1, <1>2, <1>4, BoundaryIsBelow
<1>6. processed \subseteq 1..published /\ processed \subseteq Listing
  BY <1>4, <1>5
<1>7. \A l \in t.seen \cup Fresh(page) : l \in found \/ Dealt(Previous, l)
  <2>1. ASSUME NEW l \in t.seen PROVE l \in found \/ Dealt(Previous, l)
    BY <1>1, <1>2 DEF PageIsSound
  <2>2. ASSUME NEW l \in processed PROVE l \in found \/ Dealt(Previous, l)
    BY <1>1, <1>2, <1>6, NewIsNotDealt DEF New
  <2>3. ASSUME NEW l \in Fresh(page) \ processed PROVE Dealt(Previous, l)
    BY <1>5 DEF Below, Dealt
  <2> QED BY <2>1, <2>2, <2>3
<1>8. maximum \in Watermark \cup {NoMaximum} /\ Grounded(maximum)
  <2>1. processed \in SUBSET (1..published)
    BY <1>6
  <2>2. maximum = WithMaximum(t.maximum, processed)
    BY <1>1
  <2> QED BY <1>2, <1>3, <2>1, <2>2, MaximumGrows
<1>9. ASSUME NEW l \in 1..published, Dealt(maximum, l)
      PROVE  l \in accounted \/ (next # None /\ l < next)
  <2>1. ASSUME l \in page PROVE l \in accounted
    <3>1. l \in t.seen \cup Fresh(page) => l \in accounted
      BY <1>2, <1>7 DEF AccountsFor
    <3>2. ASSUME l \notin t.seen, l \notin Fresh(page) PROVE FALSE
      <4>1. PICK k \in t.seen : listId[k] = listId[l]
        BY <2>1, <3>2 DEF Fresh
      <4>2. l \in OnShow \ t.seen /\ l \notin processed
        BY <1>4, <1>5, <2>1, <3>2
      <4>3. processed \in SUBSET Fresh(PageAt(slip, size))
        BY <1>1, <1>5 DEF PageAt
      <4>4. Reading
        BY DEF Reading
      <4>5. ~Dealt(WithMaximum(t.maximum, processed), l)
        BY <4>1, <4>2, <4>3, <4>4, RaisedStaysNews DEF FeedInv
      <4> QED BY <1>1, <1>9, <4>5
    <3> QED BY <3>1, <3>2
  <2>2. ASSUME t.cursor # None => l < t.cursor
        PROVE  l \in accounted \/ (next # None /\ l < next)
    <3>1. ASSUME l \notin gone, l \notin page PROVE next # None /\ l < next
      <4>1. page = Top(Older(t.cursor, slip), size)
        BY <1>1
      <4>2. next = NextCursor(Top(Older(t.cursor, slip), size), Older(t.cursor, slip))
        BY <1>1
      <4>3. l \notin Top(Older(t.cursor, slip), size)
        BY <3>1, <4>1
      <4>4. t.cursor \in Listing \cup {None} /\ (t.cursor # None => l < t.cursor)
        BY <1>3, <2>2
      <4>5. l \notin gone
        BY <3>1
      <4>6. /\ NextCursor(Top(Older(t.cursor, slip), size), Older(t.cursor, slip)) # None
            /\ l < NextCursor(Top(Older(t.cursor, slip), size), Older(t.cursor, slip))
        BY ONLY <4>3, <4>4, <4>5, TypeOK, slip \in Nat, size \in Nat \ {0},
                l \in 1..published, NothingIsSkipped
      <4> QED BY <4>2, <4>6
    <3>2. l \in gone => l \in accounted
      BY DEF Settled
    <3> QED BY <2>1, <3>1, <3>2
  <2>3. CASE Dealt(t.maximum, l)
    <3>1. l \in Settled \cup t.found \/ (t.cursor # None /\ l < t.cursor)
      BY <2>3 DEF PageIsSound, AccountsAbove
    <3>2. l \in Settled \cup t.found => l \in accounted
      BY <1>1
    <3> QED BY <2>2, <3>1, <3>2
  <2>4. CASE l \in processed
    BY <1>4, <1>5, <2>1, <2>4
  <2>5. CASE ~Dealt(t.maximum, l) /\ l \notin processed
    <3>1. PICK k \in processed : l < k
      BY <1>1, <1>2, <1>3, <1>6, <1>9, <2>5, OvertakenIsOlder
    <3>2. k \in older /\ k \in Int
      BY <1>4, <1>5, <1>6
    <3>3. CASE t.cursor = None
      BY <2>2, <3>3
    <3>4. CASE t.cursor # None
      <4>1. k < t.cursor + slip
        BY <1>1, <3>2, <3>4 DEF Older
      <4>2. l \in gone \/ l \in older
        BY <1>1, <1>3, <3>1, <3>2, <3>4, <4>1 DEF Older, OnShow, Listing
      <4>3. l \in older \ page => next # None /\ l < next
        BY <1>1, PageOfFeed
      <4> QED BY <2>1, <4>2, <4>3 DEF Settled
    <3> QED BY <3>3, <3>4
  <2> QED BY <2>3, <2>4, <2>5
<1>10. found \subseteq Listing /\ found \cap baseline = {}
  <2> t.found \cap baseline = {}
    BY DEF FoundIsNews
  <2>1. ASSUME NEW l \in processed, IsNew(l) PROVE l \notin baseline
    <3>1. l \in Listing /\ l \notin gone
      BY <1>2, <1>4, <1>5, <1>6
    <3>2. ~Dealt(Previous, l)
      BY <1>2, <2>1, <3>1, NewIsNotDealt
    <3> QED BY <1>2, <3>1, <3>2 DEF RowIsSound, PageIsSound
  <2> QED BY <1>1, <1>3, <1>6, <2>1 DEF New
<1>11. AccountsAbove(maximum, Settled \cup found, next)
  BY <1>9 DEF AccountsAbove
<1> QED BY <1>5, <1>7, <1>8, <1>10, <1>11
        DEF PassedAreFound, page, next, processed, maximum, found

\* The row of a run that is done misses nothing, whether it promotes the watermark or
\* keeps it and leaves a checkpoint.
LEMMA NextRowIsSound ==
  ASSUME TypeOK, RowIsSound, PageIsSound, FoundIsNews, FeedInv, t.phase = "page",
         NEW slip \in Nat, NEW size \in Nat \ {0}, ~Rises(PageAt(slip, size))
  PROVE  /\ RowAt(slip, size) \in Row
         /\ Sound(RowAt(slip, size), Settled \cup FoundAt(slip, size))
         /\ Grows(Previous, RowAt(slip, size).watermark)
<1> DEFINE older == Older(t.cursor, slip)
           page == PageAt(slip, size)
           next == NextAt(slip, size)
           maximum == MaximumAt(slip, size)
           found == FoundAt(slip, size)
           last == LastAt(slip, size)
           crossed == CrossedAt(slip, size)
           r == RowAt(slip, size)
<1>1. /\ older = Older(t.cursor, slip) /\ page = Top(older, size)
      /\ next = NextCursor(page, older)
      /\ last \in Listing \cup {None} /\ (page # {} => last # None)
  BY PageHasLast DEF PageAt, NextAt
<1>2. r = RowAfter(maximum, last, next, crossed)
  BY DEF RowAt
<1>3. crossed <=> Below(Fresh(page)) # {}
  BY DEF CrossedAt
<1> DEFINE w == Accumulated(maximum)
           accounted == Settled \cup found
<1>4. /\ maximum \in Watermark \cup {NoMaximum} /\ Grounded(maximum)
      /\ AccountsAbove(maximum, accounted, next)
  BY PageKeepsAccount
<1> HIDE DEF older, page, next, maximum, found, last, crossed, r
<1>5. /\ row \in Row /\ published \in 0..MaxListing /\ 1..published \subseteq Listing
      /\ Previous \in Watermark /\ Grounded(Previous) /\ AccountsFor(Previous, accounted)
  BY TypesOfTraversal, StoredWatermark, PublishedByLocalTime DEF PageIsSound, AccountsFor
<1>6. /\ w \in Watermark /\ Grounded(w) /\ Grows(Previous, w)
      /\ \A l \in Listing : Dealt(w, l) => Dealt(Previous, l) \/ Dealt(maximum, l)
  BY <1>4, <1>5, AccumulatedGrows
<1>7. AccountsAbove(w, accounted, next)
  BY <1>4, <1>5, <1>6 DEF AccountsAbove, AccountsFor
<1>8. /\ page \subseteq Listing /\ Fresh(page) \subseteq page
      /\ next \in Listing \cup {None}
      /\ next # None => page # {} /\ next \in page
      /\ next # None => \A k \in page : next <= k
  BY <1>1, PageOfFeed
<1> HIDE DEF w, accounted
<1>9. CASE crossed \/ next = None
  <2>1. r = [watermark |-> w, checkpoint |-> None]
    BY <1>2, <1>9 DEF RowAfter, w
  <2>2. ASSUME NEW l \in 1..published, Dealt(w, l), l \notin accounted PROVE FALSE
    <3>1. next # None /\ l < next
      BY <1>7, <2>2 DEF AccountsAbove
    <3>2. PICK k \in Fresh(page) : TimeOf[k] < Previous.time
      BY <1>3, <1>9, <3>1 DEF Below
    <3>3. ~Dealt(Previous, l)
      BY <1>5, <2>2 DEF AccountsFor
    <3>4. k \in Listing /\ l \in Listing /\ next \in Listing /\ k \in page
      BY <1>5, <1>8, <3>1, <3>2
    <3>5. k < l
      <4>1. ~(l <= k)
        <5> SUFFICES ASSUME l <= k PROVE FALSE
          OBVIOUS
        <5>1. TimeOf[l] \in Nat /\ TimeOf[k] \in Nat /\ TimeOf[l] <= TimeOf[k]
          BY <3>4, OlderIsNoLater
        <5>2. Previous.time \in Nat
          BY <1>5 DEF Watermark
        <5>3. TimeOf[l] < Previous.time
          BY <3>2, <5>1, <5>2
        <5> QED BY <3>3, <5>3 DEF Dealt
      <4> QED BY <3>4, <4>1 DEF Listing
    <3>6. next <= k
      BY <1>8, <3>1, <3>4
    <3> QED BY <3>1, <3>4, <3>5, <3>6 DEF Listing
  <2>3. r \in Row /\ r.watermark = w /\ r.checkpoint = None
    BY <1>6, <2>1 DEF Row
  <2> QED BY <1>6, <2>2, <2>3 DEF Sound, AccountsFor, accounted, r, found
<1>10. CASE ~crossed /\ next # None
  <2> DEFINE c == [cursor |-> next, pending |-> w, last |-> last]
  <2>1. r = [watermark |-> Previous, checkpoint |-> c]
    BY <1>2, <1>10 DEF RowAfter, w
  <2>2. last \in Listing /\ next \in Listing
    BY <1>1, <1>8, <1>10
  <2>3. c \in Checkpoint /\ c.pending = w /\ c.cursor = next
    BY <1>6, <2>2 DEF Checkpoint
  <2> HIDE DEF c
  <2>4. r \in Row /\ r.watermark = Previous /\ r.checkpoint = c
    BY <1>5, <2>1, <2>3 DEF Row
  <2>5. Grows(Previous, Previous)
    BY DEF Grows
  <2> QED BY <1>5, <1>6, <1>7, <2>3, <2>4, <2>5 DEF Sound, accounted, r, found
<1> QED BY <1>9, <1>10

-----------------------------------------------------------------------------
\* Steps that leave the row alone.

LEMMA TypesStay ==
  ASSUME TypeOK, t' \in {Idle} \cup Traversing, trouble' \in 0..MaxTrouble,
         UNCHANGED <<feed, row, described, reported, baseline, expired>>
  PROVE  TypeOK'
BY DEF TypeOK, Traversing, feed

LEMMA RowStays ==
  ASSUME RowIsSound, UNCHANGED <<feed, row, reported, baseline>>
  PROVE  RowIsSound'
BY DEF RowIsSound, Sound, Grounded, AccountsFor, AccountsAbove, Settled, LocalTime, Dealt,
       feed

\* A run given up leaves everything as it was.
LEMMA GivenUpIsSound ==
  ASSUME IInv, t' = Idle, trouble' \in 0..MaxTrouble,
         UNCHANGED <<feed, row, described, reported, baseline, expired>>
  PROVE  IInv'
<1>1. TypeOK' /\ RowIsSound'
  BY TypesStay, RowStays DEF IInv
<1>2. t'.phase = "idle"
  BY DEF Idle
<1> QED BY <1>1, <1>2 DEF IInv, BaselineIsSound, PageIsSound, NextIsSound, PagesAreLeft,
                          FoundIsNews

\* A traversal begun at the top has nothing to account for.
LEMMA FromTopIsSound ==
  ASSUME IInv, NEW phase \in {"baseline", "page"},
         (phase = "baseline") <=> (row = None),
         t' = FromTop(phase), trouble' \in 0..MaxTrouble,
         UNCHANGED <<feed, row, described, reported, baseline, expired>>
  PROVE  IInv'
<1> DEFINE u == FromTop(phase)
<1>1. u \in Traversing
  BY BoundsAreNaturals DEF FromTop, Traversing
<1>2. /\ u.phase = phase /\ u.cursor = None /\ u.pages = 0 /\ u.seen = {}
      /\ u.found = {} /\ u.maximum = NoMaximum /\ u.last = None /\ u.shown = {}
  BY DEF FromTop
<1> HIDE DEF u
<1>3. t' = u
  BY DEF u
<1>4. TypeOK' /\ RowIsSound'
  BY <1>1, <1>3, TypesStay, RowStays DEF IInv
<1>5. published \in 0..MaxListing /\ published' = published
  BY DEF IInv, TypeOK, feed
<1>6. LocalTime \in Nat /\ LocalTime' = LocalTime
  BY <1>5, PublishedByLocalTime DEF LocalTime
<1>7. Grounded(NoMaximum)'
  BY <1>6 DEF Grounded, NoMaximum
<1>8. \A l \in 1..published : ~Dealt(NoMaximum, l)
  BY <1>5, PublishedByLocalTime, PublishedInTimeOrder DEF Dealt, NoMaximum
<1>9. BaselineIsSound'
  BY <1>2, <1>3, <1>7 DEF BaselineIsSound
<1>10. AccountsAbove(NoMaximum, Settled \cup {}, None)'
  BY <1>5, <1>8 DEF AccountsAbove, Dealt
<1>11. PageIsSound'
  BY <1>2, <1>3, <1>7, <1>10 DEF PageIsSound
<1>12. NextIsSound' /\ PagesAreLeft' /\ FoundIsNews'
  BY <1>2, <1>3, BoundsAreNaturals DEF NextIsSound, PagesAreLeft, FoundIsNews
<1> QED BY <1>4, <1>9, <1>11, <1>12 DEF IInv

-----------------------------------------------------------------------------
\* The feed moves.

\* A listing is published, or raised.
Appears ==
  /\ published < MaxListing /\ published' = published + 1
  /\ gone \subseteq gone'
  /\ UNCHANGED <<row, described, reported, t, baseline, expired>>

\* A watermark stays grounded when a listing is published, and has not dealt with it.
LEMMA GroundedStays ==
  ASSUME TypeOK, Appears, NEW w \in Watermark \cup {NoMaximum}, Grounded(w)
  PROVE  /\ Grounded(w)'
         /\ \A l \in 1..published' : Dealt(w, l) => l \in 1..published
<1>1. published' = published + 1 /\ published \in 0..MaxListing /\ published < MaxListing
  BY DEF Appears, TypeOK
<1>2. w.time \in Int /\ published \in Nat
  BY <1>1, BoundsAreNaturals DEF Watermark, NoMaximum
<1>3. ~Dealt(w, published + 1)
  BY <1>1, <1>2, PublishedLater
<1>4. /\ published + 1 \in Listing /\ LocalTime' = TimeOf[published + 1]
      /\ TimeOf[published + 1] \in Nat
  <2>1. published + 1 \in Listing /\ published + 1 # 0
    BY <1>1, <1>2, BoundsAreNaturals DEF Listing
  <2> QED BY <1>1, <2>1, PublishedInTimeOrder DEF LocalTime
<1>5. w.time <= LocalTime'
  BY <1>2, <1>3, <1>4 DEF Dealt
<1>6. \A l \in 1..published' : l = published + 1 \/ l \in 1..published
  BY <1>1, <1>2
<1>7. 1..published \subseteq 1..published'
  BY <1>1, <1>2
<1> QED BY <1>3, <1>5, <1>6, <1>7 DEF Grounded

\* A sound row stays sound, stored or about to be.
LEMMA SoundStays ==
  ASSUME TypeOK, Appears, NEW r \in Row, NEW accounted, Sound(r, accounted)
  PROVE  Sound(r, accounted)'
<1>1. r.watermark \in Watermark /\ r.checkpoint \in Checkpoint \cup {None}
  BY DEF Row
<1>2. /\ Grounded(r.watermark)'
      /\ \A l \in 1..published' : Dealt(r.watermark, l) => l \in 1..published
  BY <1>1, GroundedStays DEF Sound
<1>3. AccountsFor(r.watermark, accounted)'
  BY <1>2 DEF Sound, AccountsFor, Dealt
<1>4. ASSUME r.checkpoint # None
      PROVE  /\ Grounded(r.checkpoint.pending)'
             /\ AccountsAbove(r.checkpoint.pending, accounted, r.checkpoint.cursor)'
  <2>1. r.checkpoint.pending \in Watermark
    BY <1>1, <1>4 DEF Checkpoint
  <2>2. /\ Grounded(r.checkpoint.pending)'
        /\ \A l \in 1..published' : Dealt(r.checkpoint.pending, l) => l \in 1..published
    BY <1>4, <2>1, GroundedStays DEF Sound
  <2> QED BY <1>4, <2>2 DEF Sound, AccountsAbove, Dealt
<1> QED BY <1>2, <1>3, <1>4 DEF Sound

LEMMA AppearingKeepsIInv ==
  ASSUME IInv, Appears, TypeOK'
  PROVE  IInv'
<1> USE DEF IInv
<1>1. UNCHANGED <<row, described, reported, t, baseline, expired>> /\ gone \subseteq gone'
  BY DEF Appears
<1>2. TypeOK'
  OBVIOUS
<1>3. Settled \subseteq Settled'
  BY <1>1 DEF Settled
<1>4. RowIsSound'
  <2>1. CASE row = None
    BY <1>1, <2>1 DEF RowIsSound
  <2>2. CASE row # None
    <3>1. row \in Row /\ Sound(row, Settled)
      BY <2>2, TypesOfTraversal DEF RowIsSound
    <3>2. PICK r, accounted : r = row /\ accounted = Settled
      OBVIOUS
    <3>3. Sound(r, accounted)'
      BY <3>1, <3>2, SoundStays
    <3>4. Sound(row, Settled)'
      BY <1>1, <1>3, <3>2, <3>3
         DEF Sound, Grounded, AccountsFor, AccountsAbove, Dealt, LocalTime
    <3> QED BY <1>1, <2>2, <3>4 DEF RowIsSound, Dealt
  <2> QED BY <2>1, <2>2
<1>5. t.phase # "idle" => t.maximum \in Watermark \cup {NoMaximum}
  BY TypesOfTraversal DEF Traversing
<1>6. PICK w : w = t.maximum
  OBVIOUS
<1>7. ASSUME t.phase \in {"baseline", "store", "page"}
      PROVE  /\ Grounded(w)'
             /\ \A l \in 1..published' : Dealt(w, l) => l \in 1..published
  <2>1. w \in Watermark \cup {NoMaximum} /\ Grounded(w)
    BY <1>5, <1>6, <1>7 DEF BaselineIsSound, PageIsSound
  <2> QED BY <2>1, GroundedStays
<1>8. BaselineIsSound'
  <2> SUFFICES ASSUME t.phase \in {"baseline", "store"} PROVE BaselineIsSound'
    BY <1>1 DEF BaselineIsSound
  <2>1. Grounded(t.maximum)'
    BY <1>1, <1>6, <1>7 DEF Grounded, LocalTime
  <2>2. AccountsFor(t.maximum, t.shown \cup t.seen \cup gone)
          => AccountsFor(t.maximum, t.shown \cup t.seen \cup gone)'
    BY <1>1, <1>6, <1>7 DEF AccountsFor, Dealt
  <2>3. 1..published \subseteq 1..published'
    BY TypesOfTraversal DEF Appears
  <2> QED BY <1>1, <2>1, <2>2, <2>3 DEF BaselineIsSound, Dealt
<1>9. PageIsSound'
  <2> SUFFICES ASSUME t.phase = "page" PROVE PageIsSound'
    BY <1>1 DEF PageIsSound
  <2>1. Grounded(t.maximum)'
    BY <1>1, <1>6, <1>7 DEF Grounded, LocalTime
  <2>2. AccountsAbove(t.maximum, Settled \cup t.found, t.cursor)'
    BY <1>1, <1>3, <1>6, <1>7 DEF AccountsAbove, Dealt, PageIsSound
  <2> QED BY <1>1, <2>1, <2>2 DEF PageIsSound, Dealt
<1>10. NextIsSound'
  <2> SUFFICES ASSUME t.phase = "describe" PROVE NextIsSound'
    BY <1>1 DEF NextIsSound
  <2>1. t.next \in Row /\ Sound(t.next, Settled \cup t.found)
    BY TypesOfTraversal DEF NextIsSound, Traversing
  <2>2. PICK r, accounted : r = t.next /\ accounted = Settled \cup t.found
    OBVIOUS
  <2>3. Sound(r, accounted)'
    BY <2>1, <2>2, SoundStays
  <2>4. Sound(t.next, Settled \cup t.found)'
    BY <1>1, <1>3, <2>2, <2>3
       DEF Sound, Grounded, AccountsFor, AccountsAbove, Dealt, LocalTime
  <2> QED BY <1>1, <2>4 DEF NextIsSound, Grows
<1>11. PagesAreLeft' /\ FoundIsNews'
  BY <1>1 DEF PagesAreLeft, FoundIsNews
<1> QED BY <1>2, <1>4, <1>8, <1>9, <1>10, <1>11

LEMMA PublishKeepsIInv ==
  ASSUME IInv, Publish
  PROVE  IInv'
<1>1. published' \in 0..MaxListing
  BY BoundsAreNaturals DEF IInv, TypeOK, Publish
<1>2. TypeOK'
  BY <1>1 DEF IInv, TypeOK, Publish
<1>3. Appears
  BY DEF Publish, Appears
<1> QED BY <1>2, <1>3, AppearingKeepsIInv

LEMMA RaiseKeepsIInv ==
  ASSUME IInv, NEW x \in Listing, Raise(x)
  PROVE  IInv'
<1>1. published' \in 0..MaxListing /\ trouble' \in 0..MaxTrouble
  BY BoundsAreNaturals DEF IInv, TypeOK, Raise
<1>2. gone' \subseteq Listing /\ listId' \in [Listing -> Listing]
  BY DEF IInv, TypeOK, Raise
<1>3. TypeOK'
  BY <1>1, <1>2 DEF IInv, TypeOK, Raise
<1>4. Appears
  BY DEF Raise, Appears
<1> QED BY <1>3, <1>4, AppearingKeepsIInv

\* Accounting can only gain when a listing leaves the site.
LEMMA TakeDownKeepsIInv ==
  ASSUME IInv, NEW x \in Listing, TakeDown(x)
  PROVE  IInv'
<1>1. /\ UNCHANGED <<published, listId, row, described, reported, t, baseline, expired>>
      /\ gone' = gone \cup {x} /\ trouble < MaxTrouble /\ trouble' = trouble + 1
  BY DEF TakeDown
<1>2. TypeOK'
  <2>1. trouble' \in 0..MaxTrouble
    BY <1>1, BoundsAreNaturals DEF IInv, TypeOK
  <2> QED BY <1>1, <2>1 DEF IInv, TypeOK
<1>3. LocalTime' = LocalTime /\ Settled \subseteq Settled'
  BY <1>1 DEF LocalTime, Settled
<1>4. RowIsSound'
  BY <1>1, <1>3 DEF IInv, RowIsSound, Sound, Grounded, AccountsFor, AccountsAbove, Dealt
<1>5. BaselineIsSound'
  BY <1>1, <1>3 DEF IInv, BaselineIsSound, Grounded, AccountsFor, Dealt
<1>6. PageIsSound'
  BY <1>1, <1>3 DEF IInv, PageIsSound, Grounded, AccountsAbove, Dealt
<1>7. NextIsSound'
  BY <1>1, <1>3 DEF IInv, NextIsSound, Sound, Grounded, AccountsFor, AccountsAbove, Dealt,
                    Grows
<1>8. PagesAreLeft' /\ FoundIsNews'
  BY <1>1 DEF IInv, PagesAreLeft, FoundIsNews
<1> QED BY <1>2, <1>4, <1>5, <1>6, <1>7, <1>8 DEF IInv

LEMMA ExpireKeepsIInv ==
  ASSUME IInv, Expire
  PROVE  IInv'
<1>1. UNCHANGED <<feed, row, described, reported, t, baseline, trouble>> /\ expired' = TRUE
  BY DEF Expire
<1>2. TypeOK' /\ RowIsSound'
  BY <1>1, RowStays DEF IInv, TypeOK, feed
<1>3. LocalTime' = LocalTime /\ Settled' = Settled
  BY <1>1 DEF LocalTime, Settled, feed
<1>4. BaselineIsSound'
  BY <1>1, <1>3 DEF IInv, BaselineIsSound, Grounded, AccountsFor, Dealt, feed
<1>5. PageIsSound'
  BY <1>1, <1>3 DEF IInv, PageIsSound, Grounded, AccountsAbove, Dealt, feed
<1>6. NextIsSound'
  BY <1>1, <1>3 DEF IInv, NextIsSound, Sound, Grounded, AccountsFor, AccountsAbove, Dealt,
                    Grows, feed
<1>7. PagesAreLeft' /\ FoundIsNews'
  BY <1>1 DEF IInv, PagesAreLeft, FoundIsNews
<1> QED BY <1>2, <1>4, <1>5, <1>6, <1>7 DEF IInv

-----------------------------------------------------------------------------
\* Runs.

\* A run resumes at its checkpoint, and accounts for what the checkpoint does.
LEMMA StartKeepsIInv ==
  ASSUME IInv, Start
  PROVE  IInv'
<1> DEFINE c == row.checkpoint
<1>1. /\ UNCHANGED <<feed, row, described, reported, baseline, expired, trouble>>
      /\ t' = IF row = None THEN FromTop("baseline") ELSE FromCheckpoint
  BY DEF Start
<1>2. trouble' \in 0..MaxTrouble
  BY <1>1 DEF IInv, TypeOK
<1>3. CASE row = None \/ (row # None /\ c = None)
  <2> DEFINE phase == IF row = None THEN "baseline" ELSE "page"
  <2>1. phase \in {"baseline", "page"} /\ ((phase = "baseline") <=> (row = None))
    OBVIOUS
  <2>2. t' = FromTop(phase)
    BY <1>1, <1>3 DEF FromCheckpoint
  <2> HIDE DEF phase
  <2> QED BY <1>1, <1>2, <2>1, <2>2, FromTopIsSound
<1>4. CASE row # None /\ c # None
  <2>1. row \in Row /\ c \in Checkpoint /\ Sound(row, Settled)
    BY <1>4, TypesOfTraversal DEF IInv, Row, RowIsSound
  <2>2. c.cursor \in Listing /\ c.pending \in Watermark /\ c.last \in Listing
    BY <2>1 DEF Checkpoint
  <2>3. /\ Grounded(c.pending)
        /\ AccountsAbove(c.pending, Settled, c.cursor)
    BY <1>4, <2>1 DEF Sound
  <2> DEFINE u == FromCheckpoint
  <2>4. u = [FromTop("page") EXCEPT !.cursor = c.cursor, !.maximum = c.pending,
                                    !.last = c.last, !.resumed = TRUE]
    BY <1>4 DEF FromCheckpoint
  <2> HIDE DEF u, c
  <2>5. /\ u.phase = "page" /\ u.cursor = c.cursor /\ u.pages = 0 /\ u.seen = {}
        /\ u.found = {} /\ u.maximum = c.pending /\ u.last = c.last
    BY <2>4 DEF FromTop
  <2>6. u \in Traversing
    <3>1. FromTop("page") \in Traversing
      BY BoundsAreNaturals DEF FromTop, Traversing
    <3> QED BY <2>2, <2>4, <3>1 DEF Traversing
  <2>7. t' = u
    BY <1>1, <1>4 DEF u
  <2>8. TypeOK' /\ RowIsSound'
    BY <1>1, <1>2, <2>6, <2>7, TypesStay, RowStays DEF IInv
  <2>9. LocalTime' = LocalTime /\ Settled' = Settled
    BY <1>1 DEF LocalTime, Settled, feed
  <2>10. AccountsAbove(c.pending, Settled \cup {}, c.cursor)
    BY <2>3 DEF AccountsAbove
  <2>11. PageIsSound'
    <3>1. Grounded(t.maximum)'
      BY <1>1, <2>3, <2>5, <2>7, <2>9 DEF Grounded, feed
    <3>2. AccountsAbove(t.maximum, Settled \cup t.found, t.cursor)'
      BY <1>1, <2>5, <2>7, <2>9, <2>10 DEF AccountsAbove, Dealt, feed
    <3> QED BY <1>1, <1>4, <2>5, <2>7, <3>1, <3>2 DEF PageIsSound
  <2>12. BaselineIsSound' /\ NextIsSound' /\ PagesAreLeft' /\ FoundIsNews'
    BY <2>5, <2>7, BoundsAreNaturals
       DEF BaselineIsSound, NextIsSound, PagesAreLeft, FoundIsNews
  <2> QED BY <2>8, <2>11, <2>12 DEF IInv
<1> QED BY <1>3, <1>4

LEMMA DescribeKeepsIInv ==
  ASSUME IInv, Describe
  PROVE  IInv'
<1>1. /\ t.phase = "describe" /\ Undescribed # {}
      /\ UNCHANGED <<feed, row, reported, baseline, expired, trouble>>
  BY DEF Describe
<1>2. /\ t \in Traversing /\ t.found \subseteq Listing /\ described \subseteq Listing
      /\ t.left \in 0..DescriptionLimit /\ DescriptionLimit \in Nat
  BY <1>1, TypesOfTraversal, BoundsAreNaturals DEF IInv, Traversing
<1>3. RowIsSound'
  BY <1>1, RowStays DEF IInv
<1>4. CASE t' = Idle /\ UNCHANGED described
  <2>1. trouble' \in 0..MaxTrouble
    BY <1>1 DEF IInv, TypeOK
  <2> QED BY <1>1, <1>4, <2>1, GivenUpIsSound
<1>5. CASE t.left > 0 /\ t' = [t EXCEPT !.left = @ - 1] /\ Cache
  <2>1. /\ t'.phase = "describe" /\ t'.next = t.next /\ t'.found = t.found
        /\ t' \in Traversing
    BY <1>1, <1>2, <1>5 DEF Traversing
  <2>2. described' \subseteq Listing
    <3>1. /\ Undescribed \in SUBSET Int /\ Undescribed # {}
          /\ MaxListing \in Int /\ \A l \in Undescribed : l <= MaxListing
      BY <1>1, <1>2, BoundsAreNaturals DEF Undescribed, Listing
    <3>2. Max(Undescribed) \in Undescribed
      BY <3>1, MaxIsGreatest
    <3>3. listId[Max(Undescribed)] \in Listing
      BY <1>2, <3>2 DEF Undescribed, IInv, TypeOK
    <3> QED BY <1>2, <1>5, <3>3 DEF Cache
  <2>3. TypeOK'
    BY <1>1, <2>1, <2>2 DEF IInv, TypeOK, feed
  <2>4. LocalTime' = LocalTime /\ Settled' = Settled
    BY <1>1 DEF LocalTime, Settled, feed
  <2>5. NextIsSound'
    BY <1>1, <2>1, <2>4 DEF IInv, NextIsSound, Sound, Grounded, AccountsFor,
                            AccountsAbove, Dealt, Grows, feed
  <2>6. BaselineIsSound' /\ PageIsSound' /\ PagesAreLeft' /\ FoundIsNews'
    BY <1>1, <2>1 DEF IInv, BaselineIsSound, PageIsSound, PagesAreLeft, FoundIsNews
  <2> QED BY <1>3, <2>3, <2>5, <2>6 DEF IInv
<1> QED BY <1>4, <1>5 DEF Describe

\* The row that is stored is the sound one, and what it accounts for is reported with it.
LEMMA StoreKeepsIInv ==
  ASSUME IInv, Store
  PROVE  IInv'
<1>1. /\ t.phase = "describe" /\ row' = t.next /\ reported' = reported \cup t.found
      /\ expired' = FALSE /\ t' = Idle
      /\ UNCHANGED <<feed, described, baseline, trouble>>
  BY DEF Store
<1>2. /\ t \in Traversing /\ t.found \subseteq Listing
      /\ t.next \in Row /\ t.next # None /\ row \in Row /\ row # None
      /\ Sound(t.next, Settled \cup t.found) /\ Grows(row.watermark, t.next.watermark)
  BY <1>1, TypesOfTraversal DEF IInv, Traversing, NextIsSound
<1>3. TypeOK'
  BY <1>1, <1>2 DEF IInv, TypeOK, feed
<1>4. LocalTime' = LocalTime /\ Settled' = Settled \cup t.found
  BY <1>1 DEF LocalTime, Settled, feed
<1>5. Sound(row, Settled)'
  BY <1>1, <1>2, <1>4 DEF Sound, Grounded, AccountsFor, AccountsAbove, Dealt, feed
<1>6. ASSUME NEW l \in baseline, l \notin gone PROVE Dealt(t.next.watermark, l)
  <2>1. /\ row.watermark \in Watermark /\ t.next.watermark \in Watermark
        /\ \A k \in row.watermark.ids : TimeOf[k] = row.watermark.time
    BY <1>2 DEF IInv, RowIsSound, Sound, Grounded, Row
  <2>2. l \in Listing /\ Dealt(row.watermark, l)
    BY <1>2, <1>6, TypesOfTraversal DEF IInv, RowIsSound
  <2> QED BY <1>2, <2>1, <2>2, DealtIsKept
<1>7. reported' \cap baseline' = {}
  BY <1>1 DEF IInv, RowIsSound, FoundIsNews
<1>8. RowIsSound'
  BY <1>1, <1>2, <1>5, <1>6, <1>7 DEF RowIsSound, Dealt, feed
<1>9. t'.phase = "idle"
  BY <1>1 DEF Idle
<1> QED BY <1>3, <1>8, <1>9 DEF IInv, BaselineIsSound, PageIsSound, NextIsSound,
                                PagesAreLeft, FoundIsNews

LEMMA StoreBaselineKeepsIInv ==
  ASSUME IInv, StoreBaseline
  PROVE  IInv'
<1>1. /\ t.phase = "store"
      /\ row' = [watermark |-> t.maximum, checkpoint |-> None]
      /\ baseline' = t.shown \cup t.seen /\ t' = Idle
      /\ UNCHANGED <<feed, described, reported, expired, trouble>>
  BY DEF StoreBaseline
<1>2. /\ t \in Traversing /\ t.shown \subseteq Listing /\ t.seen \subseteq Listing
      /\ t.maximum \in Watermark
  BY <1>1, TypesOfTraversal DEF IInv, Traversing, BaselineIsSound
<1>3. row' \in Row /\ row'.watermark = t.maximum /\ row'.checkpoint = None
  BY <1>1, <1>2 DEF Row
<1>4. TypeOK'
  BY <1>1, <1>2, <1>3 DEF IInv, TypeOK, feed
<1>5. /\ row = None /\ reported = {} /\ Grounded(t.maximum)
      /\ AccountsFor(t.maximum, t.shown \cup t.seen \cup gone)
      /\ \A l \in t.seen : Dealt(t.maximum, l)
      /\ \A l \in t.shown : l \in gone \/ Dealt(t.maximum, l)
  BY <1>1 DEF IInv, BaselineIsSound, RowIsSound
<1>6. row' # None
  BY <1>3, NoneIsNoRecord
<1>7. Sound(row, Settled)'
  <2>1. LocalTime' = LocalTime /\ Settled' = t.shown \cup t.seen \cup gone
    BY <1>1, <1>5 DEF LocalTime, Settled, feed
  <2> QED BY <1>1, <1>3, <1>5, <2>1 DEF Sound, Grounded, AccountsFor, Dealt, feed
<1>8. RowIsSound'
  BY <1>1, <1>3, <1>5, <1>6, <1>7 DEF RowIsSound, Dealt, feed
<1>9. t'.phase = "idle"
  BY <1>1 DEF Idle
<1> QED BY <1>4, <1>8, <1>9 DEF IInv, BaselineIsSound, PageIsSound, NextIsSound,
                                PagesAreLeft, FoundIsNews

-----------------------------------------------------------------------------
\* Pages.

LEMMA IncrementalPageKeepsIInv ==
  ASSUME IInv, FeedInv, NEW slip \in Nat, NEW size \in Nat \ {0},
         IncrementalPage(slip, size), trouble' \in 0..MaxTrouble
  PROVE  IInv'
<1> DEFINE page == PageAt(slip, size)
           next == NextAt(slip, size)
           processed == ProcessedAt(slip, size)
           crossed == CrossedAt(slip, size)
           maximum == MaximumAt(slip, size)
           found == FoundAt(slip, size)
           last == LastAt(slip, size)
           r == RowAt(slip, size)
           pages == t.pages + 1
           done == crossed \/ next = None \/ pages = MaxPages
<1>1. /\ t.phase = "page" /\ row # None
      /\ UNCHANGED <<feed, row, described, reported, baseline, expired>>
  BY DEF IncrementalPage, IInv, PageIsSound
<1>2. /\ t \in Traversing /\ t.pages \in 0..MaxPages /\ t.pages < MaxPages
      /\ t.seen \subseteq Listing /\ MaxPages \in Nat
  BY <1>1, TypesOfTraversal, BoundsAreNaturals DEF IInv, Traversing, PagesAreLeft
<1>3. CASE Rises(page)
  <2>1. t' = FromTop("page") \/ t' = Idle
    BY <1>3 DEF IncrementalPage, PageAt
  <2>2. CASE t' = FromTop("page")
    <3> DEFINE phase == "page"
    <3>1. phase \in {"baseline", "page"} /\ ((phase = "baseline") <=> (row = None))
      BY <1>1
    <3> QED BY <1>1, <2>2, <3>1, FromTopIsSound
  <2> QED BY <1>1, <2>1, <2>2, GivenUpIsSound
<1>4. CASE ~Rises(page)
  <2> DEFINE phase == IF done THEN "describe" ELSE "page"
             stored == IF done THEN r ELSE t.next
             u == [t EXCEPT !.phase = phase,
                            !.cursor = next, !.pages = pages,
                            !.seen = @ \cup processed,
                            !.found = found,
                            !.maximum = maximum, !.last = last,
                            !.next = stored]
  <2>1. t' = u
    BY <1>1, <1>2, <1>4 DEF IncrementalPage, PageAt, NextAt, ProcessedAt, CrossedAt, MaximumAt,
                      FoundAt, LastAt, RowAt, New
  <2> HIDE DEF u
  <2>2. /\ page \subseteq Listing /\ next \in Listing \cup {None}
        /\ next # None => page # {}
        /\ processed \subseteq page
    <3>1. processed \subseteq Fresh(page) /\ Fresh(page) \subseteq page
      BY DEF ProcessedAt, UpToBoundary, Fresh
    <3> QED BY <3>1, PageOfFeed DEF IInv, PageAt, NextAt
  <2>3. /\ maximum \in Watermark \cup {NoMaximum} /\ Grounded(maximum)
        /\ AccountsAbove(maximum, Settled \cup found, next)
        /\ PassedAreFound(t.seen \cup processed, found)
        /\ found \subseteq Listing /\ found \cap baseline = {}
    BY <1>1, <1>4, PageKeepsAccount DEF IInv
  <2>4. last \in Listing \cup {None} /\ (t.seen \cup processed # {} => last # None)
    BY <1>1, <2>2, PageHasLast DEF IInv
  <2>5. r \in Row /\ Sound(r, Settled \cup found) /\ Grows(Previous, r.watermark)
    BY <1>1, <1>4, NextRowIsSound DEF IInv
  <2>6. r # None
    BY <2>5, NoneIsNoRecord
  <2> HIDE DEF page, next, processed, crossed, maximum, found, last, r
  <2>7. /\ u.phase = IF done THEN "describe" ELSE "page"
        /\ u.cursor = next /\ u.pages = pages /\ u.seen = t.seen \cup processed
        /\ u.maximum = maximum /\ u.last = last
        /\ done => u.next = r
    BY <1>1, <1>2 DEF Traversing, u
  <2>8. u.found = found
    BY <1>2 DEF Traversing, u
  <2>9. u \in Traversing
    <3>1. pages \in 0..MaxPages
      BY <1>2
    <3>2. found \in SUBSET Listing
      BY <2>3
    <3>3. t.seen \cup processed \in SUBSET Listing
      BY <1>2, <2>2
    <3>4. phase \in {"baseline", "store", "page", "describe"}
      OBVIOUS
    <3>5. stored \in Row \cup {None}
      BY <1>2, <2>5 DEF Traversing
    <3>6. /\ maximum \in Watermark \cup {NoMaximum} /\ last \in Listing \cup {None}
          /\ next \in Listing \cup {None}
      BY <2>2, <2>3, <2>4
    <3>7. t \in Traversing
      BY <1>2
    <3> HIDE DEF pages, done, phase, stored
    <3> QED BY ONLY <3>1, <3>2, <3>3, <3>4, <3>5, <3>6, <3>7 DEF Traversing, u
  <2>10. TypeOK' /\ RowIsSound'
    BY <1>1, <2>1, <2>9, TypesStay, RowStays DEF IInv
  <2>11. /\ LocalTime' = LocalTime /\ Settled' = Settled /\ Previous = row.watermark
         /\ published' = published /\ row' = row /\ baseline' = baseline
    BY <1>1 DEF LocalTime, Settled, Previous, feed
  <2>12. BaselineIsSound'
    BY <2>1, <2>7 DEF BaselineIsSound
  <2>13. PageIsSound'
    <3> SUFFICES ASSUME ~done PROVE PageIsSound'
      BY <2>1, <2>7 DEF PageIsSound
    <3>1. Grounded(t.maximum)'
      BY <2>1, <2>3, <2>7, <2>11 DEF Grounded
    <3>2. AccountsAbove(t.maximum, Settled \cup t.found, t.cursor)'
      BY <2>1, <2>3, <2>7, <2>8, <2>11 DEF AccountsAbove, Dealt
    <3> QED BY <1>1, <2>1, <2>3, <2>4, <2>7, <2>8, <2>11, <3>1, <3>2
           DEF PageIsSound, PassedAreFound, Dealt
  <2>14. NextIsSound'
    <3> SUFFICES ASSUME done PROVE NextIsSound'
      BY <2>1, <2>7 DEF NextIsSound
    <3>1. t'.next = r /\ t'.found = found
      BY <2>1, <2>7, <2>8
    <3>2. Sound(t.next, Settled \cup t.found)'
      BY <2>5, <2>11, <3>1 DEF Sound, Grounded, AccountsFor, AccountsAbove, Dealt
    <3>3. Grows(row.watermark, t.next.watermark)'
      BY <2>5, <2>11, <3>1 DEF Grows
    <3> QED BY <1>1, <2>6, <2>11, <3>1, <3>2, <3>3 DEF NextIsSound
  <2>15. PagesAreLeft'
    <3>1. ~done => pages < MaxPages
      BY <1>2
    <3> QED BY <2>1, <2>7, <3>1 DEF PagesAreLeft
  <2>16. FoundIsNews'
    BY <2>1, <2>3, <2>8, <2>11 DEF FoundIsNews
  <2> QED BY <2>10, <2>12, <2>13, <2>14, <2>15, <2>16 DEF IInv
<1> QED BY <1>3, <1>4

\* An empty first page: nothing is on show, and everything published is gone.
LEMMA EmptyBaselineKeepsIInv ==
  ASSUME IInv, NEW slip \in Nat, NEW size \in Nat \ {0}, BaselinePage(slip, size),
         trouble' \in 0..MaxTrouble, t.pages = 0, PageAt(slip, size) = {}
  PROVE  IInv'
<1> DEFINE maximum == [time |-> LocalTime, ids |-> {}]
           u == [t EXCEPT !.phase = "store", !.maximum = maximum]
<1>1. /\ t.phase = "baseline" /\ t' = u
      /\ UNCHANGED <<feed, row, described, reported, baseline, expired>>
  BY DEF BaselinePage, PageAt
<1>2. /\ t \in Traversing /\ published \in 0..MaxListing
      /\ t.seen = {} /\ t.shown = {} /\ t.cursor = None /\ t.last = None /\ row = None
  BY <1>1, TypesOfTraversal DEF IInv, BaselineIsSound
<1>3. LocalTime \in Nat
  BY <1>2, PublishedByLocalTime
<1>4. maximum \in Watermark /\ maximum # NoMaximum
  BY <1>3 DEF Watermark, NoMaximum
<1>5. Grounded(maximum)
  BY <1>3 DEF Grounded
<1>6. OnShow = {}
  <2>1. Older(None, slip) = {}
    <3>1. PageAt(slip, size) = Top(Older(None, slip), size)
      BY <1>2 DEF PageAt
    <3> QED BY <3>1, PageOfFeed DEF IInv
  <2> QED BY <2>1 DEF Older
<1>7. AccountsFor(maximum, gone)
  BY <1>6 DEF AccountsFor, OnShow
<1>8. /\ u.phase = "store" /\ u.maximum = maximum /\ u.seen = {} /\ u.shown = {}
      /\ u.last = None /\ u \in Traversing
  BY <1>2, <1>4 DEF Traversing
<1> HIDE DEF maximum, u
<1>9. TypeOK' /\ RowIsSound'
  BY <1>1, <1>8, TypesStay, RowStays DEF IInv
<1>10. LocalTime' = LocalTime /\ published' = published /\ gone' = gone /\ row' = row
  BY <1>1 DEF LocalTime, feed
<1>11. BaselineIsSound'
  <2>1. Grounded(t.maximum)'
    BY <1>1, <1>5, <1>8, <1>10 DEF Grounded
  <2>2. AccountsFor(t.maximum, t.shown \cup t.seen \cup gone)'
    BY <1>1, <1>7, <1>8, <1>10 DEF AccountsFor, Dealt
  <2> QED BY <1>1, <1>2, <1>4, <1>8, <1>10, <2>1, <2>2 DEF BaselineIsSound
<1>12. PageIsSound' /\ NextIsSound' /\ PagesAreLeft' /\ FoundIsNews'
  BY <1>1, <1>8 DEF PageIsSound, NextIsSound, PagesAreLeft, FoundIsNews
<1> QED BY <1>9, <1>11, <1>12 DEF IInv

\* A page of the baseline, and what was on show when the baseline was begun.
TieAt(slip, size) == WithMaximum(t.maximum, Fresh(PageAt(slip, size)))
BegunAt == IF t.pages = 0 THEN OnShow ELSE t.shown

\* The maximum of the baseline deals with what has been read, and with no listing that
\* was published after the baseline was begun and has not been read.
LEMMA TieKeepsAccount ==
  ASSUME TypeOK, BaselineIsSound, t.phase = "baseline",
         NEW slip \in Nat, NEW size \in Nat \ {0},
         ~Rises(PageAt(slip, size)), t.pages # 0 \/ PageAt(slip, size) # {}
  PROVE  /\ TieAt(slip, size) \in Watermark /\ TieAt(slip, size) # NoMaximum
         /\ Grounded(TieAt(slip, size))
         /\ \A l \in t.seen \cup Fresh(PageAt(slip, size)) : Dealt(TieAt(slip, size), l)
         /\ \A l \in Listing : Dealt(t.maximum, l) => Dealt(TieAt(slip, size), l)
         /\ AccountsFor(TieAt(slip, size),
                        BegunAt \cup (t.seen \cup Fresh(PageAt(slip, size))) \cup gone)
         /\ LastSeen(Fresh(PageAt(slip, size))) \in Listing
         /\ TimeOf[LastSeen(Fresh(PageAt(slip, size)))] <= TieAt(slip, size).time
<1> DEFINE page == PageAt(slip, size)
           fresh == Fresh(page)
           maximum == TieAt(slip, size)
           last == LastSeen(fresh)
<1>1. /\ published \in 0..MaxListing /\ published \in Nat /\ t \in Traversing
      /\ 1..published \subseteq Listing
  BY TypesOfTraversal, PublishedByLocalTime
<1>2. /\ t.maximum \in Watermark \cup {NoMaximum} /\ Grounded(t.maximum)
      /\ t.seen \subseteq Listing /\ t.pages \in Nat /\ t.last \in Listing \cup {None}
      /\ t.maximum.time \in Int
  BY <1>1 DEF Traversing, BaselineIsSound, Watermark, NoMaximum
<1>3. /\ fresh \in SUBSET (1..published) /\ fresh \subseteq Listing
      /\ t.seen = {} => fresh = page
  BY PageOfFeed DEF PageAt, Fresh
<1>4. t.pages = 0 => t.seen = {} /\ fresh # {}
  BY <1>3 DEF BaselineIsSound
<1>5. t.pages # 0 => /\ t.last # None /\ t.maximum # NoMaximum
                     /\ TimeOf[t.last] <= t.maximum.time
                     /\ AccountsFor(t.maximum, t.shown \cup t.seen \cup gone)
  BY <1>2 DEF BaselineIsSound
<1>6. maximum = WithMaximum(t.maximum, fresh)
  BY DEF TieAt
<1> HIDE DEF page, fresh, maximum, last
<1>7. /\ maximum \in Watermark /\ maximum # NoMaximum /\ Grounded(maximum)
      /\ maximum.time \in Int /\ t.maximum.time <= maximum.time
      /\ \A l \in fresh : Dealt(maximum, l) /\ TimeOf[l] <= maximum.time
      /\ \A l \in Listing : Dealt(t.maximum, l) => Dealt(maximum, l)
  BY <1>1, <1>2, <1>3, <1>4, <1>5, <1>6, MaximumGrows
<1>8. \A l \in t.seen \cup fresh : Dealt(maximum, l)
  BY <1>2, <1>3, <1>7 DEF BaselineIsSound
<1>9. last \in Listing /\ TimeOf[last] <= maximum.time
  <2>1. CASE fresh # {}
    <3>1. last \in fresh
      BY <1>3, <2>1, LastIsSeen DEF last
    <3> QED BY <1>3, <1>7, <3>1
  <2>2. CASE fresh = {}
    <3>1. last = t.last /\ t.pages # 0
      BY <1>4, <2>2, LastIsSeen DEF last
    <3>2. t.last \in Listing
      BY <1>2, <1>5, <3>1
    <3>3. TimeOf[t.last] \in Int
      BY <3>2, PublishedInTimeOrder
    <3> QED BY <1>2, <1>5, <1>7, <3>1, <3>2, <3>3
  <2> QED BY <2>1, <2>2
<1>10. ASSUME NEW l \in 1..published, Dealt(maximum, l)
       PROVE  l \in BegunAt \cup (t.seen \cup fresh) \cup gone
  <2>1. CASE t.pages = 0
    BY <2>1 DEF BegunAt, OnShow
  <2>2. CASE t.pages # 0 /\ Dealt(t.maximum, l)
    BY <1>5, <2>2 DEF BegunAt, AccountsFor
  <2>3. CASE l \in fresh
    BY <1>3, <2>3
  <2>4. CASE t.pages # 0 /\ ~Dealt(t.maximum, l) /\ l \notin fresh
    <3>1. \E k \in fresh : l < k /\ t.maximum.time < TimeOf[k]
      <4>1. l \in Listing /\ Dealt(WithMaximum(t.maximum, fresh), l)
        BY <1>1, <1>6, <1>10
      <4> QED BY <1>1, <1>2, <1>3, <2>4, <4>1, OvertakenIsOlder
    <3>2. PICK k \in fresh : t.maximum.time < TimeOf[k]
      BY <3>1
    <3>3. fresh \in SUBSET Int /\ published \in Int /\ \A j \in fresh : j <= published
      BY <1>1, <1>3
    <3>4. Max(fresh) \in fresh /\ Max(fresh) >= k
      BY <3>3, MaxIsGreatest
    <3>5. ~(TimeOf[Max(fresh)] > TimeOf[t.last])
      BY <1>5, <2>4, <3>4 DEF Rises, page, fresh
    <3>6. TimeOf[k] <= TimeOf[Max(fresh)] /\ TimeOf[k] \in Nat /\ TimeOf[Max(fresh)] \in Nat
      BY <1>3, <3>4, OlderIsNoLater DEF Listing
    <3>7. TimeOf[t.last] \in Nat
      BY <1>2, <1>5, <2>4, PublishedInTimeOrder
    <3> QED BY <1>2, <1>5, <2>4, <3>2, <3>5, <3>6, <3>7
  <2> QED BY <2>1, <2>2, <2>3, <2>4
<1>11. AccountsFor(maximum, BegunAt \cup (t.seen \cup fresh) \cup gone)
  BY <1>10 DEF AccountsFor
<1> QED BY <1>7, <1>8, <1>9, <1>11 DEF page, fresh, maximum, last

\* What was on show when the baseline was begun is dealt with by its maximum, gone, or
\* still to be read; nothing is still to be read once the baseline is closed.
LEMMA BegunIsRead ==
  ASSUME TypeOK, BaselineIsSound, ShownOnce, t.phase = "baseline",
         NEW slip \in Nat, NEW size \in Nat \ {0},
         ~Rises(PageAt(slip, size)), t.pages # 0 \/ PageAt(slip, size) # {},
         NEW l \in BegunAt, l \notin gone, ~Dealt(TieAt(slip, size), l)
  PROVE  /\ NextAt(slip, size) # None /\ l < NextAt(slip, size)
         /\ ~TieClosed(Fresh(PageAt(slip, size)), TieAt(slip, size).time)
<1> DEFINE older == Older(t.cursor, slip)
           page == PageAt(slip, size)
           maximum == TieAt(slip, size)
<1>1. /\ t \in Traversing /\ t.cursor \in Listing \cup {None}
      /\ OnShow \subseteq 1..published /\ 1..published \subseteq Listing
  BY TypesOfTraversal, PublishedByLocalTime DEF Traversing
<1>2. /\ \A k \in t.seen \cup Fresh(page) : Dealt(maximum, k)
      /\ \A k \in Listing : Dealt(t.maximum, k) => Dealt(maximum, k)
      /\ maximum \in Watermark
  BY TieKeepsAccount
<1>3. l \in 1..published /\ (t.cursor # None => l < t.cursor)
  <2>1. CASE t.pages = 0
    BY <1>1, <2>1 DEF BegunAt, BaselineIsSound
  <2>2. CASE t.pages # 0
    <3>1. t.pages > 0
      BY <1>1, <2>2 DEF Traversing
    <3> QED BY <1>1, <1>2, <2>2, <3>1 DEF BegunAt, BaselineIsSound
  <2> QED BY <2>1, <2>2
<1>4. l \notin page
  <2> SUFFICES ASSUME l \in page PROVE FALSE
    OBVIOUS
  <2>1. PICK k \in t.seen : listId[k] = listId[l]
    BY <1>2 DEF Fresh
  <2>2. l \in t.shown
    BY <1>1, <2>1 DEF BegunAt, BaselineIsSound
  <2> QED BY <1>2, <2>1, <2>2 DEF ShownOnce
<1>5. /\ l \in older /\ NextAt(slip, size) # None /\ l < NextAt(slip, size)
  <2>1. l \notin Top(Older(t.cursor, slip), size)
    BY <1>4 DEF PageAt
  <2>2. l \notin gone
    OBVIOUS
  <2>3. /\ l \in Older(t.cursor, slip)
        /\ NextCursor(Top(Older(t.cursor, slip), size), Older(t.cursor, slip)) # None
        /\ l < NextCursor(Top(Older(t.cursor, slip), size), Older(t.cursor, slip))
    BY ONLY TypeOK, <1>1, <1>3, <2>1, <2>2, slip \in Nat, size \in Nat \ {0},
            NothingIsSkipped
  <2> QED BY <2>3 DEF NextAt, PageAt
<1>6. ASSUME NEW k \in Fresh(page), TimeOf[k] < maximum.time PROVE FALSE
  <2>1. k \in page /\ k \in Listing /\ l \in Listing
    BY <1>1, <1>3, PageOfFeed DEF PageAt, Fresh
  <2>2. l < k
    BY <1>4, <1>5, <2>1, PageOfFeed DEF PageAt, NextAt
  <2>3. TimeOf[l] <= TimeOf[k] /\ TimeOf[l] \in Nat /\ TimeOf[k] \in Nat
    BY <2>1, <2>2, OlderIsNoLater DEF Listing
  <2>4. maximum.time \in Nat
    BY <1>2 DEF Watermark
  <2>5. TimeOf[l] < maximum.time
    BY <1>6, <2>3, <2>4
  <2> QED BY <2>5 DEF Dealt
<1> QED BY <1>5, <1>6 DEF TieClosed

LEMMA BaselinePageKeepsIInv ==
  ASSUME IInv, FeedInv, NEW slip \in Nat, NEW size \in Nat \ {0},
         BaselinePage(slip, size), trouble' \in 0..MaxTrouble
  PROVE  IInv'
<1> DEFINE page == PageAt(slip, size)
           fresh == Fresh(page)
           next == NextAt(slip, size)
           maximum == TieAt(slip, size)
           last == LastSeen(Fresh(page))
           begun == BegunAt
           closed == TieClosed(Fresh(page), maximum.time) \/ next = None
           pages == t.pages + 1
<1>1. /\ t.phase = "baseline" /\ row = None
      /\ UNCHANGED <<feed, row, described, reported, baseline, expired>>
  BY DEF BaselinePage, IInv, BaselineIsSound
<1>2. /\ t \in Traversing /\ t.pages \in 0..MaxPages /\ t.pages < MaxPages
      /\ t.seen \subseteq Listing /\ t.shown \subseteq Listing /\ MaxPages \in Nat
      /\ published \in 0..MaxListing /\ OnShow \subseteq Listing
      /\ OnShow \subseteq 1..published /\ t.shown \subseteq 1..published
  BY <1>1, TypesOfTraversal, BoundsAreNaturals
     DEF IInv, Traversing, PagesAreLeft, BaselineIsSound
<1>3. CASE t.pages = 0 /\ page = {}
  BY <1>3, EmptyBaselineKeepsIInv
<1>4. CASE /\ ~(t.pages = 0 /\ page = {})
           /\ Rises(page) \/ (~closed /\ pages = MaxPages)
  <2>1. t' = Idle
    BY <1>4 DEF BaselinePage, PageAt, NextAt, TieAt
  <2> QED BY <1>1, <2>1, GivenUpIsSound
<1>5. CASE /\ ~(t.pages = 0 /\ page = {})
           /\ ~(Rises(page) \/ (~closed /\ pages = MaxPages))
  <2> DEFINE phase == IF closed THEN "store" ELSE "baseline"
             u == [t EXCEPT !.phase = phase, !.cursor = next, !.pages = pages,
                            !.seen = @ \cup fresh, !.maximum = maximum, !.last = last,
                            !.shown = begun]
  <2>1. t' = u
    BY <1>1, <1>2, <1>5 DEF BaselinePage, PageAt, NextAt, TieAt, BegunAt
  <2>2. fresh \subseteq Listing /\ next \in Listing \cup {None}
    BY PageOfFeed DEF IInv, PageAt, NextAt
  <2>3. /\ maximum \in Watermark /\ maximum # NoMaximum /\ Grounded(maximum)
        /\ \A l \in t.seen \cup fresh : Dealt(maximum, l)
        /\ AccountsFor(maximum, begun \cup (t.seen \cup fresh) \cup gone)
        /\ last \in Listing /\ TimeOf[last] <= maximum.time
    BY <1>1, <1>5, TieKeepsAccount DEF IInv
  <2>4. ASSUME NEW l \in begun
        PROVE  l \in gone \/ Dealt(maximum, l) \/ (~closed /\ l < next)
    <3> SUFFICES ASSUME l \notin gone, ~Dealt(maximum, l) PROVE ~closed /\ l < next
      OBVIOUS
    <3> QED BY <1>1, <1>5, BegunIsRead DEF IInv, FeedInv
  <2>5. begun \subseteq Listing /\ begun \subseteq 1..published
    BY <1>2 DEF BegunAt
  <2>6. ~closed => next # None
    OBVIOUS
  <2>7. pages \in 0..MaxPages /\ pages > 0 /\ (~closed => pages < MaxPages)
    BY <1>2, <1>5
  <2>8. phase \in {"baseline", "store", "page", "describe"}
    OBVIOUS
  <2> HIDE DEF page, fresh, next, maximum, last, begun, pages, closed
  <2>9. /\ phase = "store" <=> closed
        /\ phase = "baseline" <=> ~closed
    OBVIOUS
  <2> HIDE DEF phase
  <2>10. /\ u.phase = phase /\ u.cursor = next /\ u.pages = pages
         /\ u.seen = t.seen \cup fresh /\ u.maximum = maximum /\ u.last = last
         /\ u.shown = begun
    BY <1>2 DEF Traversing
  <2>11. u \in Traversing
    <3>1. t.seen \cup fresh \in SUBSET Listing
      BY <1>2, <2>2
    <3>2. t \in Traversing
      BY <1>2
    <3> QED BY ONLY <2>2, <2>3, <2>5, <2>7, <2>8, <3>1, <3>2 DEF Traversing, u
  <2> HIDE DEF u
  <2>12. TypeOK' /\ RowIsSound'
    BY <1>1, <2>1, <2>11, TypesStay, RowStays DEF IInv
  <2>13. LocalTime' = LocalTime /\ published' = published /\ gone' = gone /\ row' = row
    BY <1>1 DEF LocalTime, feed
  <2>14. BaselineIsSound'
    <3>1. Grounded(t.maximum)'
      BY <2>1, <2>3, <2>10, <2>13 DEF Grounded
    <3>2. AccountsFor(t.maximum, t.shown \cup t.seen \cup gone)'
      BY <2>1, <2>3, <2>10, <2>13 DEF AccountsFor, Dealt
    <3>3. \A l \in begun : l \in gone \/ Dealt(maximum, l)
                           \/ (phase = "baseline" /\ l < next)
      BY <2>4, <2>9
    <3>4. phase = "baseline" => next # None /\ pages # 0
      BY <2>6, <2>7, <2>9
    <3>5. last # None
      BY <2>3, NoneIsNoRecord
    <3> QED BY <1>1, <2>1, <2>3, <2>5, <2>7, <2>10, <2>13, <3>1, <3>2, <3>3, <3>4, <3>5
            DEF BaselineIsSound, Dealt
  <2>15. PageIsSound' /\ NextIsSound' /\ FoundIsNews'
    BY <2>1, <2>9, <2>10 DEF PageIsSound, NextIsSound, FoundIsNews
  <2>16. PagesAreLeft'
    BY <2>1, <2>7, <2>9, <2>10 DEF PagesAreLeft
  <2> QED BY <2>12, <2>14, <2>15, <2>16 DEF IInv
<1> QED BY <1>3, <1>4, <1>5

-----------------------------------------------------------------------------
\* Places and list ids.

\* A listing is on show at one place only.
LEMMA OnShowOnce ==
  ASSUME Superseded, published \in Nat,
         NEW k \in OnShow, NEW l \in OnShow, listId[k] = listId[l]
  PROVE  k = l
<1>1. k \in 1..published /\ l \in 1..published /\ k \notin gone /\ l \notin gone
  BY DEF OnShow
<1>2. ~(k < l) /\ ~(l < k)
  BY <1>1 DEF Superseded, LaterPlace
<1> QED BY <1>1, <1>2

\* A run that ends, or has read nothing yet.
LEMMA NothingRead ==
  ASSUME FeedInv, UNCHANGED <<feed, reported, baseline>>,
         t'.phase = "idle" \/ (t'.seen = {} /\ t'.shown = {} /\ t'.found = {})
  PROVE  FeedInv'
<1>1. UNCHANGED <<published, gone, listId, reported, baseline>>
  BY DEF feed
<1>2. ReadIsPublished' /\ NewsIsLater'
  BY <1>1 DEF FeedInv, ReadIsPublished, NewsIsLater
<1>3. IdsArePublished' /\ Superseded'
  BY <1>1 DEF FeedInv, IdsArePublished, Superseded, LaterPlace
<1>4. ShownOnce' /\ LastIsLowest' /\ RaisedIsNews'
  BY DEF ShownOnce, LastIsLowest, RaisedIsNews, Reading
<1> QED BY <1>2, <1>3, <1>4 DEF FeedInv

\* Nothing changes but for listings that are taken down.
LEMMA LessOnShow ==
  ASSUME FeedInv, UNCHANGED <<published, listId, reported, baseline, t>>,
         gone \subseteq gone'
  PROVE  FeedInv'
<1>1. OnShow' \subseteq OnShow
  BY DEF OnShow
<1>2. ReadIsPublished' /\ NewsIsLater' /\ IdsArePublished'
  BY DEF FeedInv, ReadIsPublished, NewsIsLater, IdsArePublished
<1>3. Superseded' /\ ShownOnce'
  BY DEF FeedInv, Superseded, LaterPlace, ShownOnce
<1>4. LastIsLowest' /\ RaisedIsNews'
  BY <1>1 DEF FeedInv, LastIsLowest, RaisedIsNews, Raised, Reading, Dealt
<1> QED BY <1>2, <1>3, <1>4 DEF FeedInv

\* A listing appears, at a newer time than at any place it had before.
LEMMA AppearingKeepsFeed ==
  ASSUME IInv, FeedInv, Appears, IdsArePublished',
         \A l \in 1..published : listId'[l] = listId[l],
         \A k \in 1..published :
           listId'[published + 1] = listId[k] =>
             k \in gone' /\ TimeOf[k] < TimeOf[published + 1]
  PROVE  FeedInv'
<1> DEFINE n == published + 1
<1>1. /\ published \in 0..MaxListing /\ published \in Nat /\ published' = n
      /\ published < MaxListing
      /\ n \in Nat /\ \A l \in 1..published' : l \in 1..published \/ l = n
      /\ 1..published \subseteq Listing
  BY TypesOfTraversal, PublishedByLocalTime DEF IInv, Appears
<1>2. 1..published \subseteq 1..published' /\ n \notin 1..published
  BY <1>1
<1>3. UNCHANGED <<reported, baseline, t>> /\ gone \subseteq gone'
  BY DEF Appears
<1>4. ReadIsPublished'
  BY <1>2, <1>3 DEF FeedInv, ReadIsPublished
<1>5. Superseded'
  <2> SUFFICES ASSUME NEW k \in 1..published', NEW l \in 1..published',
                      listId'[k] = listId'[l], k < l
               PROVE  k \in gone' /\ TimeOf[k] < TimeOf[l]
    BY DEF Superseded, LaterPlace
  <2>1. k \in 1..published
    BY <1>1
  <2>2. CASE l \in 1..published
    BY <1>3, <2>1, <2>2 DEF FeedInv, Superseded, LaterPlace
  <2>3. CASE l = n
    BY <2>1, <2>3
  <2> QED BY <1>1, <2>2, <2>3
<1>6. ShownOnce'
  BY <1>3 DEF FeedInv, ShownOnce, ReadIsPublished
<1>7. LastIsLowest'
  BY <1>3 DEF FeedInv, LastIsLowest, Reading
<1>8. NewsIsLater'
  BY <1>3 DEF FeedInv, NewsIsLater, ReadIsPublished
<1>9. RaisedIsNews'
  <2> SUFFICES ASSUME Reading, NEW l \in OnShow', l \notin t.seen, NEW k \in t.seen,
                      listId'[k] = listId'[l]
               PROVE  ~Dealt(t.maximum, l) /\ TimeOf[t.last] < TimeOf[l]
    BY <1>3 DEF RaisedIsNews, Raised, Reading, Dealt
  <2>1. k \in 1..published /\ l \in 1..published' /\ l \notin gone
    BY <1>3 DEF FeedInv, ReadIsPublished, Reading, OnShow
  <2>2. CASE l \in 1..published
    <3>1. l \in OnShow /\ listId[k] = listId[l]
      BY <2>1, <2>2 DEF OnShow
    <3> QED BY <3>1 DEF FeedInv, RaisedIsNews, Raised
  <2>3. CASE l = n
    <3>1. t \in Traversing
      BY TypesOfTraversal DEF IInv, Reading
    <3>2. /\ t.maximum \in Watermark \cup {NoMaximum} /\ Grounded(t.maximum)
          /\ t.last \in Listing \cup {None} /\ t.last # None
          /\ TimeOf[t.last] <= TimeOf[k]
      BY <3>1 DEF Traversing, IInv, BaselineIsSound, PageIsSound, Reading, FeedInv,
                  LastIsLowest
    <3>3. t.maximum.time \in Int
      BY <3>2 DEF Watermark, NoMaximum
    <3>4. ~Dealt(t.maximum, n)
      BY <1>1, <3>2, <3>3, PublishedLater
    <3>5. TimeOf[k] < TimeOf[n]
      BY <2>1, <2>3
    <3>6. TimeOf[t.last] \in Nat /\ TimeOf[k] \in Nat /\ TimeOf[n] \in Nat
      <4>1. k \in Listing /\ n \in Listing /\ t.last \in Listing
        BY <1>1, <2>1, <3>2, BoundsAreNaturals DEF Listing
      <4> QED BY <4>1, PublishedInTimeOrder
    <3> QED BY <2>3, <3>2, <3>4, <3>5, <3>6
  <2> QED BY <1>1, <2>1, <2>2, <2>3
<1> QED BY <1>4, <1>5, <1>6, <1>7, <1>8, <1>9 DEF FeedInv

LEMMA PublishKeepsFeed ==
  ASSUME IInv, FeedInv, Publish
  PROVE  FeedInv'
<1> DEFINE n == published + 1
<1>1. /\ published \in Nat /\ published' = n /\ n \in Nat /\ n \in Listing
      /\ listId' = listId
  BY TypesOfTraversal, BoundsAreNaturals DEF IInv, Publish, Listing
<1>2. /\ \A l \in 1..published : listId[l] \in 1..published
      /\ listId[n] = n /\ n \notin 1..published
  BY <1>1 DEF FeedInv, IdsArePublished
<1>3. 1..published' = 1..published \cup {n}
  BY <1>1
<1>4. IdsArePublished'
  BY <1>1, <1>2, <1>3 DEF FeedInv, IdsArePublished
<1>5. Appears
  BY DEF Publish, Appears
<1> QED BY <1>1, <1>2, <1>4, <1>5, AppearingKeepsFeed

LEMMA RaiseKeepsFeed ==
  ASSUME IInv, FeedInv, NEW x \in Listing, Raise(x)
  PROVE  FeedInv'
<1> DEFINE n == published + 1
<1>1. /\ published \in Nat /\ published' = n /\ n \in Nat /\ n \in Listing
      /\ listId \in [Listing -> Listing] /\ 1..published \subseteq Listing
      /\ OnShow \subseteq 1..published
  BY TypesOfTraversal, PublishedByLocalTime, BoundsAreNaturals
     DEF IInv, TypeOK, Raise, Listing
<1>2. /\ x \in OnShow /\ x \in 1..published /\ TimeOf[n] > TimeOf[x]
      /\ listId' = [listId EXCEPT ![n] = listId[x]] /\ gone' = gone \cup {x}
  BY <1>1 DEF Raise
<1>3. 1..published' = 1..published \cup {n} /\ n \notin 1..published
  BY <1>1
<1>4. listId'[n] = listId[x] /\ \A l \in Listing : l # n => listId'[l] = listId[l]
  BY <1>1, <1>2
<1>5. \A l \in 1..published : listId'[l] = listId[l]
  BY <1>1, <1>3, <1>4
<1>6. IdsArePublished'
  BY <1>2, <1>3, <1>4, <1>5 DEF FeedInv, IdsArePublished
<1>7. ASSUME NEW k \in 1..published, listId[x] = listId[k]
      PROVE  k \in gone' /\ TimeOf[k] < TimeOf[n]
  <2>1. x \in 1..published /\ x \notin gone
    BY <1>2 DEF OnShow
  <2>2. ~(x < k)
    BY <1>7, <2>1 DEF FeedInv, Superseded, LaterPlace
  <2>3. CASE k = x
    BY <1>2, <2>3
  <2>4. CASE k < x
    <3>1. k \in gone /\ TimeOf[k] < TimeOf[x]
      BY <1>2, <1>7, <2>4 DEF FeedInv, Superseded, LaterPlace
    <3>2. k \in Listing /\ x \in Listing /\ n \in Listing
      BY <1>1
    <3>3. TimeOf[k] \in Nat /\ TimeOf[x] \in Nat /\ TimeOf[n] \in Nat
      BY <3>2, PublishedInTimeOrder
    <3> QED BY <1>2, <3>1, <3>3
  <2>5. k \in Nat /\ x \in Nat
    BY <2>1
  <2> QED BY <2>2, <2>3, <2>4, <2>5
<1>8. Appears
  BY DEF Raise, Appears
<1> QED BY <1>4, <1>5, <1>6, <1>7, <1>8, AppearingKeepsFeed

\* What is observed last is no newer than what was before, nor than the rest of the page.
LEMMA LastFalls ==
  ASSUME TypeOK, NEW slip \in Nat, NEW size \in Nat \ {0}, ~Rises(PageAt(slip, size)),
         NEW S \in SUBSET Fresh(PageAt(slip, size)), t \in Traversing
  PROVE  /\ t.last # None => /\ LastSeen(S) # None
                             /\ TimeOf[LastSeen(S)] <= TimeOf[t.last]
         /\ \A k \in S : LastSeen(S) # None /\ TimeOf[LastSeen(S)] <= TimeOf[k]
<1> DEFINE fresh == Fresh(PageAt(slip, size))
<1>1. /\ published \in Nat /\ fresh \subseteq 1..published /\ fresh \subseteq Listing
      /\ t.last \in Listing \cup {None}
  BY TypesOfTraversal, PageOfFeed DEF PageAt, Traversing
<1>2. \A k \in Listing : TimeOf[k] \in Nat /\ k \in Nat
  BY PublishedInTimeOrder DEF Listing
<1>3. CASE S = {}
  <2>1. LastSeen(S) = t.last
    BY <1>3 DEF LastSeen
  <2> QED BY <1>1, <1>2, <1>3, <2>1
<1>4. CASE S # {}
  <2>1. LastSeen(S) = Min(S) /\ S \in SUBSET Nat
    BY <1>1, <1>2, <1>4 DEF LastSeen
  <2>2. LastSeen(S) \in S /\ \A k \in S : LastSeen(S) <= k
    BY <1>4, <2>1, MinIsLeast
  <2>3. LastSeen(S) \in Listing /\ LastSeen(S) # None
    BY <1>1, <2>2, NoneIsNoRecord
  <2>4. \A k \in S : TimeOf[LastSeen(S)] <= TimeOf[k]
    BY <1>1, <2>2, <2>3, OlderIsNoLater
  <2>5. ASSUME t.last # None PROVE TimeOf[LastSeen(S)] <= TimeOf[t.last]
    <3>1. fresh \in SUBSET Int /\ fresh # {} /\ published \in Int /\ \A i \in fresh : i <= published
      BY <1>1, <1>4
    <3>2. Max(fresh) \in fresh /\ Max(fresh) >= LastSeen(S)
      BY <2>2, <3>1, MaxIsGreatest
    <3>3. ~(TimeOf[Max(fresh)] > TimeOf[t.last])
      BY <2>5, <3>1 DEF Rises
    <3> HIDE DEF fresh
    <3>4. TimeOf[LastSeen(S)] <= TimeOf[Max(fresh)] /\ Max(fresh) \in Listing
      BY <1>1, <1>2, <2>3, <3>2, OlderIsNoLater
    <3>5. t.last \in Listing
      BY <1>1, <2>5
    <3> QED BY <1>2, <2>3, <3>3, <3>4, <3>5
  <2> QED BY <2>3, <2>4, <2>5
<1> QED BY <1>3, <1>4

\* Some of a page is read.
LEMMA SomeOfPageKeepsFeed ==
  ASSUME IInv, FeedInv, Reading, NEW slip \in Nat, NEW size \in Nat \ {0},
         ~Rises(PageAt(slip, size)), NEW S \in SUBSET Fresh(PageAt(slip, size)),
         UNCHANGED <<feed, reported, baseline>>,
         t'.seen = t.seen \cup S,
         t'.shown = t.shown \/ (t'.shown = OnShow /\ t.seen = {}),
         t'.found \subseteq t.found \cup S, t'.found \cap baseline = {},
         Reading' => t'.maximum = WithMaximum(t.maximum, S) /\ t'.last = LastSeen(S)
  PROVE  FeedInv'
<1>1. /\ TypeOK /\ published \in Nat /\ t \in Traversing
      /\ OnShow \subseteq 1..published /\ OnShow \subseteq Listing
      /\ 1..published \subseteq Listing /\ t.phase # "idle"
  BY TypesOfTraversal, PublishedByLocalTime DEF IInv, Reading
<1>2. S \subseteq OnShow /\ S \subseteq Listing
  BY <1>1, PageOfFeed DEF PageAt
<1>3. UNCHANGED <<published, gone, listId, reported, baseline>> /\ OnShow' = OnShow
  BY DEF feed, OnShow
<1>4. t.seen \subseteq 1..published /\ t.found \subseteq 1..published
      /\ t.shown \subseteq 1..published /\ baseline \subseteq 1..published
  BY <1>1 DEF FeedInv, ReadIsPublished
<1>5. ReadIsPublished'
  BY <1>1, <1>2, <1>3, <1>4 DEF FeedInv, ReadIsPublished
<1>6. IdsArePublished' /\ Superseded'
  BY <1>3 DEF FeedInv, IdsArePublished, Superseded, LaterPlace
<1>7. ShownOnce'
  <2> SUFFICES ASSUME NEW l \in t'.shown \ gone, NEW k \in t'.seen, listId[k] = listId[l]
               PROVE  k = l
    BY <1>3 DEF ShownOnce
  <2>1. l \in OnShow
    BY <1>4 DEF OnShow
  <2>2. CASE k \in S
    BY <1>1, <1>2, <2>1, <2>2, OnShowOnce DEF FeedInv
  <2>3. CASE k \in t.seen
    BY <1>1, <2>3 DEF FeedInv, ShownOnce
  <2> QED BY <2>2, <2>3
<1>8. /\ t.last # None => LastSeen(S) # None /\ TimeOf[LastSeen(S)] <= TimeOf[t.last]
      /\ \A k \in S : LastSeen(S) # None /\ TimeOf[LastSeen(S)] <= TimeOf[k]
  BY <1>1, LastFalls
<1>9. /\ t.last # None => t.last \in Listing
      /\ LastSeen(S) # None => LastSeen(S) \in Listing
      /\ \A k \in Listing : TimeOf[k] \in Nat
  <2>1. t.last \in Listing \cup {None}
    BY <1>1 DEF Traversing
  <2> QED BY <1>2, <2>1, LastIsSeen, PublishedInTimeOrder
<1>10. LastIsLowest'
  <2> SUFFICES ASSUME Reading', t'.seen # {}
               PROVE  /\ LastSeen(S) # None
                      /\ \A k \in t.seen \cup S : TimeOf[LastSeen(S)] <= TimeOf[k]
    BY DEF LastIsLowest
  <2>1. t.seen # {} => t.last # None /\ \A k \in t.seen : TimeOf[t.last] <= TimeOf[k]
    BY DEF FeedInv, LastIsLowest
  <2>2. LastSeen(S) # None
    BY <1>8, <2>1
  <2>3. ASSUME NEW k \in t.seen PROVE TimeOf[LastSeen(S)] <= TimeOf[k]
    <3>1. k \in Listing /\ t.last # None /\ TimeOf[t.last] <= TimeOf[k]
      BY <1>1, <1>4, <2>1
    <3>2. /\ TimeOf[LastSeen(S)] <= TimeOf[t.last]
          /\ TimeOf[LastSeen(S)] \in Nat /\ TimeOf[t.last] \in Nat /\ TimeOf[k] \in Nat
      BY <1>8, <1>9, <2>2, <3>1
    <3> QED BY <3>1, <3>2
  <2> QED BY <1>8, <2>2, <2>3
<1>11. RaisedIsNews'
  <2> SUFFICES ASSUME Reading', NEW l \in OnShow, l \notin t'.seen, NEW k \in t'.seen,
                      listId[k] = listId[l]
               PROVE  /\ ~Dealt(WithMaximum(t.maximum, S), l)
                      /\ TimeOf[LastSeen(S)] < TimeOf[l]
    BY <1>3 DEF RaisedIsNews, Raised, Dealt
  <2>1. k \in t.seen
    <3> SUFFICES ASSUME k \in S PROVE FALSE
      OBVIOUS
    <3> QED BY <1>1, <1>2, OnShowOnce DEF FeedInv
  <2>2. l \in OnShow \ t.seen /\ l \notin S
    OBVIOUS
  <2>3. ~Dealt(WithMaximum(t.maximum, S), l)
    BY <1>1, <2>1, <2>2, RaisedStaysNews DEF FeedInv
  <2>4. t.last # None /\ TimeOf[t.last] < TimeOf[l]
    BY <2>1, <2>2 DEF FeedInv, LastIsLowest, RaisedIsNews, Raised
  <2>5. LastSeen(S) # None /\ TimeOf[LastSeen(S)] <= TimeOf[t.last]
    BY <1>8, <2>4
  <2>6. TimeOf[LastSeen(S)] \in Nat /\ TimeOf[t.last] \in Nat /\ TimeOf[l] \in Nat
    BY <1>1, <1>9, <2>4, <2>5
  <2> QED BY <2>3, <2>4, <2>5, <2>6
<1>12. NewsIsLater'
  <2>1. ASSUME NEW k \in baseline, NEW l \in t'.found, listId[k] = listId[l] PROVE k < l
    <3>1. CASE l \in t.found
      BY <1>1, <2>1, <3>1 DEF FeedInv, NewsIsLater
    <3>2. CASE l \in S
      <4>1. l \in 1..published /\ l \notin gone /\ k \in 1..published /\ k # l
        BY <1>2, <1>4, <2>1, <3>2 DEF OnShow
      <4>2. ~(l < k)
        BY <2>1, <4>1 DEF FeedInv, Superseded, LaterPlace
      <4> QED BY <4>1, <4>2
    <3> QED BY <3>1, <3>2
  <2> QED BY <1>3, <2>1 DEF FeedInv, NewsIsLater
<1> QED BY <1>5, <1>6, <1>7, <1>10, <1>11, <1>12 DEF FeedInv

LEMMA IncrementalPageKeepsFeed ==
  ASSUME IInv, FeedInv, NEW slip \in Nat, NEW size \in Nat \ {0},
         IncrementalPage(slip, size)
  PROVE  FeedInv'
<1> DEFINE S == ProcessedAt(slip, size)
<1>1. /\ t.phase = "page" /\ UNCHANGED <<feed, reported, baseline>>
      /\ t \in Traversing
  BY TypesOfTraversal DEF IncrementalPage, IInv
<1>2. CASE Rises(PageAt(slip, size))
  <2>1. t' = FromTop("page") \/ t' = Idle
    BY <1>2 DEF IncrementalPage, PageAt
  <2> QED BY <1>1, <2>1, NothingRead DEF FromTop, Idle
<1>3. CASE ~Rises(PageAt(slip, size))
  <2>1. /\ t'.seen = t.seen \cup S /\ t'.shown = t.shown
        /\ t'.found = FoundAt(slip, size)
        /\ t'.maximum = WithMaximum(t.maximum, S) /\ t'.last = LastSeen(S)
    BY <1>1, <1>3 DEF IncrementalPage, PageAt, ProcessedAt, FoundAt, New, Traversing
  <2>2. S \in SUBSET Fresh(PageAt(slip, size))
    BY DEF ProcessedAt, UpToBoundary
  <2>3. t'.found \cap baseline = {}
    BY <1>1, <1>3, <2>1, PageKeepsAccount DEF IInv
  <2>4. t'.found \subseteq t.found \cup S
    BY <2>1 DEF FoundAt, New
  <2>5. Reading
    BY <1>1 DEF Reading
  <2> HIDE DEF S
  <2> QED BY <1>1, <1>3, <2>1, <2>2, <2>3, <2>4, <2>5, SomeOfPageKeepsFeed
<1> QED BY <1>2, <1>3

LEMMA BaselinePageKeepsFeed ==
  ASSUME IInv, FeedInv, NEW slip \in Nat, NEW size \in Nat \ {0}, BaselinePage(slip, size)
  PROVE  FeedInv'
<1> DEFINE S == Fresh(PageAt(slip, size))
           empty == t.pages = 0 /\ PageAt(slip, size) = {}
<1>1. /\ t.phase = "baseline" /\ UNCHANGED <<feed, reported, baseline>>
      /\ t \in Traversing /\ baseline = {} /\ (t.pages = 0 => t.seen = {})
  BY TypesOfTraversal DEF BaselinePage, IInv, BaselineIsSound, RowIsSound
<1>2. CASE t' = Idle
  BY <1>1, <1>2, NothingRead DEF Idle
<1>3. CASE t' # Idle /\ empty
  <2>1. t'.seen = {} /\ t'.shown = {} /\ t'.found = t.found /\ t'.phase = "store"
    BY <1>1, <1>3 DEF BaselinePage, PageAt, Traversing, IInv, BaselineIsSound
  <2>2. UNCHANGED <<published, gone, listId>>
    BY <1>1 DEF feed
  <2>3. ReadIsPublished' /\ NewsIsLater'
    BY <1>1, <2>1, <2>2 DEF FeedInv, ReadIsPublished, NewsIsLater
  <2>4. IdsArePublished' /\ Superseded'
    BY <2>2 DEF FeedInv, IdsArePublished, Superseded, LaterPlace
  <2>5. ShownOnce' /\ LastIsLowest' /\ RaisedIsNews'
    BY <2>1 DEF ShownOnce, LastIsLowest, RaisedIsNews, Reading
  <2> QED BY <2>3, <2>4, <2>5 DEF FeedInv
<1>4. CASE t' # Idle /\ ~empty
  <2>1. ~Rises(PageAt(slip, size))
    BY <1>4 DEF BaselinePage, PageAt
  <2>2. /\ t'.seen = t.seen \cup S /\ t'.found = t.found
        /\ t'.shown = (IF t.pages = 0 THEN OnShow ELSE t.shown)
        /\ t'.maximum = WithMaximum(t.maximum, S) /\ t'.last = LastSeen(S)
    BY <1>1, <1>4 DEF BaselinePage, PageAt, Traversing
  <2>3. S \in SUBSET Fresh(PageAt(slip, size)) /\ Reading
    BY <1>1 DEF Reading
  <2> HIDE DEF S
  <2> QED BY <1>1, <2>1, <2>2, <2>3, SomeOfPageKeepsFeed
<1> QED BY <1>2, <1>3, <1>4

LEMMA StepKeepsFeed ==
  ASSUME IInv, FeedInv, [Next]_vars
  PROVE  FeedInv'
<1>1. CASE ReadPage
  <2>1. PICK size \in 1..PageSize : BaselinePage(0, size) \/ IncrementalPage(0, size)
    BY <1>1 DEF ReadPage
  <2>2. size \in Nat \ {0} /\ 0 \in Nat
    BY BoundsAreNaturals
  <2> QED BY <2>1, <2>2, BaselinePageKeepsFeed, IncrementalPageKeepsFeed
<1>2. CASE ReadOverlappingPage
  <2>1. PICK slip \in 1..MaxSlip, size \in 1..PageSize :
          BaselinePage(slip, size) \/ IncrementalPage(slip, size)
    BY <1>2 DEF ReadOverlappingPage
  <2>2. size \in Nat \ {0} /\ slip \in Nat
    BY BoundsAreNaturals
  <2> QED BY <2>1, <2>2, BaselinePageKeepsFeed, IncrementalPageKeepsFeed
<1>3. CASE Start
  <2>1. t'.seen = {} /\ t'.shown = {} /\ t'.found = {}
    BY <1>3 DEF Start, FromTop, FromCheckpoint
  <2> QED BY <1>3, <2>1, NothingRead DEF Start
<1>4. CASE CursorRefused \/ Fail
  BY <1>4, NothingRead DEF CursorRefused, Fail, Give, Idle
<1>5. CASE Describe
  <2>1. t \in Traversing /\ UNCHANGED <<published, gone, listId, reported, baseline>>
        /\ t.phase = "describe"
    BY <1>5, TypesOfTraversal DEF Describe, feed, IInv
  <2>2. CASE t' = Idle
    BY <1>5, <2>2, NothingRead DEF Describe, Idle
  <2>3. CASE t' = [t EXCEPT !.left = @ - 1]
    <3>1. /\ t'.seen = t.seen /\ t'.shown = t.shown /\ t'.found = t.found
          /\ t'.phase = t.phase
      BY <2>1, <2>3 DEF Traversing
    <3>2. ReadIsPublished' /\ NewsIsLater'
      BY <2>1, <3>1 DEF FeedInv, ReadIsPublished, NewsIsLater
    <3>3. IdsArePublished' /\ Superseded'
      BY <2>1 DEF FeedInv, IdsArePublished, Superseded, LaterPlace
    <3>4. ShownOnce'
      BY <2>1, <3>1 DEF FeedInv, ShownOnce
    <3>5. LastIsLowest' /\ RaisedIsNews'
      BY <2>1, <3>1 DEF LastIsLowest, RaisedIsNews, Reading
    <3> QED BY <3>2, <3>3, <3>4, <3>5 DEF FeedInv
  <2> QED BY <1>5, <2>2, <2>3 DEF Describe
<1>6. CASE Store \/ StoreBaseline
  <2>1. UNCHANGED <<published, gone, listId>> /\ t'.phase = "idle" /\ t.phase # "idle"
    BY <1>6 DEF Store, StoreBaseline, Idle, feed
  <2>2. ReadIsPublished'
    BY <1>6, <2>1 DEF FeedInv, ReadIsPublished, Store, StoreBaseline
  <2>3. IdsArePublished' /\ Superseded'
    BY <2>1 DEF FeedInv, IdsArePublished, Superseded, LaterPlace
  <2>4. ShownOnce' /\ LastIsLowest' /\ RaisedIsNews'
    BY <2>1 DEF ShownOnce, LastIsLowest, RaisedIsNews, Reading
  <2>5. NewsIsLater'
    <3>1. CASE Store
      BY <2>1, <3>1 DEF FeedInv, NewsIsLater, Store
    <3>2. CASE StoreBaseline
      <4>1. reported' = {}
        BY <3>2 DEF StoreBaseline, IInv, BaselineIsSound, RowIsSound
      <4> QED BY <2>1, <4>1 DEF NewsIsLater
    <3> QED BY <1>6, <3>1, <3>2
  <2> QED BY <2>2, <2>3, <2>4, <2>5 DEF FeedInv
<1>7. CASE Publish \/ \E l \in Listing : Raise(l)
  BY <1>7, PublishKeepsFeed, RaiseKeepsFeed
<1>8. CASE Expire \/ (\E l \in Listing : TakeDown(l)) \/ UNCHANGED vars
  <2>1. UNCHANGED <<published, listId, reported, baseline, t>> /\ gone \subseteq gone'
    BY <1>8 DEF Expire, TakeDown, vars, feed
  <2> QED BY <2>1, LessOnShow
<1> QED BY <1>1, <1>2, <1>3, <1>4, <1>5, <1>6, <1>7, <1>8 DEF Next, Run

-----------------------------------------------------------------------------
\* The invariant and what follows from it.

LEMMA InitIsSound == Init => IInv
<1> SUFFICES ASSUME Init PROVE IInv
  OBVIOUS
<1>1. TypeOK
  <2>1. 0 \in 0..MaxListing /\ 0 \in 0..MaxTrouble
    BY BoundsAreNaturals
  <2> QED BY <2>1 DEF Init, TypeOK
<1>2. t.phase = "idle"
  BY DEF Init, Idle
<1>3. RowIsSound
  BY DEF Init, RowIsSound
<1> QED BY <1>1, <1>2, <1>3 DEF IInv, BaselineIsSound, PageIsSound, NextIsSound,
                                PagesAreLeft, FoundIsNews

LEMMA StutteringIsSound ==
  ASSUME IInv, UNCHANGED vars
  PROVE  IInv'
<1>1. UNCHANGED <<published, gone, listId, row, described, reported, t, baseline, expired,
                  trouble>>
  BY DEF vars
<1>2. TypeOK' /\ RowIsSound'
  BY <1>1, RowStays DEF IInv, TypeOK, feed
<1>3. LocalTime' = LocalTime /\ Settled' = Settled
  BY <1>1 DEF LocalTime, Settled
<1>4. BaselineIsSound'
  BY <1>1, <1>3 DEF IInv, BaselineIsSound, Grounded, AccountsFor, Dealt
<1>5. PageIsSound'
  BY <1>1, <1>3 DEF IInv, PageIsSound, Grounded, AccountsAbove, Dealt
<1>6. NextIsSound'
  BY <1>1, <1>3 DEF IInv, NextIsSound, Sound, Grounded, AccountsFor, AccountsAbove, Dealt,
                    Grows
<1>7. PagesAreLeft' /\ FoundIsNews'
  BY <1>1 DEF IInv, PagesAreLeft, FoundIsNews
<1> QED BY <1>2, <1>4, <1>5, <1>6, <1>7 DEF IInv

LEMMA TroubleIsBounded ==
  ASSUME TypeOK, trouble < MaxTrouble
  PROVE  trouble + 1 \in 0..MaxTrouble
BY BoundsAreNaturals DEF TypeOK

LEMMA PageKeepsIInv ==
  ASSUME IInv, FeedInv, NEW slip \in Nat, NEW size \in Nat \ {0},
         BaselinePage(slip, size) \/ IncrementalPage(slip, size), trouble' \in 0..MaxTrouble
  PROVE  IInv'
BY BaselinePageKeepsIInv, IncrementalPageKeepsIInv

LEMMA NextKeepsIInv ==
  ASSUME IInv, FeedInv, Next
  PROVE  IInv'
<1>1. TypeOK
  BY DEF IInv
<1>2. CASE Start \/ StoreBaseline \/ Describe \/ Store
  BY <1>2, StartKeepsIInv, StoreBaselineKeepsIInv, DescribeKeepsIInv, StoreKeepsIInv
<1>3. CASE ReadPage
  <2>1. PICK size \in 1..PageSize : BaselinePage(0, size) \/ IncrementalPage(0, size)
    BY <1>3 DEF ReadPage
  <2>2. size \in Nat \ {0} /\ 0 \in Nat /\ trouble' \in 0..MaxTrouble
    BY <1>1, <1>3, BoundsAreNaturals DEF ReadPage, TypeOK
  <2> QED BY <2>1, <2>2, PageKeepsIInv
<1>4. CASE ReadOverlappingPage
  <2>1. PICK slip \in 1..MaxSlip, size \in 1..PageSize :
          BaselinePage(slip, size) \/ IncrementalPage(slip, size)
    BY <1>4 DEF ReadOverlappingPage
  <2>2. size \in Nat \ {0} /\ slip \in Nat
    BY BoundsAreNaturals
  <2>3. trouble' \in 0..MaxTrouble
    BY <1>1, <1>4, TroubleIsBounded DEF ReadOverlappingPage
  <2> QED BY <2>1, <2>2, <2>3, PageKeepsIInv
<1>5. CASE CursorRefused
  <2>1. trouble' \in 0..MaxTrouble
    BY <1>1, <1>5 DEF CursorRefused, TypeOK
  <2> QED BY <1>5, <2>1, GivenUpIsSound DEF CursorRefused, Give
<1>6. CASE Fail
  <2>1. trouble' \in 0..MaxTrouble
    BY <1>1, <1>6, TroubleIsBounded DEF Fail
  <2> QED BY <1>6, <2>1, GivenUpIsSound DEF Fail, Give
<1>7. CASE Publish \/ Expire \/ \E l \in Listing : Raise(l) \/ TakeDown(l)
  BY <1>7, PublishKeepsIInv, ExpireKeepsIInv, RaiseKeepsIInv, TakeDownKeepsIInv
<1> QED BY <1>2, <1>3, <1>4, <1>5, <1>6, <1>7 DEF Next, Run

LEMMA InvariantHolds == Spec => [](IInv /\ FeedInv)
<1>1. Init => FeedInv
  <2> HAVE Init
  <2>1. published = 0 /\ 1..published = {} /\ t.phase = "idle"
    BY DEF Init, Idle
  <2> QED BY <2>1 DEF Init, FeedInv, ReadIsPublished, IdsArePublished, Superseded,
                     ShownOnce, LastIsLowest, RaisedIsNews, NewsIsLater, Reading
<1>2. IInv /\ FeedInv /\ [Next]_vars => (IInv /\ FeedInv)'
  BY NextKeepsIInv, StutteringIsSound, StepKeepsFeed
<1> QED BY InitIsSound, <1>1, <1>2, PTL DEF Spec

\* The variables keep their types: in particular a page that leads on always has a
\* listing to resume at, and a row to be stored is a row.
THEOREM TypesHold == Spec => []TypeOK
<1>1. IInv => TypeOK
  BY DEF IInv
<1> QED BY InvariantHolds, <1>1, PTL

\* No watermark passes a listing that no run has stored (NothingMissed), however deep the
\* gap, however the pages overlap, and wherever a traversal is cut, resumed or fails.
THEOREM NothingIsMissed == Spec => []NothingMissed
<1>1. IInv => NothingMissed
  BY DEF IInv, RowIsSound, Sound, AccountsFor, Settled, NothingMissed
<1> QED BY InvariantHolds, <1>1, PTL

\* What the baseline saw is reported only if it was raised since, and then at the place it
\* was raised to (BaselineStaysSilent).
THEOREM BaselineIsSilent == Spec => []BaselineStaysSilent
<1>1. IInv /\ FeedInv => BaselineStaysSilent
  <2> SUFFICES ASSUME FeedInv, NEW l \in reported, NEW k \in baseline,
                      listId[l] = listId[k]
               PROVE  k < l /\ TimeOf[k] < TimeOf[l]
    BY DEF BaselineStaysSilent
  <2>1. k < l
    BY DEF FeedInv, NewsIsLater
  <2>2. k \in 1..published /\ l \in 1..published
    BY DEF FeedInv, ReadIsPublished
  <2> QED BY <2>1, <2>2 DEF FeedInv, Superseded, LaterPlace
<1> QED BY InvariantHolds, <1>1, PTL

\* A stored watermark only grows (WatermarkGrows): a run that stores a row has compared
\* it with the one it read, and no other run has stored one since.
THEOREM WatermarkOnlyGrows == Spec => WatermarkGrows
<1> DEFINE Growing == row # None => Grows(row.watermark, row'.watermark)
<1>1. ASSUME IInv, [Next]_vars PROVE [Growing]_row
  <2>1. CASE UNCHANGED row
    BY <2>1
  <2>2. CASE StoreBaseline
    BY <1>1, <2>2 DEF StoreBaseline, IInv, BaselineIsSound
  <2>3. CASE Store
    BY <1>1, <2>3 DEF Store, IInv, NextIsSound
  <2>4. Next => UNCHANGED row \/ StoreBaseline \/ Store
    BY DEF Next, Run, Start, ReadPage, ReadOverlappingPage, BaselinePage, IncrementalPage,
           Describe, CursorRefused, Fail, Give, Publish, Raise, Expire, TakeDown
  <2> QED BY <1>1, <2>1, <2>2, <2>3, <2>4 DEF vars
<1>2. IInv /\ [Next]_vars =>
        [row # None => LET old == row.watermark
                           new == row'.watermark IN
                       new.time > old.time
                       \/ (new.time = old.time /\ old.ids \subseteq new.ids)]_row
  BY <1>1 DEF Grows
<1> QED BY InvariantHolds, <1>2, PTL DEF Spec, WatermarkGrows
-----------------------------------------------------------------------------
\* The promise of FeedWatch.

\* A listing that is published is one the monitor has not passed.
LEMMA PublishIsWatched ==
  ASSUME IInv, Publish
  PROVE  Watch!Next
<1> DEFINE l == published + 1
<1>1. published \in 0..MaxListing /\ l \in Listing /\ published' = l
  BY BoundsAreNaturals DEF IInv, TypeOK, Publish, Listing
<1>2. (1..published)' = (1..published) \cup {l} /\ l \notin 1..published
  BY <1>1, BoundsAreNaturals
<1>3. row # None => ~Dealt(row.watermark, l)
  <2> HAVE row # None
  <2>1. row.watermark.time \in Int /\ Grounded(row.watermark)
    BY DEF IInv, TypeOK, Row, Watermark, RowIsSound, Sound
  <2> QED BY <1>1, <2>1, PublishedLater DEF Publish
<1>4. Passed' = Passed
  BY <1>2, <1>3 DEF Publish, Passed, Dealt
<1>5. l \notin Passed
  BY <1>2 DEF Passed
<1>6. Watch!Publish(l)
  BY <1>2, <1>4, <1>5 DEF Publish, Watch!Publish
<1> QED BY <1>1, <1>6 DEF Watch!Next

\* So is one that is raised, at its new place.
LEMMA RaiseIsWatched ==
  ASSUME IInv, NEW k \in Listing, Raise(k)
  PROVE  Watch!Next
<1> DEFINE l == published + 1
<1>1. published \in 0..MaxListing /\ l \in Listing /\ published' = l
  BY BoundsAreNaturals DEF IInv, TypeOK, Raise, Listing
<1>2. (1..published)' = (1..published) \cup {l} /\ l \notin 1..published
  BY <1>1, BoundsAreNaturals
<1>3. row # None => ~Dealt(row.watermark, l)
  <2> HAVE row # None
  <2>1. row.watermark.time \in Int /\ Grounded(row.watermark)
    BY DEF IInv, TypeOK, Row, Watermark, RowIsSound, Sound
  <2> QED BY <1>1, <2>1, PublishedLater DEF Raise
<1>4. Passed' = Passed
  BY <1>2, <1>3 DEF Raise, Passed, Dealt
<1>5. l \notin Passed
  BY <1>2 DEF Passed
<1>6. Watch!Raise(k, l)
  BY <1>2, <1>4, <1>5 DEF Raise, OnShow, Watch!Raise
<1> QED BY <1>1, <1>6 DEF Watch!Next

LEMMA TakeDownIsWatched ==
  ASSUME NEW l \in Listing, TakeDown(l)
  PROVE  Watch!Next
<1>1. Passed' = Passed
  BY DEF TakeDown, Passed, Dealt
<1>2. Watch!TakeDown(l)
  BY <1>1 DEF TakeDown, OnShow, Watch!TakeDown
<1> QED BY <1>2 DEF Watch!Next

\* The baseline that is stored is passed, and nothing else on show is.
LEMMA StoreBaselineIsWatched ==
  ASSUME IInv, ReadIsPublished, StoreBaseline, IInv'
  PROVE  Watch!Next
<1>1. row = None /\ row' # None /\ published' = published /\ gone' = gone
  <2>1. t \in Traversing /\ t.maximum # NoMaximum /\ row = None
    BY DEF IInv, TypeOK, Idle, BaselineIsSound, StoreBaseline
  <2>2. row' = [watermark |-> t.maximum, checkpoint |-> None]
    BY DEF StoreBaseline
  <2>3. row' \in Row
    BY <2>1, <2>2 DEF Traversing, Row
  <2> QED BY <2>1, <2>3, NoneIsNoRecord DEF StoreBaseline, feed
<1>2. baseline' \subseteq 1..published /\ reported' = reported /\ reported = {}
  BY <1>1 DEF StoreBaseline, ReadIsPublished, IInv, RowIsSound
<1>3. Passed' \subseteq baseline' \cup gone
  BY <1>1, <1>2 DEF Passed, IInv, RowIsSound, Sound, AccountsFor, Settled
<1>4. baseline' \ gone \subseteq Passed'
  BY <1>1, <1>2 DEF Passed, IInv, RowIsSound
<1>5. Watch!TakeBaseline
  BY <1>1, <1>2, <1>3, <1>4 DEF Watch!TakeBaseline
<1> QED BY <1>5 DEF Watch!Next

\* What a run stores: what it passes is reported with it, and what was passed before still is.
LEMMA StoreIsWatched ==
  ASSUME IInv, ReadIsPublished, Store, IInv'
  PROVE  Watch!Next
<1>1. row # None /\ row' = t.next /\ row' # None
  BY DEF IInv, NextIsSound, Store
<1>2. published' = published /\ gone' = gone /\ baseline' = baseline
      /\ reported' = reported \cup t.found
  BY DEF Store, feed
<1>3. reported' \subseteq (1..published) \ baseline
  BY <1>2 DEF Store, IInv, RowIsSound, ReadIsPublished, FoundIsNews
<1>4. Passed' \subseteq baseline \cup reported' \cup gone
  BY <1>1, <1>2 DEF Passed, IInv, RowIsSound, Sound, AccountsFor, Settled
<1>5. Passed \subseteq Passed'
  <2>1. Grows(row.watermark, row'.watermark)
    BY <1>1 DEF IInv, NextIsSound, Store
  <2>2. row.watermark \in Watermark /\ row'.watermark \in Watermark /\ Grounded(row.watermark)
    BY <1>1 DEF IInv, TypeOK, Row, RowIsSound, Sound
  <2>3. ASSUME NEW l \in 1..published, Dealt(row.watermark, l)
        PROVE  Dealt(row'.watermark, l)
    <3>1. l \in Listing
      BY PublishedByLocalTime DEF IInv, TypeOK
    <3> QED BY <2>1, <2>2, <2>3, <3>1, DealtIsKept DEF Grounded
  <2> QED BY <1>1, <1>2, <2>3 DEF Passed
<1>6. Watch!Report
  BY <1>1, <1>2, <1>3, <1>4, <1>5 DEF Watch!Report
<1> QED BY <1>6 DEF Watch!Next

LEMMA StepIsWatched ==
  ASSUME IInv, FeedInv, [Next]_vars, IInv'
  PROVE  [Watch!Next]_Watch!wvars
<1>1. CASE UNCHANGED <<published, gone, row, baseline, reported>>
  BY <1>1 DEF Watch!wvars, Passed, Dealt
<1>2. Next => \/ UNCHANGED <<published, gone, row, baseline, reported>>
              \/ StoreBaseline \/ Store \/ Publish
              \/ \E l \in Listing : Raise(l) \/ TakeDown(l)
  BY DEF Next, Run, Start, ReadPage, ReadOverlappingPage, BaselinePage, IncrementalPage,
         Describe, CursorRefused, Fail, Give, Expire, feed
<1>3. CASE UNCHANGED vars
  BY <1>1, <1>3 DEF vars
<1>4. ReadIsPublished
  BY DEF FeedInv
<1> QED BY <1>1, <1>2, <1>3, <1>4, StoreBaselineIsWatched, StoreIsWatched, PublishIsWatched,
           RaiseIsWatched, TakeDownIsWatched

\* Traversal implements FeedWatch (KeepsFeedWatch): pages, cursors, checkpoints, failures
\* and a feed that moves come to one baseline and reports that miss nothing.
THEOREM FeedWatchIsKept == Spec => KeepsFeedWatch
<1>1. Init => Watch!Init
  BY DEF Init, Watch!Init, Passed
<1>2. IInv /\ FeedInv /\ [Next]_vars /\ IInv' => [Watch!Next]_Watch!wvars
  BY StepIsWatched
<1> QED BY <1>1, <1>2, InvariantHolds, PTL DEF Spec, KeepsFeedWatch, Watch!Spec
-----------------------------------------------------------------------------
\* A run ends: what CatchesUp rests on.

\* How many steps a traversal can still take; a refused checkpoint is good for one more
\* traversal from the top.
StepsLeft(u) ==
  CASE u.phase = "baseline" -> (MaxPages - u.pages) + 1
    [] u.phase = "page" ->
         (MaxPages - u.pages) + (IF u.resumed THEN MaxPages ELSE 0) + DescriptionLimit + 1
    [] u.phase = "describe" -> u.left + 1
    [] u.phase = "store" -> 1
    [] u.phase = "idle" -> 0
LongestRun == 2 * MaxPages + DescriptionLimit + 1

RunsCountDown == [][t.phase # "idle" => StepsLeft(t') < StepsLeft(t)]_t

LEMMA StepsAreLeft ==
  ASSUME TypeOK
  PROVE  StepsLeft(t) \in 0..LongestRun
<1>1. {MaxPages, DescriptionLimit} \subseteq Nat
  BY BoundsAreNaturals
<1>2. CASE t = Idle
  BY <1>1, <1>2 DEF Idle, StepsLeft, LongestRun
<1>3. CASE t \in Traversing
  <2>1. /\ t.phase \in {"baseline", "store", "page", "describe"}
        /\ t.pages \in 0..MaxPages /\ t.left \in 0..DescriptionLimit
    BY <1>3 DEF Traversing
  <2> QED BY <1>1, <2>1 DEF StepsLeft, LongestRun
<1> QED BY <1>2, <1>3 DEF TypeOK

LEMMA PageCountsDown ==
  ASSUME IInv, NEW slip \in Nat, NEW size \in Nat,
         BaselinePage(slip, size) \/ IncrementalPage(slip, size)
  PROVE  StepsLeft(t') < StepsLeft(t)
<1>1. {MaxPages, DescriptionLimit} \subseteq Nat
  BY BoundsAreNaturals
<1>2. t \in Traversing /\ t.phase \in {"baseline", "page"}
  BY DEF IInv, TypeOK, Idle, BaselinePage, IncrementalPage
<1>3. t.pages \in 0..MaxPages /\ t.pages < MaxPages /\ t.left \in 0..DescriptionLimit
      /\ t.resumed \in BOOLEAN
  BY <1>2 DEF IInv, PagesAreLeft, Traversing
<1>4. CASE t' = Idle
  BY <1>1, <1>2, <1>3, <1>4 DEF Idle, StepsLeft
<1>5. CASE BaselinePage(slip, size) /\ t' # Idle
  <2>1. t.phase = "baseline"
    BY <1>5 DEF BaselinePage
  <2> DEFINE older == Older(t.cursor, slip)
             page == Top(older, size)
             next == NextCursor(page, older)
             maximum == WithMaximum(t.maximum, Fresh(page))
             closed == TieClosed(Fresh(page), maximum.time) \/ next = None
  <2>2. \/ t'.phase = "store"
        \/ t'.phase = (IF closed THEN "store" ELSE t.phase) /\ t'.pages = t.pages + 1
    <3> t \in Traversing
      BY <1>2
    <3> HIDE DEF closed
    <3> QED BY <1>5 DEF BaselinePage, Traversing, closed
  <2> QED BY <1>1, <1>3, <2>1, <2>2 DEF StepsLeft
<1>6. CASE IncrementalPage(slip, size) /\ t' # Idle
  <2>1. t.phase = "page"
    BY <1>6 DEF IncrementalPage
  <2>2. \/ t.resumed /\ t' = FromTop("page")
        \/ t'.phase = "describe" /\ t'.left = t.left
        \/ t'.phase = "page" /\ t'.pages = t.pages + 1 /\ t'.resumed = t.resumed
    BY <1>2, <1>6, <2>1 DEF IncrementalPage, StaleCheckpoint, Traversing
  <2>3. CASE t.resumed /\ t' = FromTop("page")
    BY <1>1, <1>3, <2>1, <2>3 DEF StepsLeft, FromTop
  <2>4. CASE t'.phase = "describe" /\ t'.left = t.left
    BY <1>1, <1>3, <2>1, <2>4 DEF StepsLeft
  <2>5. CASE t'.phase = "page" /\ t'.pages = t.pages + 1 /\ t'.resumed = t.resumed
    BY <1>1, <1>3, <2>1, <2>5 DEF StepsLeft
  <2> QED BY <2>2, <2>3, <2>4, <2>5
<1> QED BY <1>4, <1>5, <1>6

LEMMA StepCountsDown ==
  ASSUME IInv, [Next]_vars, t.phase # "idle", t' # t
  PROVE  StepsLeft(t') < StepsLeft(t)
<1>1. t \in Traversing /\ t.left \in 0..DescriptionLimit
  BY DEF IInv, TypeOK, Idle, Traversing
<1>2. StepsLeft(t) > 0
  <2>1. t.phase \in {"baseline", "store", "page", "describe"} /\ t.pages \in 0..MaxPages
    BY <1>1 DEF Traversing
  <2> QED BY <1>1, <2>1, BoundsAreNaturals DEF StepsLeft
<1>3. CASE t' = Idle
  BY <1>2, <1>3 DEF Idle, StepsLeft
<1>4. CASE ReadPage
  BY <1>4, PageCountsDown, BoundsAreNaturals DEF ReadPage
<1>5. CASE ReadOverlappingPage
  <2>1. PICK slip \in 1..MaxSlip, size \in 1..PageSize :
          BaselinePage(slip, size) \/ IncrementalPage(slip, size)
    BY <1>5 DEF ReadOverlappingPage
  <2> QED BY <2>1, PageCountsDown, BoundsAreNaturals
<1>6. CASE Describe /\ t' # Idle
  <2>1. t.phase = "describe" /\ t'.phase = "describe" /\ t'.left = t.left - 1
    BY <1>1, <1>6 DEF Describe, Traversing
  <2> QED BY <1>1, <2>1 DEF StepsLeft
<1> QED BY <1>3, <1>4, <1>5, <1>6 DEF Next, Run, Start, StoreBaseline, Store, CursorRefused,
           Fail, Give, Publish, Raise, Expire, TakeDown, vars

\* Every step of a run brings it nearer to its end, whatever the feed does meanwhile
\* (RunsCountDown): it ends after LongestRun steps at the latest, which is what CatchesUp
\* needs beside the fairness of Run.
THEOREM RunsEnd == Spec => [](StepsLeft(t) \in 0..LongestRun) /\ RunsCountDown
<1>1. IInv => StepsLeft(t) \in 0..LongestRun
  BY StepsAreLeft DEF IInv
<1>2. IInv /\ [Next]_vars => [t.phase # "idle" => StepsLeft(t') < StepsLeft(t)]_t
  BY StepCountsDown
<1> QED BY InvariantHolds, <1>1, <1>2, PTL DEF Spec, RunsCountDown
=============================================================================
