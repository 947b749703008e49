-------------------------- MODULE ListWalksProofs ---------------------------
(***************************************************************************)
(* Proofs about ListWalks, for lists of every length, every page size,     *)
(* --max, page bound and service its constants allow, and any number of    *)
(* changes by other clients: a list nobody changes is read whole and in    *)
(* order (CompleteWhenStable), and changes never show up as a finished     *)
(* listing that repeats or loses a row (EditsHideNothing).                 *)
(*                                                                         *)
(* Neither is inductive: both speak of finished walks.  The invariant says *)
(* how far a walk has come.  While the list is unchanged its rows are the  *)
(* list up to the next page (InStep); while rows only come in, a row the   *)
(* walk owes is never behind the next page uncollected (Behind); and a     *)
(* sweep told the row count has full pages so far, and the first rows of   *)
(* the list whenever its length is again the one told (Counted).           *)
(***************************************************************************)
EXTENDS ListWalks, TLAPS

\* The rows of a page of a DLP listing or sweep, and how far a walk has read.
Size == Least(walk.limit, service.size)
Place == IF walk.kind \in {"skip", "offset"} THEN skip ELSE pages * Size

\* A walk that goes on has room for a row, has pages left, and its offset counts
\* its rows.
GoingOn ==
    end = "none" =>
        /\ walk.kind \in {"skip", "number"} => Len(rows) < Cap
        /\ walk.kind = "offset" => pages < walk.pages /\ skip = Len(rows)
        /\ walk.kind = "skip" => skip = walk.start + Len(rows)

\* A total is a cap because the list was longer than what is counted.
CappedOK ==
    /\ capped => walk.kind = "skip" /\ service.count = "capped"
    /\ capped /\ ~deleted => Len(list) > CountCap

\* A sweep knows what its service tells, and nothing before the first page.
ToldOK ==
    walk.kind = "sweep" =>
        /\ told.pages # NoTotal => "pages" \in service.tells
        /\ told.elements # NoTotal => "elements" \in service.tells
        /\ told.size # NoTotal =>
             told.size = IF "size" \in service.tells THEN Size ELSE walk.limit
        /\ pages = 0 => told = Untold /\ rows = <<>>

\* No row is collected twice.
OnceOK == walk.keyed /\ walk.kind # "offset" => NoRepeat(rows)

\* Rows r are those of list l from the start on.
IsRead(r, l) ==
    /\ r # <<>> => walk.start + Len(r) <= Len(l)
    /\ \A i \in 1 .. Len(r) : r[i] = l[walk.start + i]

\* While nobody changes the list, all of it up to the next page is read.
InStep ==
    Stable =>
        /\ began = list
        /\ end = "none" /\ service.heeds =>
            /\ IsRead(rows, list)
            /\ walk.kind \in {"number", "sweep"} => Len(rows) = Least(Len(list), Place)
            /\ walk.kind = "sweep" =>
                /\ told.pages \in {NoTotal, PagesOf(Len(list), Size)}
                /\ told.elements \in {NoTotal, Len(list)}
                /\ "pages" \in service.tells => pages = 0 \/ Place < Len(list)

\* The row count a sweep was told is the length the list had, and that of its
\* rows the one of the full pages.
Counted ==
    walk.kind = "sweep" /\ "elements" \in service.tells /\ end = "none" /\ pages > 0 =>
        /\ told.elements # NoTotal /\ told.size = Size
        /\ Len(rows) = pages * Size
        /\ ~deleted => told.elements <= Len(list)
        /\ ~inserted => Len(list) <= told.elements
        /\ ~(inserted /\ deleted) /\ Len(list) = told.elements => IsRead(rows, list)

\* While nothing is deleted, what the walk owes is in the list, and nothing
\* of it is behind the next page but what was collected.
Behind ==
    ~deleted =>
        /\ Range(began) \subseteq Range(list)
        /\ end = "none" /\ service.heeds =>
            \A i \in 1 .. Len(list) :
                i > Place \/ list[i] \in Range(rows) \/ list[i] \notin Range(Due(began))

\* The inductive invariant.
IInv ==
    /\ TypeOK
    /\ GoingOn
    /\ CappedOK
    /\ ToldOK
    /\ OnceOK
    /\ InStep
    /\ Counted
    /\ Behind
    /\ CompleteWhenStable
    /\ EditsHideNothing

-----------------------------------------------------------------------------
(* Pages *)

\* The fields of a walk and of its service.
LEMMA Fields ==
    ASSUME TypeOK
    PROVE  /\ walk.kind \in {"skip", "number", "sweep", "offset"}
           /\ walk.start \in Nat /\ walk.limit \in Nat \ {0} /\ walk.max \in Nat
           /\ walk.pages \in Nat \ {0}
           /\ walk.partial \in BOOLEAN /\ walk.shrink \in BOOLEAN /\ walk.keyed \in BOOLEAN
           /\ walk.kind # "skip" => walk.start = 0
           /\ walk.kind = "sweep" => walk.max = 0
           /\ walk.kind = "skip" => service.count \in {"exact", "none", "capped"}
           /\ walk.kind \in {"number", "sweep"} =>
                /\ service.tells \subseteq {"size", "pages", "elements", "number"}
                /\ service.last \in {"told", "never", "none"}
           /\ walk.kind = "offset" => service.next \in {"more", "always"}
           /\ service.size \in Nat \ {0} /\ service.heeds \in BOOLEAN
BY PageWalkAssumption, NumberedWalkAssumption, OffsetWalkAssumption
   DEF TypeOK, ListingTypeOK, PageWalkTypeOK, NumberedWalkTypeOK, OffsetWalkTypeOK,
       WalkSpecs, PageServiceKinds, NumberedServiceKinds, OffsetServiceKinds

\* The numbers a walk computes with.
LEMMA Numbers ==
    ASSUME TypeOK
    PROVE  /\ Cap \in Nat \ {0} /\ Cap <= MaxItems /\ Room \in Int /\ Room = Cap - Len(rows)
           /\ UserCap => Cap = walk.max
           /\ Size \in Nat \ {0} /\ Size <= walk.limit /\ Size <= service.size
           /\ Size = walk.limit \/ Size = service.size
           /\ pages \in Nat /\ pages <= walk.pages /\ skip \in Nat
           /\ pages * Size \in Nat /\ (pages + 1) * Size = pages * Size + Size
           /\ Place \in Nat
           /\ rows \in Seq(Keys) /\ Len(rows) \in Nat /\ list \in Seq(Keys) /\ Len(list) \in Nat
           /\ NoRepeat(list)
           /\ MaxItems \in Nat \ {0} /\ NoTotal \notin Nat /\ NoTotal \notin BOOLEAN
<1>1. /\ walk.limit \in Nat \ {0} /\ walk.max \in Nat /\ walk.pages \in Nat \ {0}
      /\ service.size \in Nat \ {0}
  BY Fields
<1>2. /\ rows \in Seq(Keys) /\ list \in Seq(Keys) /\ pages \in 0 .. walk.pages /\ skip \in Nat
      /\ NoRepeat(list)
  BY DEF TypeOK, ListingTypeOK
<1>3. Cap \in Nat \ {0} /\ Cap <= MaxItems /\ (UserCap => Cap = walk.max)
  BY <1>1, ListingAssumption DEF Cap, UserCap
<1>4. /\ Size \in Nat \ {0} /\ Size <= walk.limit /\ Size <= service.size
      /\ Size = walk.limit \/ Size = service.size
  BY <1>1 DEF Size, Least
<1>5. pages * Size \in Nat /\ (pages + 1) * Size = pages * Size + Size
  <2> HIDE DEF Size
  <2> QED
    BY <1>1, <1>2, <1>4
<1>6. NoTotal \notin Nat /\ NoTotal \notin BOOLEAN /\ MaxItems \in Nat \ {0}
  BY ListingAssumption
<1> QED
  BY <1>1, <1>2, <1>3, <1>4, <1>5, <1>6 DEF Place, Room

\* So many pages of a size have so many rows.
LEMMA PagesFacts ==
    ASSUME NEW n \in Nat, NEW size \in Nat \ {0}, NEW k \in Nat
    PROVE  /\ PagesOf(n, size) \in Nat
           /\ k >= PagesOf(n, size) <=> k * size >= n
           /\ PagesOf(n, size) = 0 <=> n = 0
<1>1. PagesOf(n, size) \in Nat /\ (PagesOf(n, size) = 0 <=> n = 0)
  BY DEF PagesOf
<1>2. k >= PagesOf(n, size) => k * size >= n
  BY DEF PagesOf
<1>3. k * size >= n => k >= PagesOf(n, size)
  BY DEF PagesOf
<1> QED
  BY <1>1, <1>2, <1>3

\* The rows of a slice.
LEMMA SliceFacts ==
    ASSUME TypeOK, NEW s \in Nat, NEW n \in Nat
    PROVE  LET got == Slice(s, n)
               from == IF service.heeds THEN s ELSE 0
           IN  /\ got \in Seq(Keys)
               /\ Len(got) = IF Len(list) >= from + n THEN n
                             ELSE IF Len(list) >= from THEN Len(list) - from ELSE 0
               /\ \A i \in 1 .. Len(got) : got[i] = list[from + i]
<1>1. PICK from \in Nat : from = IF service.heeds THEN s ELSE 0
  OBVIOUS
<1>2. list \in Seq(Keys) /\ Slice(s, n) = SubSeq(list, from + 1, Least(Len(list), from + n))
  BY <1>1 DEF Slice, TypeOK, ListingTypeOK
<1>3. PICK to \in Nat : to = Least(Len(list), from + n)
  BY <1>2 DEF Least
<1>4. to <= Len(list)
  BY <1>2, <1>3 DEF Least
<1>5. /\ SubSeq(list, from + 1, to) \in Seq(Keys)
      /\ Len(SubSeq(list, from + 1, to)) = IF from <= to THEN to - from ELSE 0
      /\ from <= to => \A i \in 1 .. to - from : SubSeq(list, from + 1, to)[i] = list[from + i]
  BY <1>2, <1>4
<1>6. to = IF Len(list) < from + n THEN Len(list) ELSE from + n
  BY <1>3 DEF Least
<1>7. Slice(s, n) = SubSeq(list, from + 1, to)
  BY <1>2, <1>3
<1>8. Len(list) \in Nat
  BY <1>2
<1>9. /\ Slice(s, n) \in Seq(Keys)
      /\ Len(Slice(s, n)) = IF Len(list) >= from + n THEN n
                           ELSE IF Len(list) >= from THEN Len(list) - from ELSE 0
  BY <1>5, <1>6, <1>7, <1>8
<1>10. ASSUME NEW i \in 1 .. Len(Slice(s, n)) PROVE Slice(s, n)[i] = list[from + i]
  BY <1>5, <1>6, <1>7, <1>8, <1>10
<1> QED
  BY <1>1, <1>9, <1>10

\* Rows after rows.
LEMMA JoinFacts ==
    ASSUME NEW a \in Seq(Keys), NEW b \in Seq(Keys)
    PROVE  /\ a \o b \in Seq(Keys) /\ Len(a \o b) = Len(a) + Len(b)
           /\ Len(a) \in Nat /\ Len(b) \in Nat
           /\ \A i \in 1 .. Len(a) : (a \o b)[i] = a[i]
           /\ \A i \in 1 .. Len(b) : (a \o b)[Len(a) + i] = b[i]
           /\ \A k \in 1 .. Len(a \o b) :
                k \in 1 .. Len(a) \/ \E i \in 1 .. Len(b) : k = Len(a) + i
<1>1. /\ a \o b \in Seq(Keys) /\ Len(a \o b) = Len(a) + Len(b)
      /\ Len(a) \in Nat /\ Len(b) \in Nat
      /\ \A i \in 1 .. Len(a) : (a \o b)[i] = a[i]
      /\ \A i \in 1 .. Len(b) : (a \o b)[Len(a) + i] = b[i]
  OBVIOUS
<1>2. ASSUME NEW k \in 1 .. Len(a \o b), k \notin 1 .. Len(a)
      PROVE  k - Len(a) \in 1 .. Len(b) /\ k = Len(a) + (k - Len(a))
  BY <1>1, <1>2
<1> QED
  BY <1>1, <1>2

\* Rows none of which was seen before, after rows without a repeated one.
LEMMA JoinOnce ==
    ASSUME rows \in Seq(Keys), NEW got \in Seq(Keys), NoRepeat(rows), Len(got) <= Room,
           Room \in Int, ~Repeats(got), NEW all, all = rows \o got
    PROVE  NoRepeat(all)
<1>1. \A i \in 1 .. Len(got) : got[i] \notin Range(rows) \cup Range(SubSeq(got, 1, i - 1))
  <2>1. Len(got) <= Least(Len(got), Room + 1) /\ Least(Len(got), Room + 1) \in Int
    BY DEF Least
  <2> QED
    BY <2>1 DEF Repeats
<1>2. \A i \in 1 .. Len(got), j \in 1 .. Len(got) : j < i => got[i] # got[j]
  <2> SUFFICES ASSUME NEW i \in 1 .. Len(got), NEW j \in 1 .. Len(got), j < i PROVE got[i] # got[j]
    OBVIOUS
  <2>1. SubSeq(got, 1, i - 1)[j] = got[j] /\ Len(SubSeq(got, 1, i - 1)) = i - 1
    OBVIOUS
  <2>2. got[j] \in Range(SubSeq(got, 1, i - 1))
    BY <2>1 DEF Range
  <2> QED
    BY <1>1, <2>2
<1>3. \A i \in 1 .. Len(got), j \in 1 .. Len(rows) : got[i] # rows[j]
  BY <1>1 DEF Range
<1>4. /\ Len(all) \in Nat /\ Len(rows) \in Nat
      /\ \A i \in 1 .. Len(rows) : all[i] = rows[i]
      /\ \A i \in 1 .. Len(got) : all[Len(rows) + i] = got[i]
      /\ \A k \in 1 .. Len(all) :
            k \in 1 .. Len(rows) \/ \E i \in 1 .. Len(got) : k = Len(rows) + i
  BY JoinFacts
<1>5. ASSUME NEW i \in 1 .. Len(all), NEW j \in 1 .. Len(all), i < j, all[i] = all[j]
      PROVE  FALSE
  <2>1. CASE j \in 1 .. Len(rows)
    <3>1. i \in 1 .. Len(rows)
      BY <1>4, <1>5, <2>1
    <3> QED
      BY <1>4, <1>5, <2>1, <3>1 DEF NoRepeat
  <2>2. CASE j \notin 1 .. Len(rows)
    <3>1. PICK m \in 1 .. Len(got) : j = Len(rows) + m
      BY <1>4, <2>2
    <3>2. CASE i \in 1 .. Len(rows)
      BY <1>3, <1>4, <1>5, <3>1, <3>2
    <3>3. CASE i \notin 1 .. Len(rows)
      <4>1. PICK k \in 1 .. Len(got) : i = Len(rows) + k
        BY <1>4, <3>3
      <4>2. k < m
        BY <1>4, <1>5, <3>1, <4>1
      <4> QED
        BY <1>2, <1>4, <1>5, <3>1, <4>1, <4>2
    <3> QED
      BY <3>2, <3>3
  <2> QED
    BY <2>1, <2>2
<1>6. Len(all) \in Nat
  BY <1>4
<1> QED
  BY <1>5, <1>6 DEF NoRepeat

\* The rows of a page are added, as far as there is room.
LEMMA TakeFacts ==
    ASSUME TypeOK, NEW got \in Seq(Keys), NEW last \in BOOLEAN, Len(rows) < Cap, Take(got, last)
    PROVE  /\ rows' \in Seq(Keys) /\ end' \in {"pagination", "limit", "atMax", "done", "none"}
           /\ end' = "pagination" => rows' = rows /\ walk.keyed /\ Repeats(got)
           /\ end' # "pagination" => ~(walk.keyed /\ Repeats(got))
           /\ end' \in {"done", "none"} => rows' = rows \o got /\ Len(got) <= Room
           /\ end' = "done" => last
           /\ end' = "none" => ~last /\ Len(rows') < Cap
           /\ end' = "atMax" =>
                /\ UserCap /\ Room <= Len(got) /\ Len(rows') = Cap
                /\ rows' = rows \o SubSeq(got, 1, Room)
           /\ walk.keyed /\ NoRepeat(rows) => NoRepeat(rows')
<1>1. /\ rows \in Seq(Keys) /\ Room \in Nat \ {0} /\ Room = Cap - Len(rows) /\ Cap \in Nat
  BY Numbers
<1>2. CASE walk.keyed /\ Repeats(got)
  BY <1>1, <1>2 DEF Take, Stop
<1>3. CASE ~(walk.keyed /\ Repeats(got))
  <2> DEFINE n == Least(Len(got), Room)
             new == SubSeq(got, 1, n)
  <2>1. n \in Nat /\ n <= Len(got) /\ n <= Room /\ (n = Len(got) \/ n = Room)
    BY <1>1 DEF Least
  <2>2. /\ rows' = rows \o new
        /\ end' = IF Len(got) > Room THEN StopAtCap
                  ELSE IF last THEN "done"
                  ELSE IF Len(got) = Room THEN StopAtCap
                  ELSE "none"
    BY <1>3 DEF Take
  <2>3. new \in Seq(Keys) /\ Len(new) = n /\ \A i \in 1 .. n : new[i] = got[i]
    BY <2>1
  <2>4. Len(got) <= Room => new = got
    BY <1>1, <2>1, <2>3
  <2>5. /\ rows' \in Seq(Keys) /\ Len(rows') = Len(rows) + n
        /\ \A i \in 1 .. Len(rows) : rows'[i] = rows[i]
        /\ \A i \in 1 .. n : rows'[Len(rows) + i] = got[i]
    <3> HIDE DEF new, n
    <3> QED
      BY <1>1, <2>1, <2>2, <2>3, JoinFacts
  <2>6. ASSUME walk.keyed, NoRepeat(rows) PROVE NoRepeat(rows')
    <3>1. \A i \in 1 .. n : got[i] \notin Range(rows) \cup Range(SubSeq(got, 1, i - 1))
      <4>1. ~Repeats(got)
        BY <1>3, <2>6
      <4>2. n <= Least(Len(got), Room + 1)
        BY <1>1, <2>1 DEF Least
      <4>3. Least(Len(got), Room + 1) \in Nat
        BY <1>1 DEF Least
      <4> HIDE DEF n
      <4> QED
        BY <2>1, <4>1, <4>2, <4>3 DEF Repeats
    <3>2. \A i \in 1 .. n, j \in 1 .. n : j < i => got[i] # got[j]
      <4> SUFFICES ASSUME NEW i \in 1 .. n, NEW j \in 1 .. n, j < i PROVE got[i] # got[j]
        OBVIOUS
      <4>1. SubSeq(got, 1, i - 1)[j] = got[j] /\ Len(SubSeq(got, 1, i - 1)) = i - 1
        BY <2>1
      <4>2. got[j] \in Range(SubSeq(got, 1, i - 1))
        BY <2>1, <4>1 DEF Range
      <4> QED
        BY <3>1, <4>2
    <3>3. \A i \in 1 .. n, j \in 1 .. Len(rows) : got[i] # rows[j]
      BY <3>1 DEF Range
    <3>4. \A k \in 1 .. Len(rows') : k \in 1 .. Len(rows) \/ \E i \in 1 .. n : k = Len(rows) + i
      <4> HIDE DEF new, n
      <4> QED
        BY <1>1, <2>2, <2>3, JoinFacts
    <3> HIDE DEF n
    <3>5. ASSUME NEW i \in 1 .. Len(rows'), NEW j \in 1 .. Len(rows'), i < j, rows'[i] = rows'[j]
          PROVE  FALSE
      <4>1. CASE j \in 1 .. Len(rows)
        BY <1>1, <2>1, <2>5, <2>6, <3>5, <4>1 DEF NoRepeat
      <4>2. CASE j \notin 1 .. Len(rows)
        <5>1. PICK m \in 1 .. n : j = Len(rows) + m
          BY <3>4, <4>2
        <5>2. CASE i \in 1 .. Len(rows)
          BY <2>5, <3>3, <3>5, <5>1, <5>2
        <5>3. CASE i \notin 1 .. Len(rows)
          <6>1. PICK k \in 1 .. n : i = Len(rows) + k
            BY <3>4, <5>3
          <6>2. k < m
            BY <1>1, <3>5, <5>1, <6>1
          <6> QED
            BY <2>5, <3>2, <3>5, <5>1, <6>1, <6>2
        <5> QED
          BY <5>2, <5>3
      <4> QED
        BY <4>1, <4>2
    <3>6. Len(rows') \in Nat
      BY <2>5
    <3> QED
      BY <3>5, <3>6 DEF NoRepeat
  <2>7. /\ Len(got) > Room => end' = StopAtCap /\ n = Room
        /\ Len(got) <= Room => n = Len(got) /\ rows' = rows \o got
        /\ Len(got) <= Room /\ last => end' = "done"
        /\ Len(got) <= Room /\ ~last /\ Len(got) = Room => end' = StopAtCap
        /\ Len(got) <= Room /\ ~last /\ Len(got) # Room => end' = "none"
    <3>1. Len(got) \in Nat /\ (Len(got) > Room => n = Room) /\ (Len(got) <= Room => n = Len(got))
      BY <1>1 DEF Least
    <3> HIDE DEF n, new
    <3>2. Len(got) <= Room => rows' = rows \o got
      BY <2>2, <2>4
    <3>3. CASE Len(got) > Room
      BY <1>1, <2>2, <3>1, <3>3
    <3>4. CASE Len(got) <= Room /\ last
      BY <1>1, <2>2, <3>1, <3>2, <3>4
    <3>5. CASE Len(got) <= Room /\ ~last
      BY <1>1, <2>2, <3>1, <3>2, <3>5
    <3> QED
      BY <1>1, <3>1, <3>3, <3>4, <3>5
  <2>8. StopAtCap = IF UserCap THEN "atMax" ELSE "limit"
    BY DEF StopAtCap
  <2>9. n = Room => rows' = rows \o SubSeq(got, 1, Room)
    BY <2>2
  <2> HIDE DEF n, new
  <2>10. Len(got) \in Nat
    OBVIOUS
  <2>11. /\ end' \in {"limit", "atMax", "done", "none"}
         /\ end' \in {"done", "none"} => rows' = rows \o got /\ Len(got) <= Room
         /\ end' = "done" => last
         /\ end' = "none" => ~last /\ Len(rows') < Cap
    <3>1. CASE Len(got) > Room
      BY <1>1, <2>7, <2>8, <3>1
    <3>2. CASE Len(got) <= Room /\ last
      BY <1>1, <2>7, <3>2
    <3>3. CASE Len(got) = Room /\ ~last
      BY <1>1, <2>7, <2>8, <3>3
    <3>4. CASE Len(got) < Room /\ ~last
      BY <1>1, <2>5, <2>7, <2>10, <3>4
    <3> QED
      BY <1>1, <2>10, <3>1, <3>2, <3>3, <3>4
  <2>12. end' = "atMax" =>
           /\ UserCap /\ Room <= Len(got) /\ Len(rows') = Cap
           /\ rows' = rows \o SubSeq(got, 1, Room)
    BY <1>1, <2>5, <2>7, <2>8, <2>9, <2>10
  <2> QED
    BY <1>3, <2>5, <2>6, <2>11, <2>12
<1> QED
  BY <1>2, <1>3

-----------------------------------------------------------------------------
(* The beginning, the ends without a page, and other clients *)

\* The rows of a list from the start on.
LEMMA DueFacts ==
    ASSUME NEW l \in Seq(Keys), walk.start \in Nat
    PROVE  /\ Due(l) \in Seq(Keys)
           /\ Len(Due(l)) = IF Len(l) > walk.start THEN Len(l) - walk.start ELSE 0
           /\ \A i \in 1 .. Len(Due(l)) :
                Due(l)[i] = l[walk.start + i] /\ walk.start + i \in 1 .. Len(l)
           /\ walk.start = 0 => Due(l) = l
           /\ Range(Due(l)) \subseteq Range(l)
<1> DEFINE d == SubSeq(l, walk.start + 1, Len(l))
<1>1. /\ d \in Seq(Keys) /\ Len(l) \in Nat
      /\ Len(d) = IF Len(l) > walk.start THEN Len(l) - walk.start ELSE 0
  OBVIOUS
<1>2. ASSUME NEW i \in 1 .. Len(d) PROVE d[i] = l[walk.start + i] /\ walk.start + i \in 1 .. Len(l)
  BY <1>1, SMTT(60)
<1>3. walk.start = 0 => d = l
  BY <1>1
<1>4. Range(d) \subseteq Range(l)
  <2> HIDE DEF d
  <2> QED
    BY <1>2 DEF Range
<1> QED
  BY <1>1, <1>2, <1>3, <1>4 DEF Due

\* A walk begins with nothing read.
LEMMA InitIInv == Init => IInv
<1> SUFFICES ASSUME Init PROVE IInv
  OBVIOUS
<1>1. /\ list \in Lists /\ began = list /\ rows = <<>> /\ skip = walk.start /\ pages = 0
      /\ end = "none" /\ inserted = FALSE /\ deleted = FALSE /\ edits = 0
      /\ capped = FALSE /\ told = Untold
      /\ \/ walk \in PageWalks /\ service \in PageServices
         \/ walk \in NumberedWalks /\ service \in NumberedServices
         \/ walk \in OffsetWalks /\ service \in OffsetServices
  BY DEF Init, ListingInit, PageWalkInit, NumberedWalkInit, OffsetWalkInit
<1>2. TypeOK
  <2>1. walk \in WalkSpecs /\ (walk.kind = "skip" => walk \in PageWalks /\ service \in PageServices)
        /\ (walk.kind \in {"number", "sweep"} => walk \in NumberedWalks /\ service \in NumberedServices)
        /\ (walk.kind = "offset" => walk \in OffsetWalks /\ service \in OffsetServices)
    BY <1>1, PageWalkAssumption, NumberedWalkAssumption, OffsetWalkAssumption
  <2>2. walk.start \in Nat /\ walk.pages \in Nat \ {0}
    BY <2>1 DEF WalkSpecs
  <2>3. list \in Seq(Keys) /\ NoRepeat(list) /\ MaxEdits \in Nat
    BY <1>1, ListingAssumption
  <2>4. rows \in Seq(Keys) /\ pages \in 0 .. walk.pages /\ edits \in 0 .. MaxEdits /\ skip \in Nat
    BY <1>1, <2>2, <2>3
  <2>5. ListingTypeOK
    BY <1>1, <2>1, <2>3, <2>4 DEF ListingTypeOK, Ends
  <2>6. told \in [DOMAIN Untold -> Nat \cup {NoTotal}]
    BY <1>1 DEF Untold
  <2> QED
    BY <1>1, <2>1, <2>5, <2>6
       DEF TypeOK, PageWalkTypeOK, NumberedWalkTypeOK, OffsetWalkTypeOK
<1>3. /\ Cap \in Nat \ {0} /\ Size \in Nat \ {0} /\ walk.pages \in Nat \ {0} /\ walk.start \in Nat
      /\ list \in Seq(Keys) /\ Len(list) \in Nat /\ NoRepeat(list) /\ Len(rows) = 0
      /\ walk.kind # "skip" => walk.start = 0
  BY <1>1, <1>2, Numbers, Fields
<1>4. pages * Size = 0
  BY <1>1, <1>3
<1>5. GoingOn /\ CappedOK /\ ToldOK /\ OnceOK /\ Counted
  BY <1>1, <1>3 DEF GoingOn, CappedOK, ToldOK, OnceOK, Counted, NoRepeat, Untold
<1>6. InStep
  BY <1>1, <1>3, <1>4 DEF InStep, IsRead, Least, Place, Untold
<1>7. Behind
  <2> SUFFICES ASSUME NEW i \in 1 .. Len(list), i <= Place PROVE list[i] \notin Range(Due(began))
    BY <1>1, <1>3, <1>4 DEF Behind, Place
  <2>1. Place = walk.start
    BY <1>1, <1>3, <1>4 DEF Place
  <2>2. \A j \in 1 .. Len(Due(began)) :
          /\ Due(began)[j] = list[walk.start + j]
          /\ walk.start + j \in 1 .. Len(list) /\ walk.start + j # i
    BY <1>1, <1>3, <2>1, DueFacts
  <2>3. \A j \in 1 .. Len(Due(began)) : Due(began)[j] # list[i]
    BY <1>3, <2>2, SMTT(60) DEF NoRepeat
  <2> QED
    BY <2>3 DEF Range
<1>8. CompleteWhenStable /\ EditsHideNothing
  BY <1>1 DEF CompleteWhenStable, EditsHideNothing
<1> QED
  BY <1>2, <1>5, <1>6, <1>7, <1>8 DEF IInv

\* A step that ends the walk.
LEMMA Over ==
    ASSUME IInv, TypeOK', UNCHANGED <<given, world>>, end' # "none",
           CappedOK', ToldOK', OnceOK', CompleteWhenStable', EditsHideNothing'
    PROVE  IInv'
<1>1. InStep' /\ Behind' /\ Counted' /\ GoingOn'
  BY DEF IInv, InStep, Behind, Counted, GoingOn, given, world, Stable, Range
<1> QED
  BY <1>1 DEF IInv

\* The page bound is reached, or a request fails.
LEMMA NoPage ==
    ASSUME IInv, OutOfPages \/ Fails, UNCHANGED <<capped, told>> PROVE IInv'
<1>1. /\ UNCHANGED <<given, world, rows, skip, pages>> /\ end' \in {"atPages", "limit", "failed"}
  BY DEF OutOfPages, Fails
<1>2. TypeOK'
  BY <1>1 DEF IInv, TypeOK, ListingTypeOK, PageWalkTypeOK, NumberedWalkTypeOK, OffsetWalkTypeOK, Ends,
              given, world
<1>3. CappedOK' /\ ToldOK' /\ OnceOK'
  BY <1>1 DEF IInv, CappedOK, ToldOK, OnceOK, given, world, Size, Least
<1>4. CompleteWhenStable' /\ EditsHideNothing'
  BY <1>1 DEF CompleteWhenStable, EditsHideNothing
<1> QED
  BY <1>1, <1>2, <1>3, <1>4, Over

\* A row comes in.
LEMMA InsertStep ==
    ASSUME IInv, NEW key \in Keys, NEW at \in 0 .. Len(list), Insert(key, at),
           UNCHANGED <<capped, told>>
    PROVE  IInv'
<1>1. /\ end = "none" /\ edits < MaxEdits /\ UNCHANGED <<given, progress, deleted>>
      /\ key \notin Range(list) \cup Range(began) \cup Range(rows)
      /\ list' = SubSeq(list, 1, at) \o <<key>> \o SubSeq(list, at + 1, Len(list))
      /\ inserted' = TRUE /\ edits' = edits + 1
  BY DEF Insert
<1>2. list \in Seq(Keys) /\ Len(list) \in Nat /\ NoRepeat(list) /\ at \in Nat /\ at <= Len(list)
  BY Numbers DEF IInv
<1>3. /\ list' \in Seq(Keys) /\ Len(list') = Len(list) + 1
      /\ \A j \in 1 .. Len(list') :
            /\ j <= at => list'[j] = list[j]
            /\ j = at + 1 => list'[j] = key
            /\ j > at + 1 => list'[j] = list[j - 1] /\ j - 1 \in 1 .. Len(list)
  <2> DEFINE a == SubSeq(list, 1, at)
             b == <<key>>
             c == SubSeq(list, at + 1, Len(list))
  <2>1. /\ a \in Seq(Keys) /\ Len(a) = at /\ \A i \in 1 .. at : a[i] = list[i]
        /\ b \in Seq(Keys) /\ Len(b) = 1 /\ b[1] = key
        /\ c \in Seq(Keys) /\ Len(c) = Len(list) - at
        /\ \A i \in 1 .. Len(list) - at : c[i] = list[at + i]
    BY <1>2
  <2>2. list' = (a \o b) \o c
    BY <1>1
  <2> HIDE DEF a, b, c
  <2>3. PICK d \in Seq(Keys) : d = a \o b
    BY <2>1, JoinFacts
  <2>4. /\ Len(d) = at + 1 /\ \A i \in 1 .. at : d[i] = list[i]
        /\ d[at + 1] = key
    <3>1. Len(a \o b) = Len(a) + Len(b) /\ (\A i \in 1 .. Len(a) : (a \o b)[i] = a[i])
          /\ \A i \in 1 .. Len(b) : (a \o b)[Len(a) + i] = b[i]
      BY <2>1, JoinFacts
    <3>2. 1 \in 1 .. Len(b)
      BY <2>1
    <3> QED
      BY <1>2, <2>1, <2>3, <3>1, <3>2
  <2>5. /\ d \o c \in Seq(Keys) /\ Len(d \o c) = Len(d) + Len(c)
        /\ \A i \in 1 .. Len(d) : (d \o c)[i] = d[i]
        /\ \A i \in 1 .. Len(c) : (d \o c)[Len(d) + i] = c[i]
    BY <2>1, <2>3, JoinFacts
  <2>6. list' = d \o c
    BY <2>2, <2>3
  <2>7. list' \in Seq(Keys) /\ Len(list') = Len(list) + 1
    <3>1. Len(d) + Len(c) = Len(list) + 1
      BY <1>2, <2>1, <2>4
    <3> QED
      BY <2>5, <2>6, <3>1
  <2>8. ASSUME NEW j \in 1 .. Len(list'), j <= at PROVE list'[j] = list[j]
    BY <1>2, <2>4, <2>5, <2>6, <2>7, <2>8
  <2>9. list'[at + 1] = key
    <3>1. at + 1 \in 1 .. Len(d)
      BY <1>2, <2>4
    <3> QED
      BY <2>4, <2>5, <2>6, <3>1
  <2>10. ASSUME NEW j \in 1 .. Len(list'), j > at + 1
         PROVE  list'[j] = list[j - 1] /\ j - 1 \in 1 .. Len(list)
    <3>1. PICK i \in 1 .. Len(c) : i = j - (at + 1)
      BY <1>2, <2>1, <2>4, <2>7, <2>10
    <3>2. list'[Len(d) + i] = c[i] /\ c[i] = list[at + i]
      BY <1>2, <2>1, <2>5, <2>6, <3>1
    <3>3. Len(d) + i = j /\ at + i = j - 1 /\ j - 1 \in 1 .. Len(list)
      BY <1>2, <2>4, <2>7, <2>10, <3>1
    <3> QED
      BY <3>2, <3>3
  <2> QED
    BY <1>2, <2>7, <2>8, <2>9, <2>10
<1>4. ASSUME NEW j \in 1 .. Len(list')
      PROVE  \/ j \in 1 .. at /\ j \in 1 .. Len(list) /\ list'[j] = list[j]
             \/ j = at + 1 /\ list'[j] = key
             \/ j > at + 1 /\ j - 1 \in 1 .. Len(list) /\ list'[j] = list[j - 1]
  BY <1>2, <1>3
<1>5. \A i \in 1 .. Len(list) : list[i] # key
  BY <1>1 DEF Range
<1>6. NoRepeat(list')
  <2> SUFFICES ASSUME NEW i \in 1 .. Len(list'), NEW j \in 1 .. Len(list'), list'[i] = list'[j]
               PROVE  i = j
    BY DEF NoRepeat
  <2>1. \A x, y \in 1 .. Len(list) : list[x] = list[y] => x = y
    BY <1>2 DEF NoRepeat
  <2>2. CASE i = at + 1
    BY <1>2, <1>4, <1>5, <2>2
  <2>3. CASE j = at + 1
    BY <1>2, <1>4, <1>5, <2>3
  <2>4. CASE i # at + 1 /\ j # at + 1
    <3>1. PICK x \in 1 .. Len(list) : list'[i] = list[x] /\ x = IF i <= at THEN i ELSE i - 1
      BY <1>2, <1>4, <2>4
    <3>2. PICK y \in 1 .. Len(list) : list'[j] = list[y] /\ y = IF j <= at THEN j ELSE j - 1
      BY <1>2, <1>4, <2>4
    <3>3. x = y
      BY <2>1, <3>1, <3>2
    <3> QED
      BY <1>2, <2>4, <3>1, <3>2, <3>3
  <2> QED
    BY <2>2, <2>3, <2>4
<1>7. TypeOK'
  <2>1. edits' \in 0 .. MaxEdits
    BY <1>1, ListingAssumption DEF IInv, TypeOK, ListingTypeOK
  <2> QED
    BY <1>1, <1>3, <1>6, <2>1
       DEF IInv, TypeOK, ListingTypeOK, PageWalkTypeOK, NumberedWalkTypeOK, OffsetWalkTypeOK,
           given, progress
<1>8. GoingOn' /\ ToldOK' /\ OnceOK'
  BY <1>1 DEF IInv, GoingOn, ToldOK, OnceOK, given, progress, Size, Least, Cap, UserCap
<1>9. CappedOK'
  BY <1>1, <1>2, <1>3, PageWalkAssumption DEF IInv, CappedOK, given
<1>10. InStep' /\ CompleteWhenStable' /\ EditsHideNothing'
  BY <1>1 DEF InStep, CompleteWhenStable, EditsHideNothing, Stable, progress
<1>11. Counted'
  <2>1. UNCHANGED <<walk, service, end, pages, rows, told, deleted, Size>>
    BY <1>1 DEF given, progress, Size, Least
  <2>2. told.elements # NoTotal => told.elements \in Nat
    BY DEF IInv, TypeOK, NumberedWalkTypeOK, Untold
  <2> QED
    BY <1>1, <1>2, <1>3, <2>1, <2>2 DEF IInv, Counted
<1>12. Behind'
  <2>1. UNCHANGED <<walk, service, end, pages, rows, skip, began, deleted, Size, Place>>
    BY <1>1 DEF given, progress, Size, Least, Place
  <2>2. Place \in Nat
    BY Numbers DEF IInv
  <2>3. Range(list) \subseteq Range(list')
    <3> SUFFICES ASSUME NEW i \in 1 .. Len(list) PROVE \E j \in 1 .. Len(list') : list'[j] = list[i]
      BY DEF Range
    <3>1. CASE i <= at
      BY <1>2, <1>3, <3>1
    <3>2. CASE i > at
      <4>1. PICK j \in 1 .. Len(list') : j = i + 1
        BY <1>2, <1>3
      <4>2. j > at + 1 /\ j - 1 = i
        BY <1>2, <3>2, <4>1
      <4> QED
        BY <1>3, <4>2
    <3> QED
      BY <1>2, <3>1, <3>2
  <2>4. UNCHANGED <<Range(began), Range(rows), Range(Due(began))>>
    BY <2>1 DEF Range, Due
  <2>5. ASSUME ~deleted, service.heeds, NEW j \in 1 .. Len(list')
        PROVE  j > Place \/ list'[j] \in Range(rows) \/ list'[j] \notin Range(Due(began))
    <3>1. \A i \in 1 .. Len(list) :
            i > Place \/ list[i] \in Range(rows) \/ list[i] \notin Range(Due(began))
      BY <1>1, <2>5 DEF IInv, Behind
    <3>2. CASE j \in 1 .. at /\ j \in 1 .. Len(list) /\ list'[j] = list[j]
      BY <1>2, <3>1, <3>2
    <3>3. CASE j = at + 1 /\ list'[j] = key
      <4>1. Range(Due(began)) \subseteq Range(began)
        <5>1. began \in Seq(Keys) /\ walk.start \in Nat
          BY Fields, ListingAssumption DEF IInv, TypeOK, ListingTypeOK
        <5> QED
          BY <5>1, DueFacts
      <4> QED
        BY <1>1, <3>3, <4>1
    <3>4. CASE j > at + 1 /\ j - 1 \in 1 .. Len(list) /\ list'[j] = list[j - 1]
      <4>1. j - 1 \in 1 .. Len(list) /\ (j - 1 > Place => j > Place)
        BY <1>2, <2>2, <3>4
      <4> QED
        BY <3>1, <3>4, <4>1
    <3> QED
      BY <1>4, <3>2, <3>3, <3>4
  <2> QED
    BY <2>1, <2>3, <2>4, <2>5 DEF IInv, Behind
<1> QED
  BY <1>7, <1>8, <1>9, <1>10, <1>11, <1>12 DEF IInv

\* A row goes.
LEMMA DeleteStep ==
    ASSUME IInv, NEW at \in 1 .. Len(list), Delete(at), UNCHANGED <<capped, told>>
    PROVE  IInv'
<1>1. /\ end = "none" /\ edits < MaxEdits /\ UNCHANGED <<given, progress, inserted>>
      /\ list' = SubSeq(list, 1, at - 1) \o SubSeq(list, at + 1, Len(list))
      /\ deleted' = TRUE /\ edits' = edits + 1
  BY DEF Delete
<1>2. list \in Seq(Keys) /\ Len(list) \in Nat /\ NoRepeat(list) /\ at \in Nat /\ at <= Len(list) /\ at > 0
  BY Numbers DEF IInv
<1>3. /\ list' \in Seq(Keys) /\ Len(list') = Len(list) - 1
      /\ \A j \in 1 .. Len(list') :
            /\ j < at => list'[j] = list[j]
            /\ j >= at => list'[j] = list[j + 1] /\ j + 1 \in 1 .. Len(list)
  <2> DEFINE a == SubSeq(list, 1, at - 1)
             c == SubSeq(list, at + 1, Len(list))
  <2>1. /\ a \in Seq(Keys) /\ Len(a) = at - 1 /\ \A i \in 1 .. at - 1 : a[i] = list[i]
        /\ c \in Seq(Keys) /\ Len(c) = Len(list) - at
        /\ \A i \in 1 .. Len(list) - at : c[i] = list[at + i]
    BY <1>2
  <2>2. list' = a \o c
    BY <1>1
  <2> HIDE DEF a, c
  <2>3. /\ a \o c \in Seq(Keys) /\ Len(a \o c) = Len(a) + Len(c)
        /\ \A i \in 1 .. Len(a) : (a \o c)[i] = a[i]
        /\ \A i \in 1 .. Len(c) : (a \o c)[Len(a) + i] = c[i]
    BY <2>1, JoinFacts
  <2>4. list' \in Seq(Keys) /\ Len(list') = Len(list) - 1
    BY <1>2, <2>1, <2>2, <2>3
  <2>5. ASSUME NEW j \in 1 .. Len(list'), j < at PROVE list'[j] = list[j]
    BY <1>2, <2>1, <2>2, <2>3, <2>5
  <2>6. ASSUME NEW j \in 1 .. Len(list'), j >= at
        PROVE  list'[j] = list[j + 1] /\ j + 1 \in 1 .. Len(list)
    <3>1. PICK i \in 1 .. Len(c) : i = j - (at - 1)
      BY <1>2, <2>1, <2>4, <2>6
    <3>2. list'[Len(a) + i] = c[i] /\ c[i] = list[at + i]
      BY <1>2, <2>1, <2>2, <2>3, <3>1
    <3>3. Len(a) + i = j /\ at + i = j + 1 /\ j + 1 \in 1 .. Len(list)
      BY <1>2, <2>1, <2>4, <2>6, <3>1
    <3> QED
      BY <3>2, <3>3
  <2> QED
    BY <1>2, <2>4, <2>5, <2>6
<1>4. ASSUME NEW j \in 1 .. Len(list')
      PROVE  \E x \in 1 .. Len(list) : list'[j] = list[x] /\ x = IF j < at THEN j ELSE j + 1
  BY <1>2, <1>3
<1>5. NoRepeat(list')
  <2> SUFFICES ASSUME NEW i \in 1 .. Len(list'), NEW j \in 1 .. Len(list'), list'[i] = list'[j]
               PROVE  i = j
    BY DEF NoRepeat
  <2>1. \A x, y \in 1 .. Len(list) : list[x] = list[y] => x = y
    BY <1>2 DEF NoRepeat
  <2>2. PICK x \in 1 .. Len(list) : list'[i] = list[x] /\ x = IF i < at THEN i ELSE i + 1
    BY <1>4
  <2>3. PICK y \in 1 .. Len(list) : list'[j] = list[y] /\ y = IF j < at THEN j ELSE j + 1
    BY <1>4
  <2>4. x = y
    BY <2>1, <2>2, <2>3
  <2> QED
    BY <1>2, <2>2, <2>3, <2>4
<1>6. TypeOK'
  <2>1. edits' \in 0 .. MaxEdits
    BY <1>1, ListingAssumption DEF IInv, TypeOK, ListingTypeOK
  <2> QED
    BY <1>1, <1>3, <1>5, <2>1
       DEF IInv, TypeOK, ListingTypeOK, PageWalkTypeOK, NumberedWalkTypeOK, OffsetWalkTypeOK,
           given, progress
<1>7. GoingOn' /\ ToldOK' /\ OnceOK' /\ CappedOK' /\ Behind'
  BY <1>1 DEF IInv, GoingOn, ToldOK, OnceOK, CappedOK, Behind, given, progress, Size, Least, Cap, UserCap
<1>8. InStep' /\ CompleteWhenStable' /\ EditsHideNothing'
  BY <1>1 DEF InStep, CompleteWhenStable, EditsHideNothing, Stable, progress
<1>9. Counted'
  <2>1. UNCHANGED <<walk, service, end, pages, rows, told, inserted, Size>>
    BY <1>1 DEF given, progress, Size, Least
  <2>2. told.elements # NoTotal => told.elements \in Nat
    BY DEF IInv, TypeOK, NumberedWalkTypeOK, Untold
  <2>3. ASSUME walk.kind = "sweep", "elements" \in service.tells, end = "none", pages > 0
        PROVE  /\ told.elements # NoTotal /\ told.size = Size
               /\ Len(rows) = pages * Size
               /\ ~inserted => Len(list) <= told.elements
    BY <2>3 DEF IInv, Counted
  <2>4. Len(list') < Len(list)
    BY <1>2, <1>3
  <2>5. ASSUME walk.kind = "sweep", "elements" \in service.tells, end = "none", pages > 0,
               ~inserted
        PROVE  Len(list') # told.elements /\ Len(list') <= told.elements
    BY <1>2, <1>3, <2>2, <2>3, <2>4, <2>5
  <2>6. deleted' /\ UNCHANGED <<inserted, walk, service, end, pages, rows, told>> /\ Size' = Size
    BY <1>1, <2>1
  <2>7. ASSUME (walk.kind = "sweep" /\ "elements" \in service.tells /\ end = "none" /\ pages > 0)'
        PROVE  (/\ told.elements # NoTotal /\ told.size = Size
                /\ Len(rows) = pages * Size
                /\ ~deleted => told.elements <= Len(list)
                /\ ~inserted => Len(list) <= told.elements
                /\ ~(inserted /\ deleted) /\ Len(list) = told.elements => IsRead(rows, list))'
    <3>1. walk.kind = "sweep" /\ "elements" \in service.tells /\ end = "none" /\ pages > 0
      BY <2>6, <2>7
    <3>2. told.elements # NoTotal /\ told.size = Size /\ Len(rows) = pages * Size
      BY <2>3, <3>1
    <3>3. ~inserted => Len(list') # told.elements /\ Len(list') <= told.elements
      BY <2>5, <3>1
    <3> QED
      BY <2>6, <3>2, <3>3
  <2> QED
    BY <2>7 DEF Counted
<1> QED
  BY <1>6, <1>7, <1>8, <1>9 DEF IInv

\* Nothing happens.
LEMMA StutterStep == ASSUME IInv, UNCHANGED vars PROVE IInv'
<1>1. UNCHANGED <<walk, service, began, rows, skip, pages, end, list, inserted, deleted, edits,
                  capped, told>>
  BY DEF vars, given, progress, world
<1>2. TypeOK'
  BY <1>1 DEF IInv, TypeOK, ListingTypeOK, PageWalkTypeOK, NumberedWalkTypeOK, OffsetWalkTypeOK,
              NoRepeat
<1>3. UNCHANGED <<Size, Place, Cap, UserCap>>
  BY <1>1 DEF Size, Least, Place, Cap, UserCap
<1>4. GoingOn' /\ CappedOK' /\ ToldOK' /\ OnceOK'
  BY <1>1, <1>3 DEF IInv, GoingOn, CappedOK, ToldOK, OnceOK, NoRepeat
<1>5. (Stable' <=> Stable) /\ (IsRead(rows, list)' <=> IsRead(rows, list))
      /\ (Sound' <=> Sound) /\ (TellsEnd' <=> TellsEnd)
  BY <1>1 DEF Stable, IsRead, Sound, NumberedSound, OffsetSound, TellsEnd, PageTellsEnd,
              NumberedTellsEnd, OffsetTellsEnd
<1>6. InStep' /\ Counted'
  BY <1>1, <1>3, <1>5 DEF IInv, InStep, Counted, PagesOf, Least
<1>7. /\ UNCHANGED <<Range(began), Range(list), Range(rows), Due(list), Due(began), Range(Due(began))>>
      /\ (NoRepeat(rows)' <=> NoRepeat(rows))
  BY <1>1 DEF Range, Due, NoRepeat
<1>8. Behind'
  BY <1>1, <1>3, <1>7 DEF IInv, Behind
<1>9. CompleteWhenStable'
  BY <1>1, <1>5, <1>7 DEF IInv, CompleteWhenStable
<1>10. EditsHideNothing'
  BY <1>1, <1>5, <1>7 DEF IInv, EditsHideNothing
<1> QED
  BY <1>2, <1>4, <1>6, <1>8, <1>9, <1>10 DEF IInv

-----------------------------------------------------------------------------
(* A page of a service that heeds the place it is asked for *)

\* Rows read from a list without gaps are distinct, and nothing else than its
\* first rows.
LEMMA ReadFacts ==
    ASSUME TypeOK, NEW r \in Seq(Keys), IsRead(r, list)
    PROVE  /\ NoRepeat(r)
           /\ Len(list) <= walk.start + Len(r) => r = Due(list)
           /\ \A m \in Nat : Len(r) = m => r = SubSeq(Due(list), 1, m)
<1>1. /\ walk.start \in Nat /\ list \in Seq(Keys) /\ Len(list) \in Nat /\ NoRepeat(list)
      /\ Len(r) \in Nat
  BY Fields, Numbers
<1>2. \A i \in 1 .. Len(r) : walk.start + i \in 1 .. Len(list) /\ r[i] = list[walk.start + i]
  BY <1>1 DEF IsRead
<1>3. NoRepeat(r)
  <2> SUFFICES ASSUME NEW i \in 1 .. Len(r), NEW j \in 1 .. Len(r), r[i] = r[j] PROVE i = j
    BY DEF NoRepeat
  <2>1. walk.start + i = walk.start + j
    BY <1>1, <1>2 DEF NoRepeat
  <2> QED
    BY <1>1, <2>1
<1>4. PICK d \in Seq(Keys) : d = Due(list)
  BY <1>1, DueFacts
<1>5. /\ Len(d) = IF Len(list) > walk.start THEN Len(list) - walk.start ELSE 0
      /\ \A i \in 1 .. Len(d) : d[i] = list[walk.start + i]
  BY <1>1, <1>4, DueFacts
<1>6. Len(r) <= Len(d)
  <2>1. CASE r = <<>>
    BY <1>4, <2>1
  <2>2. CASE r # <<>>
    BY <1>1, <1>5, <2>2 DEF IsRead
  <2> QED
    BY <2>1, <2>2
<1>7. ASSUME Len(list) <= walk.start + Len(r) PROVE r = d
  <2>1. Len(d) = Len(r)
    BY <1>1, <1>5, <1>6, <1>7
  <2>2. \A i \in 1 .. Len(r) : r[i] = d[i]
    BY <1>2, <1>5, <2>1
  <2> QED
    BY <1>4, <2>1, <2>2
<1>8. ASSUME NEW m \in Nat, Len(r) = m PROVE r = SubSeq(d, 1, m)
  <2>1. Len(SubSeq(d, 1, m)) = m /\ (\A i \in 1 .. m : SubSeq(d, 1, m)[i] = d[i])
        /\ SubSeq(d, 1, m) \in Seq(Keys)
    BY <1>4, <1>6, <1>8
  <2>2. \A i \in 1 .. m : r[i] = d[i]
    BY <1>2, <1>5, <1>6, <1>8
  <2> QED
    BY <1>8, <2>1, <2>2
<1> QED
  BY <1>3, <1>4, <1>7, <1>8

\* Rows read from a list without gaps, and those that follow them there.
LEMMA ReadJoin ==
    ASSUME TypeOK, IsRead(rows, list), NEW got \in Seq(Keys),
           \A i \in 1 .. Len(got) :
                /\ got[i] = list[walk.start + Len(rows) + i]
                /\ walk.start + Len(rows) + Len(got) <= Len(list),
           NEW all, all = rows \o got
    PROVE  IsRead(all, list)
<1>1. rows \in Seq(Keys) /\ Len(rows) \in Nat /\ walk.start \in Nat /\ Len(got) \in Nat
  BY Numbers, Fields
<1>2. /\ all \in Seq(Keys) /\ Len(all) = Len(rows) + Len(got)
      /\ \A i \in 1 .. Len(rows) : all[i] = rows[i]
      /\ \A i \in 1 .. Len(got) : all[Len(rows) + i] = got[i]
      /\ \A k \in 1 .. Len(all) :
            k \in 1 .. Len(rows) \/ \E i \in 1 .. Len(got) : k = Len(rows) + i
  BY <1>1, JoinFacts
<1>3. /\ rows # <<>> => walk.start + Len(rows) <= Len(list)
      /\ \A i \in 1 .. Len(rows) : rows[i] = list[walk.start + i]
  BY DEF IsRead
<1>4. ASSUME all # <<>> PROVE walk.start + Len(all) <= Len(list)
  <2>1. CASE Len(got) > 0
    <3>1. 1 \in 1 .. Len(got)
      BY <1>1, <2>1
    <3>2. walk.start + Len(rows) + Len(got) <= Len(list)
      BY <3>1
    <3> QED
      BY <1>1, <1>2, <3>2
  <2>2. CASE Len(got) = 0
    <3>1. all = rows
      BY <1>1, <1>2, <2>2
    <3> QED
      BY <1>3, <1>4, <3>1
  <2> QED
    BY <1>1, <2>1, <2>2
<1>5. ASSUME NEW k \in 1 .. Len(all) PROVE all[k] = list[walk.start + k]
  <2>1. CASE k \in 1 .. Len(rows)
    BY <1>2, <1>3, <2>1
  <2>2. CASE \E i \in 1 .. Len(got) : k = Len(rows) + i
    <3>1. PICK i \in 1 .. Len(got) : k = Len(rows) + i
      BY <2>2
    <3>2. walk.start + Len(rows) + i = walk.start + k
      BY <1>1, <3>1
    <3>3. all[k] = got[i] /\ got[i] = list[walk.start + Len(rows) + i]
      BY <1>2, <3>1
    <3> QED
      BY <3>2, <3>3
  <2> QED
    BY <1>2, <2>1, <2>2
<1> QED
  BY <1>4, <1>5 DEF IsRead

\* What the rows of a page add to those already read.
LEMMA Reading ==
    ASSUME IInv, end = "none", service.heeds,
           NEW n \in Nat \ {0}, NEW got, got = Slice(Place, n), NEW all, all = rows \o got
    PROVE  /\ ~deleted =>
                \A i \in 1 .. Len(list) :
                    \/ i > Place + Len(got) \/ list[i] \in Range(all)
                    \/ list[i] \notin Range(Due(began))
           /\ ~deleted /\ Len(list) <= Place + Len(got) => Range(Due(began)) \subseteq Range(all)
           /\ Stable => IsRead(all, list) /\ ~Repeats(got)
           /\ Stable /\ Len(list) <= Place + Len(got) => all = Due(list)
<1>1. /\ TypeOK /\ rows \in Seq(Keys) /\ Len(rows) \in Nat /\ list \in Seq(Keys) /\ Len(list) \in Nat
      /\ NoRepeat(list) /\ Place \in Nat /\ walk.start \in Nat
  BY Numbers, Fields DEF IInv
<1>2. /\ got \in Seq(Keys) /\ Len(got) \in Nat
      /\ Len(got) > 0 => Place + Len(got) <= Len(list)
      /\ \A i \in 1 .. Len(got) : got[i] = list[Place + i]
  <2>1. got \in Seq(Keys) /\ \A i \in 1 .. Len(got) : got[i] = list[Place + i]
    BY <1>1, SliceFacts
  <2>2. Len(got) = IF Len(list) >= Place + n THEN n
                   ELSE IF Len(list) >= Place THEN Len(list) - Place ELSE 0
    BY <1>1, SliceFacts
  <2> QED
    BY <1>1, <2>1, <2>2
<1>3. /\ all \in Seq(Keys) /\ Len(all) = Len(rows) + Len(got)
      /\ \A i \in 1 .. Len(rows) : all[i] = rows[i]
      /\ \A i \in 1 .. Len(got) : all[Len(rows) + i] = got[i]
      /\ \A k \in 1 .. Len(all) :
            k \in 1 .. Len(rows) \/ \E i \in 1 .. Len(got) : k = Len(rows) + i
  <2> HIDE DEF Place
  <2>1. PICK g \in Seq(Keys) : g = got
    BY <1>2
  <2>2. rows \in Seq(Keys)
    BY <1>1
  <2>3. /\ rows \o g \in Seq(Keys) /\ Len(rows \o g) = Len(rows) + Len(g)
        /\ \A i \in 1 .. Len(rows) : (rows \o g)[i] = rows[i]
        /\ \A i \in 1 .. Len(g) : (rows \o g)[Len(rows) + i] = g[i]
        /\ \A k \in 1 .. Len(rows \o g) :
              k \in 1 .. Len(rows) \/ \E i \in 1 .. Len(g) : k = Len(rows) + i
    BY <2>2, JoinFacts
  <2>4. all = rows \o g
    BY <2>1
  <2> QED
    BY <2>1, <2>3, <2>4
<1>4. Range(rows) \subseteq Range(all)
  <2> SUFFICES ASSUME NEW i \in 1 .. Len(rows) PROVE rows[i] \in Range(all)
    BY DEF Range
  <2>1. i \in 1 .. Len(all) /\ all[i] = rows[i]
    BY <1>1, <1>2, <1>3
  <2> QED
    BY <2>1 DEF Range
<1>5. ASSUME NEW i \in 1 .. Len(list), i > Place, i <= Place + Len(got) PROVE list[i] \in Range(all)
  <2>1. PICK j \in 1 .. Len(got) : j = i - Place
    BY <1>1, <1>2, <1>5
  <2>2. Place + j = i /\ Len(rows) + j \in 1 .. Len(all)
    BY <1>1, <1>2, <1>3, <2>1
  <2>3. all[Len(rows) + j] = list[i]
    BY <1>2, <1>3, <2>2
  <2> QED
    BY <2>2, <2>3 DEF Range
<1>6. ASSUME ~deleted, NEW i \in 1 .. Len(list), i <= Place + Len(got),
             list[i] \in Range(Due(began))
      PROVE  list[i] \in Range(all)
  <2>1. CASE i > Place
    BY <1>5, <1>6, <2>1
  <2>2. CASE ~(i > Place)
    BY <1>4, <1>6, <2>2 DEF IInv, Behind
  <2> QED
    BY <2>1, <2>2
<1>7. ASSUME ~deleted, Len(list) <= Place + Len(got) PROVE Range(Due(began)) \subseteq Range(all)
  <2> SUFFICES ASSUME NEW x \in Range(Due(began)) PROVE x \in Range(all)
    OBVIOUS
  <2>1. began \in Seq(Keys)
    BY <1>1, ListingAssumption DEF TypeOK, ListingTypeOK
  <2>2. x \in Range(began)
    BY <1>1, <2>1, DueFacts
  <2>3. x \in Range(list)
    BY <1>7, <2>2 DEF IInv, Behind
  <2>4. PICK i \in 1 .. Len(list) : x = list[i]
    BY <2>3 DEF Range
  <2>5. i <= Place + Len(got)
    BY <1>1, <1>2, <1>7
  <2> QED
    BY <1>6, <1>7, <2>4, <2>5
<1>8. ASSUME Stable
      PROVE  /\ IsRead(rows, list)
             /\ Len(got) > 0 => Place = walk.start + Len(rows)
             /\ Len(list) <= Place + Len(got) => Len(list) <= walk.start + Len(all)
             /\ walk.start + Len(rows) <= Place
  <2>1. IsRead(rows, list)
    BY <1>8 DEF IInv, InStep
  <2>2. CASE walk.kind \in {"skip", "offset"}
    <3>1. Place = skip
      BY <2>2 DEF Place
    <3>2. skip = walk.start + Len(rows)
      <4>1. CASE walk.kind = "skip"
        BY <4>1 DEF IInv, GoingOn
      <4>2. CASE walk.kind = "offset"
        <5>1. skip = Len(rows) /\ walk.start = 0
          BY <1>1, <4>2, Fields DEF IInv, GoingOn
        <5> QED
          BY <1>1, <5>1
      <4> QED
        BY <2>2, <4>1, <4>2
    <3> QED
      BY <1>1, <1>2, <1>3, <2>1, <3>1, <3>2
  <2>3. CASE walk.kind \in {"number", "sweep"}
    <3>1. Len(rows) = Least(Len(list), Place) /\ walk.start = 0
      BY <1>1, <1>8, <2>3, Fields DEF IInv, InStep
    <3>2. (Len(rows) = Len(list) /\ Len(list) <= Place) \/ (Len(rows) = Place /\ Place <= Len(list))
      BY <1>1, <3>1 DEF Least
    <3> QED
      BY <1>1, <1>2, <1>3, <2>1, <3>1, <3>2
  <2> QED
    BY <1>1, <2>2, <2>3, Fields
<1>9. ASSUME Stable PROVE IsRead(all, list)
  <2>1. IsRead(rows, list)
    BY <1>8, <1>9
  <2>2. ASSUME NEW i \in 1 .. Len(got)
        PROVE  /\ got[i] = list[walk.start + Len(rows) + i]
               /\ walk.start + Len(rows) + Len(got) <= Len(list)
    <3>1. Place = walk.start + Len(rows)
      BY <1>2, <1>8, <1>9
    <3> QED
      BY <1>2, <3>1
  <2> QED
    BY <1>1, <1>2, <2>1, <2>2, ReadJoin
<1>10. ASSUME Stable PROVE ~Repeats(got)
  <2> SUFFICES ASSUME NEW i \in 1 .. Least(Len(got), Room + 1),
                      got[i] \in Range(rows) \cup Range(SubSeq(got, 1, i - 1))
               PROVE  FALSE
    BY DEF Repeats
  <2>1. i \in 1 .. Len(got)
    <3>1. Room + 1 \in Int
      BY <1>1, Numbers, SMTT(60)
    <3> QED
      BY <1>2, <3>1 DEF Least
  <2>2. NoRepeat(all)
    BY <1>1, <1>3, <1>9, <1>10, ReadFacts
  <2>3. all[Len(rows) + i] = got[i] /\ Len(rows) + i \in 1 .. Len(all)
    BY <1>1, <1>2, <1>3, <2>1
  <2>4. CASE got[i] \in Range(rows)
    <3>1. PICK j \in 1 .. Len(rows) : got[i] = rows[j]
      BY <2>4 DEF Range
    <3>2. all[j] = rows[j] /\ j \in 1 .. Len(all) /\ j # Len(rows) + i
      BY <1>1, <1>2, <1>3, <2>1, <3>1
    <3> QED
      BY <2>2, <2>3, <3>1, <3>2 DEF NoRepeat
  <2>5. CASE got[i] \in Range(SubSeq(got, 1, i - 1))
    <3>1. PICK j \in 1 .. i - 1 : got[i] = got[j]
      <4>1. /\ Len(SubSeq(got, 1, i - 1)) = i - 1
            /\ \A j \in 1 .. i - 1 : SubSeq(got, 1, i - 1)[j] = got[j]
        BY <1>2, <2>1
      <4> QED
        BY <2>5, <4>1 DEF Range
    <3>2. all[Len(rows) + j] = got[j] /\ Len(rows) + j \in 1 .. Len(all) /\ Len(rows) + j # Len(rows) + i
      BY <1>1, <1>2, <1>3, <2>1, <3>1, SMTT(60)
    <3> QED
      BY <2>2, <2>3, <3>1, <3>2 DEF NoRepeat
  <2> QED
    BY <2>4, <2>5
<1>11. ASSUME Stable, Len(list) <= Place + Len(got) PROVE all = Due(list)
  BY <1>1, <1>3, <1>8, <1>9, <1>11, ReadFacts
<1>12. ASSUME ~deleted
       PROVE  \A i \in 1 .. Len(list) :
                    \/ i > Place + Len(got) \/ list[i] \in Range(all)
                    \/ list[i] \notin Range(Due(began))
  <2>1. \A i \in 1 .. Len(list) : i > Place + Len(got) \/ i <= Place + Len(got)
    BY <1>1, <1>2
  <2> QED
    BY <1>6, <1>12, <2>1
<1> QED
  BY <1>7, <1>9, <1>10, <1>11, <1>12

-----------------------------------------------------------------------------
(* How a page ends *)

\* A page changes neither what a walk may rely on nor what it owes.
LEMMA SameService ==
    ASSUME UNCHANGED <<given, world>>
    PROVE  /\ UNCHANGED <<walk, service, began, list, inserted, deleted, edits>>
           /\ (Stable' <=> Stable) /\ (Sound' <=> Sound) /\ (TellsEnd' <=> TellsEnd)
           /\ Due(list)' = Due(list) /\ Due(began)' = Due(began)
           /\ Range(Due(began))' = Range(Due(began)) /\ Size' = Size /\ Cap' = Cap
<1>1. UNCHANGED <<walk, service, began, list, inserted, deleted, edits>>
  BY DEF given, world
<1>2. Stable' <=> Stable
  BY <1>1 DEF Stable
<1>3. Sound' <=> Sound
  BY <1>1 DEF Sound, NumberedSound, OffsetSound
<1>4. TellsEnd' <=> TellsEnd
  BY <1>1 DEF TellsEnd, PageTellsEnd, NumberedTellsEnd, OffsetTellsEnd
<1>5. /\ Due(list)' = Due(list) /\ Due(began)' = Due(began)
      /\ Range(Due(began))' = Range(Due(began))
  BY <1>1 DEF Due, Range
<1>6. Size' = Size /\ Cap' = Cap
  BY <1>1 DEF Size, Least, Cap, UserCap
<1> QED
  BY <1>1, <1>2, <1>3, <1>4, <1>5, <1>6

\* A walk is given up.
LEMMA GivenUp ==
    ASSUME IInv, UNCHANGED <<given, world>>, TypeOK', CappedOK', ToldOK', OnceOK',
           end' \in {"pagination", "limit"}, end' = "pagination" => ~(Stable /\ Sound)
    PROVE  IInv'
<1>1. end' # "done" /\ end' # "atMax" /\ end' # "none"
  OBVIOUS
<1>2. ~(Stable /\ Sound)' \/ end' # "pagination"
  BY SameService
<1>3. CompleteWhenStable'
  BY <1>1, <1>2 DEF CompleteWhenStable
<1>4. EditsHideNothing'
  BY <1>1 DEF EditsHideNothing
<1> QED
  BY <1>1, <1>3, <1>4, Over

\* A walk ends at --max.
LEMMA CutAtMax ==
    ASSUME IInv, UNCHANGED <<given, world>>, TypeOK', CappedOK', ToldOK', OnceOK',
           end' = "atMax", Len(rows') = walk.max,
           Stable /\ TellsEnd => IsRead(rows', list)
    PROVE  IInv'
<1>1. /\ TypeOK /\ rows' \in Seq(Keys) /\ walk.max \in Nat
      /\ UNCHANGED <<walk, list>>
  BY Fields, SameService DEF IInv, TypeOK, ListingTypeOK
<1>2. Stable /\ TellsEnd => rows' = SubSeq(Due(list), 1, walk.max)
  BY <1>1, ReadFacts
<1>3. CompleteWhenStable'
  BY <1>1, <1>2, SameService DEF CompleteWhenStable
<1>4. EditsHideNothing'
  BY DEF EditsHideNothing
<1> QED
  BY <1>3, <1>4, Over

\* A walk is done.
LEMMA Finished ==
    ASSUME IInv, end = "none", UNCHANGED <<given, world>>, TypeOK', CappedOK', ToldOK',
           end' = "done", NEW n \in Nat \ {0}, NEW got, got = Slice(Place, n),
           rows' = rows \o got,
           walk.keyed => NoRepeat(rows'),
           ~deleted /\ TellsEnd => service.heeds /\ Len(list) <= Place + Len(got),
           walk.kind = "sweep" /\ "elements" \in service.tells /\ ~(inserted /\ deleted)
           => Range(list) \subseteq Range(rows')
    PROVE  IInv'
<1>1. UNCHANGED <<walk, service, began, list, inserted, deleted>>
  BY SameService
<1>2. OnceOK'
  BY <1>1 DEF OnceOK, NoRepeat
<1>3. ASSUME Stable, TellsEnd PROVE rows' = Due(list)
  <2>1. service.heeds /\ Len(list) <= Place + Len(got)
    BY <1>3 DEF Stable
  <2> QED
    BY <1>3, <2>1, Reading
<1>4. CompleteWhenStable'
  BY <1>1, <1>3, SameService DEF CompleteWhenStable
<1>5. ASSUME ~deleted, TellsEnd PROVE Range(Due(began)) \subseteq Range(rows')
  <2>1. service.heeds /\ Len(list) <= Place + Len(got)
    BY <1>5
  <2> QED
    BY <1>5, <2>1, Reading
<1>6. /\ Range(rows)' = Range(rows') /\ Range(list)' = Range(list) /\ Range(began)' = Range(began)
      /\ (NoRepeat(rows)' <=> NoRepeat(rows'))
  BY <1>1 DEF Range, NoRepeat
<1>7. EditsHideNothing'
  BY <1>1, <1>5, <1>6, SameService DEF EditsHideNothing
<1> QED
  BY <1>2, <1>4, <1>7, Over

\* A walk goes on.
LEMMA GoesOn ==
    ASSUME IInv, end = "none", UNCHANGED <<given, world>>,
           TypeOK', CappedOK', ToldOK', OnceOK', GoingOn', Counted', end' = "none",
           NEW n \in Nat \ {0}, NEW got, got = Slice(Place, n), rows' = rows \o got,
           walk.kind \in {"skip", "offset"} => Place' = Place + Len(got),
           walk.kind \in {"number", "sweep"} => n = Size /\ Place' = Place + Size,
           walk.kind = "sweep" /\ Stable /\ service.heeds =>
             /\ told'.pages \in {NoTotal, PagesOf(Len(list), Size)}
             /\ told'.elements \in {NoTotal, Len(list)}
             /\ "pages" \in service.tells => Place' < Len(list)
    PROVE  IInv'
<1>1. UNCHANGED <<walk, service, began, list, inserted, deleted, edits, Size>>
  BY SameService
<1>2. /\ TypeOK /\ rows \in Seq(Keys) /\ Len(rows) \in Nat /\ list \in Seq(Keys) /\ Len(list) \in Nat
      /\ Place \in Nat /\ walk.kind \in {"skip", "number", "sweep", "offset"}
  BY Numbers, Fields DEF IInv
<1>3. /\ got \in Seq(Keys) /\ Len(got) \in Nat
      /\ service.heeds => Len(got) = IF Len(list) >= Place + n THEN n
                          ELSE IF Len(list) >= Place THEN Len(list) - Place ELSE 0
  <2>1. got \in Seq(Keys)
    BY <1>2, SliceFacts
  <2>2. service.heeds => Len(got) = IF Len(list) >= Place + n THEN n
                          ELSE IF Len(list) >= Place THEN Len(list) - Place ELSE 0
    BY <1>2, SliceFacts
  <2> QED
    BY <2>1, <2>2
<1>4. Len(rows') = Len(rows) + Len(got)
  BY <1>2, <1>3
<1>5. ASSUME service.heeds, NEW i \in 1 .. Len(list), ~(i > Place') PROVE ~(i > Place + Len(got))
  <2>1. CASE walk.kind \in {"skip", "offset"}
    BY <1>5, <2>1
  <2>2. CASE walk.kind \in {"number", "sweep"}
    <3> HIDE DEF Place, Size
    <3> QED
      BY <1>2, <1>3, <1>5, <2>2
  <2> QED
    BY <1>2, <2>1, <2>2
<1>6. CompleteWhenStable' /\ EditsHideNothing'
  BY DEF CompleteWhenStable, EditsHideNothing
<1>7. Behind'
  <2>1. ASSUME ~deleted PROVE Range(began) \subseteq Range(list)
    BY <2>1 DEF IInv, Behind
  <2>2. ASSUME ~deleted, service.heeds, NEW i \in 1 .. Len(list)
        PROVE  i > Place' \/ list[i] \in Range(rows') \/ list[i] \notin Range(Due(began))
    BY <1>5, <2>2, Reading
  <2>3. Range(rows)' = Range(rows') /\ Range(list)' = Range(list) /\ Range(began)' = Range(began)
    BY <1>1 DEF Range
  <2> QED
    BY <1>1, <2>1, <2>2, <2>3, SameService DEF Behind
<1>8. InStep'
  <2>1. ASSUME Stable PROVE began = list
    BY <2>1 DEF IInv, InStep
  <2>2. ASSUME Stable, service.heeds PROVE IsRead(rows', list)
    BY <2>2, Reading
  <2>3. ASSUME Stable, service.heeds, walk.kind \in {"number", "sweep"}
        PROVE  Len(rows') = Least(Len(list), Place')
    <3>1. Len(rows) = Least(Len(list), Place)
      BY <2>3 DEF IInv, InStep
    <3> HIDE DEF Place, Size
    <3>2. n = Size /\ Place' = Place + n
      BY <2>3
    <3> QED
      BY <1>2, <1>3, <1>4, <2>3, <3>1, <3>2 DEF Least
  <2>4. (IsRead(rows, list))' <=> IsRead(rows', list)
    BY <1>1 DEF IsRead
  <2>5. PagesOf(Len(list), Size)' = PagesOf(Len(list), Size)
    BY <1>1 DEF PagesOf
  <2>6. Least(Len(list), Place)' = Least(Len(list), Place')
    BY <1>1 DEF Least
  <2> QED
    BY <1>1, <2>1, <2>2, <2>3, <2>4, <2>5, <2>6, SameService DEF InStep
<1> QED
  BY <1>6, <1>7, <1>8 DEF IInv

-----------------------------------------------------------------------------
(* The loops *)

\* How many rows of a list are on a page.
LEMMA PageLength ==
    ASSUME TypeOK, service.heeds, NEW s \in Nat, NEW n \in Nat \ {0}, NEW got, got = Slice(s, n)
    PROVE  /\ got \in Seq(Keys) /\ Len(got) \in Nat /\ Len(got) <= n
           /\ Len(list) <= s + Len(got) <=> Len(list) <= s + n
           /\ Len(got) < n => Len(list) <= s + Len(got)
           /\ Len(got) = 0 <=> Len(list) <= s
           /\ Len(list) > s => Len(got) = Least(n, Len(list) - s)
<1>1. got \in Seq(Keys) /\ Len(list) \in Nat
  BY SliceFacts, Numbers
<1>2. Len(got) = IF Len(list) >= s + n THEN n
                 ELSE IF Len(list) >= s THEN Len(list) - s ELSE 0
  BY SliceFacts
<1> QED
  BY <1>1, <1>2 DEF Least

\* The rows that fit under a cap are read when all of the page are.
LEMMA CutRead ==
    ASSUME TypeOK, Len(rows) < Cap, NEW got \in Seq(Keys), Room <= Len(got),
           NEW all, all = rows \o got, IsRead(all, list),
           NEW cut, cut = rows \o SubSeq(got, 1, Room)
    PROVE  IsRead(cut, list)
<1>1. /\ rows \in Seq(Keys) /\ Len(rows) \in Nat /\ Len(list) \in Nat /\ walk.start \in Nat
      /\ Room \in Nat \ {0} /\ Len(got) \in Nat
  <2>1. Cap \in Nat /\ Room = Cap - Len(rows) /\ Len(rows) \in Nat
    BY Numbers
  <2>2. Room \in Nat \ {0}
    BY <2>1
  <2> QED
    BY <2>2, Numbers, Fields
<1>2. PICK new \in Seq(Keys) : /\ new = SubSeq(got, 1, Room) /\ Len(new) = Room
                               /\ \A i \in 1 .. Room : new[i] = got[i]
  <2>1. /\ SubSeq(got, 1, Room) \in Seq(Keys) /\ Len(SubSeq(got, 1, Room)) = Room
        /\ \A i \in 1 .. Room : SubSeq(got, 1, Room)[i] = got[i]
    BY <1>1
  <2> QED
    BY <2>1
<1>3. cut = rows \o new
  BY <1>2
<1>4. /\ Len(cut) = Len(rows) + Room
      /\ \A i \in 1 .. Len(rows) : cut[i] = rows[i]
      /\ \A i \in 1 .. Len(new) : cut[Len(rows) + i] = new[i]
      /\ \A k \in 1 .. Len(cut) :
            k \in 1 .. Len(rows) \/ \E i \in 1 .. Len(new) : k = Len(rows) + i
  <2>1. rows \in Seq(Keys)
    BY <1>1
  <2>2. /\ Len(rows \o new) = Len(rows) + Len(new)
        /\ \A i \in 1 .. Len(rows) : (rows \o new)[i] = rows[i]
        /\ \A i \in 1 .. Len(new) : (rows \o new)[Len(rows) + i] = new[i]
        /\ \A k \in 1 .. Len(rows \o new) :
              k \in 1 .. Len(rows) \/ \E i \in 1 .. Len(new) : k = Len(rows) + i
    BY <2>1, JoinFacts
  <2> QED
    BY <1>2, <1>3, <2>2
<1>5. /\ Len(all) = Len(rows) + Len(got)
      /\ \A i \in 1 .. Len(rows) : all[i] = rows[i]
      /\ \A i \in 1 .. Len(got) : all[Len(rows) + i] = got[i]
  BY <1>1, JoinFacts
<1>6. ASSUME NEW k \in 1 .. Len(cut) PROVE cut[k] = all[k] /\ k \in 1 .. Len(all)
  <2>1. k \in 1 .. Len(all)
    BY <1>1, <1>4, <1>5
  <2>2. CASE k \in 1 .. Len(rows)
    BY <1>4, <1>5, <2>1, <2>2
  <2>3. CASE \E i \in 1 .. Len(new) : k = Len(rows) + i
    <3>1. PICK i \in 1 .. Len(new) : k = Len(rows) + i
      BY <2>3
    <3>2. i \in 1 .. Room /\ i \in 1 .. Len(got)
      BY <1>1, <1>2, <3>1
    <3> QED
      BY <1>2, <1>4, <1>5, <2>1, <3>1, <3>2
  <2> QED
    BY <1>4, <2>2, <2>3
<1>7. walk.start + Len(all) <= Len(list)
  <2>1. Len(all) > 0
    BY <1>1, <1>5
  <2>2. all # <<>>
    BY <2>1
  <2> QED
    BY <2>2 DEF IsRead
<1>8. walk.start + Len(cut) <= Len(list)
  BY <1>1, <1>4, <1>5, <1>7
<1>9. \A k \in 1 .. Len(cut) : cut[k] = list[walk.start + k]
  BY <1>6 DEF IsRead
<1> QED
  BY <1>8, <1>9 DEF IsRead

\* A page of a skip/limit listing.
LEMMA PageStep ==
    ASSUME IInv, NEW flagged \in BOOLEAN, Page(flagged), UNCHANGED told PROVE IInv'
<1> DEFINE n == Least(Asked, service.size)
           got == Answer
           total == IF capped \/ flagged THEN NoTotal ELSE Total
<1>1. /\ walk.kind = "skip" /\ end = "none" /\ pages < walk.pages /\ flagged \in Flags
      /\ IF got = <<>> THEN Stop(IF MissesRows(total) THEN "pagination" ELSE "done")
         ELSE Take(got, ~More(got, total))
      /\ skip' = skip + Len(got) /\ capped' = (capped \/ flagged) /\ pages' = pages + 1
      /\ UNCHANGED <<given, world>>
  BY DEF Page, PagesLeft
<1> HIDE DEF n, got, total
<1>2. /\ TypeOK /\ rows \in Seq(Keys) /\ Len(rows) \in Nat /\ list \in Seq(Keys) /\ Len(list) \in Nat
      /\ Place = skip /\ skip \in Nat /\ pages \in Nat /\ walk.pages \in Nat
      /\ Cap \in Nat /\ Room \in Nat \ {0} /\ Room = Cap - Len(rows)
      /\ Len(rows) < Cap /\ skip = walk.start + Len(rows) /\ walk.start \in Nat
      /\ walk.limit \in Nat \ {0} /\ service.size \in Nat \ {0}
      /\ service.count \in {"exact", "none", "capped"}
      /\ NoTotal \notin Nat /\ CountCap \in Nat
  <2>1. Len(rows) < Cap /\ skip = walk.start + Len(rows)
    BY <1>1 DEF IInv, GoingOn
  <2>2. TypeOK /\ Place = skip /\ CountCap \in Nat
    BY <1>1, PageWalkAssumption DEF IInv, Place
  <2>3. /\ rows \in Seq(Keys) /\ Len(rows) \in Nat /\ list \in Seq(Keys) /\ Len(list) \in Nat
        /\ skip \in Nat /\ pages \in Nat /\ Cap \in Nat /\ Room \in Int /\ Room = Cap - Len(rows)
        /\ NoTotal \notin Nat
    BY <2>2, Numbers
  <2>4. /\ walk.start \in Nat /\ walk.limit \in Nat \ {0} /\ service.size \in Nat \ {0}
        /\ walk.pages \in Nat /\ service.count \in {"exact", "none", "capped"}
    BY <1>1, <2>2, Fields
  <2> QED
    BY <2>1, <2>2, <2>3, <2>4
<1>3. Asked \in Nat \ {0} /\ Asked <= walk.limit
  BY <1>2 DEF Asked, Least
<1>4. n \in Nat \ {0} /\ (n = service.size \/ n = Asked) /\ n <= service.size /\ n <= Asked
  BY <1>2, <1>3 DEF n, Least
<1>5. got = Slice(Place, n)
  BY <1>2 DEF Answer, n, got
<1>6. got \in Seq(Keys) /\ Len(got) \in Nat
  <2>1. TypeOK /\ Place \in Nat /\ n \in Nat
    BY <1>2, <1>4
  <2>2. Slice(Place, n) \in Seq(Keys)
    BY <2>1, SliceFacts
  <2> QED
    BY <1>5, <2>2
<1>7. total = NoTotal \/ total = Len(list)
  <2>1. CASE capped \/ flagged
    BY <2>1 DEF total
  <2>2. CASE ~(capped \/ flagged)
    <3>1. total = Total
      BY <2>2 DEF total
    <3>2. CASE service.count = "exact" \/ service.count = "none"
      BY <3>1, <3>2 DEF Total
    <3>3. CASE service.count = "capped"
      <4>1. Len(list) <= CountCap
        <5>1. CASE Len(list) > CountCap
          <6>1. Flags = {TRUE}
            BY <2>2, <3>3, <5>1 DEF Flags
          <6> QED
            BY <1>1, <2>2, <6>1
        <5> QED
          BY <1>2, <5>1
      <4>2. Total = Least(Len(list), CountCap)
        BY <3>3 DEF Total
      <4> QED
        BY <1>2, <3>1, <4>1, <4>2 DEF Least
    <3> QED
      BY <1>2, <3>2, <3>3
  <2> QED
    BY <2>1, <2>2
<1>8. flagged => service.count = "capped" /\ Len(list) > CountCap
  BY <1>1 DEF Flags
<1>9. ASSUME ~deleted, TellsEnd
      PROVE  service.heeds /\ (service.size >= walk.limit \/ total = Len(list))
  <2>1. /\ service.heeds
        /\ \/ service.count = "exact" \/ service.size >= walk.limit
           \/ service.count = "capped" /\ Len(list) <= CountCap
    BY <1>1, <1>9 DEF TellsEnd, PageTellsEnd
  <2>2. capped => service.count = "capped" /\ Len(list) > CountCap
    BY <1>9 DEF IInv, CappedOK
  <2>3. CASE service.count = "exact"
    <3>1. ~capped /\ ~flagged
      BY <1>8, <2>2, <2>3
    <3> QED
      BY <2>1, <2>3, <3>1 DEF Total, total
  <2>4. CASE service.count = "capped" /\ Len(list) <= CountCap
    <3>1. ~capped /\ ~flagged
      BY <1>2, <1>8, <2>2, <2>4
    <3>2. total = Total /\ Total = Least(Len(list), CountCap)
      BY <2>4, <3>1 DEF Total, total
    <3> QED
      BY <1>2, <2>1, <2>4, <3>2 DEF Least
  <2> QED
    BY <2>1, <2>3, <2>4
<1>10. UNCHANGED <<walk, service, began, list, inserted, deleted, edits>> /\ Cap' = Cap
  BY <1>1, SameService
<1>11. CappedOK' /\ ToldOK' /\ Counted'
  <2>1. CappedOK'
    BY <1>1, <1>8, <1>10 DEF IInv, CappedOK
  <2> QED
    BY <1>1, <1>10, <2>1 DEF ToldOK, Counted
<1>12. ASSUME rows' \in Seq(Keys), end' \in {"pagination", "limit", "atMax", "done", "none"}
       PROVE  TypeOK'
  <2>1. pages' \in 0 .. walk.pages /\ skip' \in Nat /\ capped' \in BOOLEAN
    <3>1. capped \in BOOLEAN
      BY <1>2 DEF TypeOK, PageWalkTypeOK
    <3>2. pages + 1 \in 0 .. walk.pages /\ skip + Len(got) \in Nat
      <4>1. /\ pages < walk.pages /\ pages \in Nat /\ walk.pages \in Nat /\ skip \in Nat
            /\ Len(got) \in Nat
        BY <1>1, <1>2, <1>6
      <4> QED
        BY <4>1
    <3>3. pages' = pages + 1 /\ skip' = skip + Len(got)
      BY <1>1
    <3>4. capped' \in BOOLEAN
      <4>1. (capped \/ flagged) \in BOOLEAN
        OBVIOUS
      <4> QED
        BY <1>1, <4>1, Zenon
    <3> QED
      BY <3>2, <3>3, <3>4
  <2>2. ListingTypeOK'
    <3> QED
      BY <1>2, <1>10, <1>12, <2>1 DEF TypeOK, ListingTypeOK, Ends
  <2>3. PageWalkTypeOK' /\ NumberedWalkTypeOK' /\ OffsetWalkTypeOK'
    BY <1>1, <1>2, <1>10, <2>1 DEF TypeOK, PageWalkTypeOK, NumberedWalkTypeOK, OffsetWalkTypeOK
  <2> QED
    BY <2>2, <2>3 DEF TypeOK
<1>13. service.heeds =>
         /\ Len(got) < n => Len(list) <= Place + Len(got)
         /\ Len(got) = 0 => Len(list) <= Place
  <2>1. TypeOK /\ Place \in Nat
    BY <1>2
  <2> QED
    BY <1>4, <1>5, <2>1, PageLength
<1>14. CASE got = <<>>
  <2>1. rows' = rows /\ rows' = rows \o got /\ Len(got) = 0
    BY <1>1, <1>2, <1>14 DEF Stop
  <2>2. OnceOK'
    BY <1>10, <2>1 DEF IInv, OnceOK, NoRepeat
  <2>3. CASE MissesRows(total)
    <3>1. end' = "pagination"
      BY <1>1, <1>14, <2>3 DEF Stop
    <3>2. ~service.heeds
      BY <1>2, <1>7, <1>13, <2>1, <2>3 DEF MissesRows
    <3>3. ~Sound
      BY <1>1, <3>2 DEF Sound
    <3>4. TypeOK'
      BY <1>2, <1>12, <2>1, <3>1
    <3> QED
      BY <1>1, <1>11, <2>2, <3>1, <3>3, <3>4, GivenUp
  <2>4. CASE ~MissesRows(total)
    <3>1. end' = "done"
      BY <1>1, <1>14, <2>4 DEF Stop
    <3>2. TypeOK'
      BY <1>2, <1>12, <2>1, <3>1
    <3>3. walk.keyed => NoRepeat(rows')
      BY <1>1, <2>1 DEF IInv, OnceOK
    <3>4. ~deleted /\ TellsEnd => service.heeds /\ Len(list) <= Place + Len(got)
      BY <1>2, <1>9, <1>13, <2>1
    <3> QED
      BY <1>1, <1>4, <1>5, <1>11, <2>1, <3>1, <3>2, <3>3, <3>4, Finished
  <2> QED
    BY <2>3, <2>4
<1>15. CASE got # <<>>
  <2>1. Take(got, ~More(got, total))
    BY <1>1, <1>15
  <2>2. /\ rows' \in Seq(Keys) /\ end' \in {"pagination", "limit", "atMax", "done", "none"}
        /\ end' = "pagination" => rows' = rows /\ walk.keyed /\ Repeats(got)
        /\ end' # "pagination" => ~(walk.keyed /\ Repeats(got))
        /\ end' \in {"done", "none"} => rows' = rows \o got /\ Len(got) <= Room
        /\ end' = "done" => ~More(got, total)
        /\ end' = "none" => Len(rows') < Cap
        /\ end' = "atMax" =>
             /\ UserCap /\ Room <= Len(got) /\ Len(rows') = Cap
             /\ rows' = rows \o SubSeq(got, 1, Room)
        /\ walk.keyed /\ NoRepeat(rows) => NoRepeat(rows')
    BY <1>2, <1>6, <2>1, TakeFacts
  <2>3. TypeOK'
    BY <1>12, <2>2
  <2>4. walk.keyed => NoRepeat(rows')
    BY <1>1, <2>2 DEF IInv, OnceOK
  <2>5. OnceOK'
    BY <1>10, <2>4 DEF OnceOK, NoRepeat
  <2>6. CASE end' = "pagination"
    <3>1. ~(Stable /\ Sound)
      <4>1. SUFFICES ASSUME Stable, Sound PROVE FALSE
        OBVIOUS
      <4>2. service.heeds
        BY <1>1, <4>1 DEF Sound
      <4> QED
        BY <1>1, <1>4, <1>5, <2>2, <2>6, <4>1, <4>2, Reading
    <3> QED
      BY <1>1, <1>11, <2>3, <2>5, <2>6, <3>1, GivenUp
  <2>7. CASE end' = "limit"
    BY <1>1, <1>11, <2>3, <2>5, <2>7, GivenUp
  <2>8. CASE end' = "atMax"
    <3>1. Len(rows') = walk.max
      BY <1>2, <2>2, <2>8, Numbers
    <3>2. ASSUME Stable, TellsEnd PROVE IsRead(rows', list)
      <4>1. service.heeds
        BY <1>9, <3>2 DEF Stable
      <4>2. PICK all : all = rows \o got
        OBVIOUS
      <4>3. IsRead(all, list)
        BY <1>1, <1>4, <1>5, <3>2, <4>1, <4>2, Reading
      <4> QED
        BY <1>2, <1>6, <2>2, <2>8, <4>2, <4>3, CutRead
    <3> QED
      BY <1>1, <1>11, <2>3, <2>5, <2>8, <3>1, <3>2, CutAtMax
  <2>9. CASE end' = "done"
    <3>1. ~deleted /\ TellsEnd => service.heeds /\ Len(list) <= Place + Len(got)
      <4>1. SUFFICES ASSUME ~deleted, TellsEnd PROVE service.heeds /\ Len(list) <= Place + Len(got)
        OBVIOUS
      <4>2. service.heeds /\ (service.size >= walk.limit \/ total = Len(list))
        BY <1>9, <4>1
      <4>3. ~More(got, total)
        BY <2>2, <2>9
      <4>4. CASE total = Len(list)
        BY <1>2, <1>6, <4>2, <4>3, <4>4 DEF More
      <4>5. CASE total = NoTotal /\ service.size >= walk.limit
        <5>1. Len(got) < Asked
          BY <1>3, <1>6, <4>3, <4>5 DEF More
        <5>2. n = Asked
          BY <1>2, <1>3, <1>4, <4>5
        <5> QED
          BY <1>13, <4>2, <5>1, <5>2
      <4> QED
        BY <1>7, <4>2, <4>4, <4>5
    <3> QED
      BY <1>1, <1>4, <1>5, <1>11, <2>2, <2>3, <2>4, <2>9, <3>1, Finished
  <2>10. CASE end' = "none"
    <3>1. GoingOn'
      <4>1. Len(rows') = Len(rows) + Len(got)
        BY <1>2, <1>6, <2>2, <2>10
      <4> QED
        BY <1>1, <1>2, <1>6, <1>10, <2>2, <2>10, <4>1, SMTT(60) DEF GoingOn
    <3>2. Place' = Place + Len(got)
      BY <1>1, <1>2, <1>10 DEF Place
    <3> QED
      BY <1>1, <1>4, <1>5, <1>11, <2>2, <2>3, <2>5, <2>10, <3>1, <3>2, GoesOn
  <2> QED
    BY <2>2, <2>6, <2>7, <2>8, <2>9, <2>10
<1> QED
  BY <1>14, <1>15

\* What a numbered page tells.
LEMMA SentFacts ==
    ASSUME TypeOK, walk.kind \in {"number", "sweep"}
    PROVE  /\ Place = pages * Size /\ Sent.rows = Slice(Place, Size)
           /\ Sent.rows \in Seq(Keys) /\ Len(Sent.rows) \in Nat
           /\ Sent.size = IF "size" \in service.tells THEN Size ELSE NoTotal
           /\ Sent.pages = IF "pages" \in service.tells THEN PagesOf(Len(list), Size) ELSE NoTotal
           /\ Sent.elements = IF "elements" \in service.tells THEN Len(list) ELSE NoTotal
           /\ service.heeds => Sent.number \in {NoTotal, pages}
           /\ PagesOf(Len(list), Size) \in Nat /\ (PagesOf(Len(list), Size) = 0 <=> Len(list) = 0)
           /\ pages >= PagesOf(Len(list), Size) <=> Place >= Len(list)
           /\ pages + 1 >= PagesOf(Len(list), Size) <=> Place + Size >= Len(list)
<1> USE DEF Size
<1>1. Place = pages * Size
  BY DEF Place
<1>2. Sent.rows = Slice(pages * Size, Size)
  BY DEF Sent
<1>3. Sent.size = IF "size" \in service.tells THEN Size ELSE NoTotal
  BY DEF Sent
<1>4. Sent.pages = IF "pages" \in service.tells THEN PagesOf(Len(list), Size) ELSE NoTotal
  BY DEF Sent
<1>5. Sent.elements = IF "elements" \in service.tells THEN Len(list) ELSE NoTotal
  BY DEF Sent
<1>6. service.heeds => Sent.number \in {NoTotal, pages}
  BY DEF Sent
<1> HIDE DEF Size
<1>7. /\ pages \in Nat /\ Size \in Nat \ {0} /\ Len(list) \in Nat /\ Place \in Nat
      /\ (pages + 1) * Size = Place + Size
  BY <1>1, Numbers
<1>8. /\ PagesOf(Len(list), Size) \in Nat /\ (PagesOf(Len(list), Size) = 0 <=> Len(list) = 0)
      /\ pages >= PagesOf(Len(list), Size) <=> pages * Size >= Len(list)
  BY <1>7, PagesFacts
<1>9. pages + 1 >= PagesOf(Len(list), Size) <=> (pages + 1) * Size >= Len(list)
  <2>1. pages + 1 \in Nat
    BY <1>7
  <2> QED
    BY <1>7, <2>1, PagesFacts
<1>10. Sent.rows \in Seq(Keys)
  <2>1. Slice(Place, Size) \in Seq(Keys)
    BY <1>7, SliceFacts
  <2> QED
    BY <1>1, <1>2, <2>1
<1> QED
  BY <1>1, <1>2, <1>3, <1>4, <1>5, <1>6, <1>7, <1>8, <1>9, <1>10

\* What a numbered page says of being the last one.
LEMMA SentLast ==
    ASSUME TypeOK, walk.kind \in {"number", "sweep"}
    PROVE  /\ service.last = "told" /\ service.heeds =>
                /\ Sent.last # NoTotal /\ Sent.last \in BOOLEAN
                /\ Sent.last = (Len(list) <= Place + Size)
           /\ service.last = "told" => Sent.last # NoTotal /\ Sent.last \in BOOLEAN
           /\ service.last = "never" => Sent.last = FALSE /\ Sent.last # NoTotal
           /\ service.last = "none" => Sent.last = NoTotal
           /\ service.last \in {"told", "never", "none"}
<1>1. service.last \in {"told", "never", "none"} /\ NoTotal \notin BOOLEAN
  BY Fields, Numbers
<1>2. pages + 1 >= PagesOf(Len(list), Size) <=> Len(list) <= Place + Size
  <2>1. Len(list) \in Nat /\ Place \in Nat /\ Size \in Nat
    BY Numbers
  <2> QED
    BY <2>1, SentFacts
<1>3. Least(walk.limit, service.size) = Size
  BY DEF Size
<1>4. service.last = "told" =>
        Sent.last = ((IF service.heeds THEN pages ELSE 0) + 1 >= PagesOf(Len(list), Size))
  BY <1>3 DEF Sent
<1>5. service.last = "never" => Sent.last = FALSE
  BY DEF Sent
<1>6. service.last = "none" => Sent.last = NoTotal
  BY DEF Sent
<1>7. service.last = "told" => Sent.last \in BOOLEAN
  <2>1. ((IF service.heeds THEN pages ELSE 0) + 1 >= PagesOf(Len(list), Size)) \in BOOLEAN
    OBVIOUS
  <2> QED
    BY <1>4, <2>1, Zenon
<1>8. service.last = "told" /\ service.heeds => Sent.last = (Len(list) <= Place + Size)
  BY <1>2, <1>4
<1> QED
  BY <1>1, <1>5, <1>6, <1>7, <1>8

\* A page of a DLP listing.
LEMMA NumberedStep ==
    ASSUME IInv, NumberedPage, UNCHANGED capped PROVE IInv'
<1> DEFINE got == Sent.rows
           last == IsLast(Sent)
<1>1. /\ walk.kind = "number" /\ end = "none" /\ pages < walk.pages /\ pages' = pages + 1
      /\ UNCHANGED <<given, world, skip, told>>
      /\ IF got = <<>> /\ ~last THEN Stop("pagination") ELSE Take(got, last)
  BY DEF NumberedPage, PagesLeft
<1> HIDE DEF got, last
<1>2. /\ TypeOK /\ rows \in Seq(Keys) /\ Len(rows) \in Nat /\ Len(list) \in Nat
      /\ Place \in Nat /\ Size \in Nat \ {0} /\ Size <= walk.limit /\ Size <= service.size
      /\ Size = walk.limit \/ Size = service.size
      /\ NoTotal \notin Nat /\ NoTotal \notin BOOLEAN
      /\ walk.limit \in Nat \ {0} /\ service.size \in Nat \ {0} /\ walk.max \in Nat
      /\ UserCap => Cap = walk.max
  BY Numbers, Fields DEF IInv
<1>3. /\ got = Slice(Place, Size) /\ got \in Seq(Keys) /\ Len(got) \in Nat
      /\ Place = pages * Size
  BY <1>1, <1>2, SentFacts DEF got
<1>4. UNCHANGED <<walk, service, began, list, inserted, deleted, edits, Size, Cap>>
  BY <1>1, SameService
<1>5. last = IF Sent.last # NoTotal THEN Sent.last
             ELSE IF "pages" \in service.tells THEN Len(list) <= Place + Size
             ELSE Len(got) < IF "size" \in service.tells THEN Size ELSE walk.limit
  <2>1. Sent.pages # NoTotal <=> "pages" \in service.tells
    BY <1>1, <1>2, SentFacts
  <2>2. "pages" \in service.tells => (pages + 1 >= Sent.pages <=> Len(list) <= Place + Size)
    BY <1>1, <1>2, SentFacts
  <2>3. Known(Sent.size, walk.limit) = IF "size" \in service.tells THEN Size ELSE walk.limit
    BY <1>1, <1>2, SentFacts DEF Known
  <2> QED
    BY <2>1, <2>2, <2>3 DEF last, IsLast, Known, got
<1>6. service.heeds =>
        /\ Len(got) < Size => Len(list) <= Place + Len(got)
        /\ Len(list) <= Place + Size => Len(list) <= Place + Len(got)
        /\ Len(got) = 0 => Len(list) <= Place
  BY <1>2, <1>3, PageLength
<1>7. ASSUME TellsEnd, last PROVE service.heeds /\ Len(list) <= Place + Len(got)
  <2>1. /\ service.heeds
        /\ \/ service.last # "none" \/ "pages" \in service.tells \/ "size" \in service.tells
           \/ service.size >= walk.limit
    BY <1>1, <1>7 DEF TellsEnd, NumberedTellsEnd
  <2>2. CASE service.last = "told"
    <3>1. Sent.last # NoTotal /\ (Sent.last <=> Len(list) <= Place + Size)
      BY <1>1, <1>2, <2>1, <2>2, SentLast
    <3> QED
      BY <1>5, <1>6, <1>7, <2>1, <3>1
  <2>3. CASE service.last = "never"
    <3>1. Sent.last # NoTotal /\ Sent.last = FALSE
      BY <1>1, <1>2, <2>3, SentLast
    <3> QED
      BY <1>5, <1>7, <3>1
  <2>4. CASE service.last = "none"
    <3>1. Sent.last = NoTotal
      BY <1>1, <1>2, <2>4, SentLast
    <3>2. CASE "pages" \in service.tells
      BY <1>5, <1>6, <1>7, <2>1, <3>1, <3>2
    <3>3. CASE "pages" \notin service.tells
      <4>1. Len(got) < IF "size" \in service.tells THEN Size ELSE walk.limit
        BY <1>5, <1>7, <3>1, <3>3
      <4>2. Len(got) < Size
        BY <1>2, <1>3, <2>1, <2>4, <3>3, <4>1
      <4> QED
        BY <1>6, <2>1, <4>2
    <3> QED
      BY <3>2, <3>3
  <2> QED
    BY <1>1, <1>2, <2>2, <2>3, <2>4, SentLast
<1>8. ASSUME got = <<>>, Sound PROVE last
  <2>1. service.heeds /\ service.last # "never"
    BY <1>1, <1>8 DEF Sound, NumberedSound
  <2>2. Len(list) <= Place + Size /\ Len(got) = 0
    BY <1>2, <1>6, <1>8, <2>1
  <2>3. CASE service.last = "told"
    <3>1. Sent.last # NoTotal /\ (Sent.last <=> Len(list) <= Place + Size)
      BY <1>1, <1>2, <2>1, <2>3, SentLast
    <3> QED
      BY <1>5, <2>2, <3>1
  <2>4. CASE service.last = "none"
    <3>1. Sent.last = NoTotal
      BY <1>1, <1>2, <2>4, SentLast
    <3>2. Len(got) < IF "size" \in service.tells THEN Size ELSE walk.limit
      BY <1>2, <2>2
    <3> QED
      BY <1>5, <2>2, <3>1, <3>2
  <2> QED
    BY <1>1, <1>2, <2>1, <2>3, <2>4, SentLast
<1>9. CappedOK' /\ ToldOK' /\ Counted'
  BY <1>1, <1>4 DEF IInv, CappedOK, ToldOK, Counted
<1>10. ASSUME rows' \in Seq(Keys), end' \in {"pagination", "limit", "atMax", "done", "none"}
       PROVE  TypeOK'
  <2>1. pages' \in 0 .. walk.pages
    <3>1. pages < walk.pages /\ pages \in Nat /\ walk.pages \in Nat
      BY <1>1, <1>2, Numbers, Fields
    <3> QED
      BY <1>1, <3>1
  <2>2. ListingTypeOK'
    BY <1>1, <1>2, <1>4, <1>10, <2>1 DEF TypeOK, ListingTypeOK, Ends
  <2>3. PageWalkTypeOK' /\ NumberedWalkTypeOK' /\ OffsetWalkTypeOK'
    BY <1>1, <1>2, <1>4 DEF TypeOK, PageWalkTypeOK, NumberedWalkTypeOK, OffsetWalkTypeOK
  <2> QED
    BY <2>2, <2>3 DEF TypeOK
<1>11. CASE got = <<>> /\ ~last
  <2>1. end' = "pagination" /\ rows' = rows
    BY <1>1, <1>11 DEF Stop
  <2>2. OnceOK'
    BY <1>4, <2>1 DEF IInv, OnceOK, NoRepeat
  <2>3. TypeOK'
    BY <1>2, <1>10, <2>1
  <2>4. ~(Stable /\ Sound)
    BY <1>8, <1>11
  <2> QED
    BY <1>1, <1>9, <2>1, <2>2, <2>3, <2>4, GivenUp
<1>12. CASE ~(got = <<>> /\ ~last)
  <2>1. Take(got, last) /\ last \in BOOLEAN /\ Len(rows) < Cap
    <3>1. Len(rows) < Cap
      BY <1>1 DEF IInv, GoingOn
    <3>2. last \in BOOLEAN
      <4>1. Sent.last # NoTotal => Sent.last \in BOOLEAN
        BY <1>1, <1>2, SentLast
      <4>2. CASE Sent.last # NoTotal
        BY <1>5, <4>1, <4>2
      <4>3. CASE Sent.last = NoTotal
        <5>1. /\ (Len(list) <= Place + Size) \in BOOLEAN
              /\ (Len(got) < IF "size" \in service.tells THEN Size ELSE walk.limit) \in BOOLEAN
          OBVIOUS
        <5> QED
          BY <1>5, <4>3, <5>1, Zenon
      <4> QED
        BY <4>2, <4>3
    <3> QED
      BY <1>1, <1>12, <3>1, <3>2
  <2>2. /\ rows' \in Seq(Keys) /\ end' \in {"pagination", "limit", "atMax", "done", "none"}
        /\ end' = "pagination" => walk.keyed /\ Repeats(got)
        /\ end' \in {"done", "none"} => rows' = rows \o got
        /\ end' = "done" => last
        /\ end' = "none" => Len(rows') < Cap
        /\ end' = "atMax" =>
             /\ UserCap /\ Room <= Len(got) /\ Len(rows') = Cap
             /\ rows' = rows \o SubSeq(got, 1, Room)
        /\ walk.keyed /\ NoRepeat(rows) => NoRepeat(rows')
    BY <1>2, <1>3, <2>1, TakeFacts
  <2>3. TypeOK'
    BY <1>10, <2>2
  <2>4. walk.keyed => NoRepeat(rows')
    BY <1>1, <2>2 DEF IInv, OnceOK
  <2>5. OnceOK'
    BY <1>4, <2>4 DEF OnceOK, NoRepeat
  <2>6. CASE end' = "pagination"
    <3>1. ASSUME Stable, Sound PROVE FALSE
      <4>1. service.heeds
        BY <1>1, <3>1 DEF Sound, NumberedSound
      <4> QED
        BY <1>1, <1>2, <1>3, <2>2, <2>6, <3>1, <4>1, Reading
    <3> QED
      BY <1>1, <1>9, <2>3, <2>5, <2>6, <3>1, GivenUp
  <2>7. CASE end' = "limit"
    BY <1>1, <1>9, <2>3, <2>5, <2>7, GivenUp
  <2>8. CASE end' = "atMax"
    <3>1. Len(rows') = walk.max
      BY <1>2, <2>2, <2>8
    <3>2. ASSUME Stable, TellsEnd PROVE IsRead(rows', list)
      <4>1. service.heeds
        BY <1>1, <3>2 DEF TellsEnd, NumberedTellsEnd
      <4>2. PICK all : all = rows \o got
        OBVIOUS
      <4>3. IsRead(all, list)
        BY <1>1, <1>2, <1>3, <3>2, <4>1, <4>2, Reading
      <4> QED
        BY <1>2, <1>3, <2>1, <2>2, <2>8, <4>2, <4>3, CutRead
    <3> QED
      BY <1>1, <1>9, <2>3, <2>5, <2>8, <3>1, <3>2, CutAtMax
  <2>9. CASE end' = "done"
    BY <1>1, <1>2, <1>3, <1>7, <1>9, <2>2, <2>3, <2>4, <2>9, Finished
  <2>10. CASE end' = "none"
    <3>1. GoingOn'
      BY <1>1, <1>4, <2>2, <2>10 DEF GoingOn
    <3>2. Place' = Place + Size
      <4>1. Place' = (pages + 1) * Size
        BY <1>1, <1>4 DEF Place
      <4> QED
        BY <1>2, <1>3, <4>1, Numbers
    <3> QED
      BY <1>1, <1>2, <1>3, <1>9, <2>2, <2>3, <2>5, <2>10, <3>1, <3>2, GoesOn
  <2> QED
    BY <2>2, <2>6, <2>7, <2>8, <2>9, <2>10
<1> QED
  BY <1>11, <1>12

\* A page of a profile or topic inventory.
LEMMA OffsetStep ==
    ASSUME IInv, OffsetPage, UNCHANGED <<capped, told>> PROVE IInv'
<1> DEFINE got == OffsetPageRows
           all == rows \o got
           next == NextOffset(got)
<1>1. /\ walk.kind = "offset" /\ end = "none" /\ pages' = pages + 1
      /\ UNCHANGED <<given, world, capped, told>>
      /\ IF Len(all) > MaxItems THEN Stop("limit") /\ UNCHANGED skip
         ELSE IF next = 0
         THEN /\ rows' = all
              /\ end' = IF RepeatedRecords(all) THEN "pagination" ELSE "done"
              /\ UNCHANGED skip
         ELSE IF got = <<>> \/ next <= skip THEN Stop("pagination") /\ UNCHANGED skip
         ELSE IF pages + 1 >= walk.pages THEN Stop("limit") /\ UNCHANGED skip
         ELSE rows' = all /\ skip' = next /\ end' = "none"
  BY DEF OffsetPage
<1>2. /\ got = Slice(skip, Size)
      /\ next = IF service.next = "always" \/ skip + Len(got) < Len(list) THEN skip + Len(got) ELSE 0
  BY DEF OffsetPageRows, Size, NextOffset
<1> HIDE DEF got, all, next
<1>3. all = rows \o got
  BY DEF all
<1>4. /\ TypeOK /\ rows \in Seq(Keys) /\ Len(rows) \in Nat /\ Len(list) \in Nat
      /\ Place = skip /\ Place \in Nat /\ Size \in Nat \ {0} /\ MaxItems \in Nat
      /\ pages \in Nat /\ walk.pages \in Nat /\ walk.start = 0
      /\ pages < walk.pages /\ skip = Len(rows) /\ skip \in Nat
      /\ service.next \in {"more", "always"}
  <2>1. TypeOK /\ Place = skip /\ pages < walk.pages /\ skip = Len(rows)
    BY <1>1 DEF IInv, Place, GoingOn
  <2> QED
    BY <1>1, <2>1, Numbers, Fields
<1>5. got \in Seq(Keys) /\ Len(got) \in Nat /\ got = Slice(Place, Size)
  BY <1>2, <1>4, SliceFacts
<1>6. all \in Seq(Keys) /\ Len(all) = Len(rows) + Len(got)
  BY <1>3, <1>4, <1>5, JoinFacts
<1>7. UNCHANGED <<walk, service, began, list, inserted, deleted, edits, Size, Cap>>
  BY <1>1, SameService
<1>8. CappedOK' /\ ToldOK' /\ OnceOK' /\ Counted'
  BY <1>1, <1>7 DEF IInv, CappedOK, ToldOK, OnceOK, Counted
<1>9. service.heeds =>
        /\ Len(got) < Size => Len(list) <= Place + Len(got)
        /\ Len(got) = 0 <=> Len(list) <= Place
  BY <1>4, <1>5, PageLength
<1>10. ASSUME rows' \in Seq(Keys), skip' \in Nat, end' \in {"pagination", "limit", "done", "none"}
       PROVE  TypeOK'
  <2>1. pages' \in 0 .. walk.pages
    BY <1>1, <1>4
  <2>2. ListingTypeOK'
    BY <1>4, <1>7, <1>10, <2>1 DEF TypeOK, ListingTypeOK, Ends
  <2>3. PageWalkTypeOK' /\ NumberedWalkTypeOK' /\ OffsetWalkTypeOK'
    BY <1>1, <1>4, <1>7 DEF TypeOK, PageWalkTypeOK, NumberedWalkTypeOK, OffsetWalkTypeOK
  <2> QED
    BY <2>2, <2>3 DEF TypeOK
<1>11. CASE Len(all) > MaxItems
  <2>1. end' = "limit" /\ rows' = rows /\ skip' = skip
    BY <1>1, <1>11 DEF Stop
  <2>2. TypeOK'
    BY <1>4, <1>10, <2>1
  <2> QED
    BY <1>1, <1>8, <2>1, <2>2, GivenUp
<1>12. CASE ~(Len(all) > MaxItems) /\ next = 0
  <2>1. /\ rows' = all /\ end' = IF RepeatedRecords(all) THEN "pagination" ELSE "done"
        /\ skip' = skip
    BY <1>1, <1>12
  <2>2. TypeOK'
    BY <1>4, <1>6, <1>10, <2>1
  <2>3. CASE RepeatedRecords(all)
    <3>1. end' = "pagination"
      BY <2>1, <2>3
    <3>2. ASSUME Stable, Sound PROVE FALSE
      <4>1. service.heeds
        BY <1>1, <3>2 DEF Sound, OffsetSound
      <4>2. IsRead(all, list)
        BY <1>1, <1>3, <1>4, <1>5, <3>2, <4>1, Reading
      <4> QED
        BY <1>4, <1>6, <2>3, <4>2, ReadFacts DEF RepeatedRecords
    <3> QED
      BY <1>1, <1>8, <2>2, <3>1, <3>2, GivenUp
  <2>4. CASE ~RepeatedRecords(all)
    <3>1. end' = "done" /\ rows' = rows \o got /\ (walk.keyed => NoRepeat(rows'))
      BY <1>3, <2>1, <2>4 DEF RepeatedRecords
    <3>2. TellsEnd => service.heeds /\ Len(list) <= Place + Len(got)
      <4>1. SUFFICES ASSUME TellsEnd PROVE service.heeds /\ Len(list) <= Place + Len(got)
        OBVIOUS
      <4>2. service.heeds
        BY <1>1, <4>1 DEF TellsEnd, OffsetTellsEnd
      <4>3. CASE service.next = "always" \/ skip + Len(got) < Len(list)
        <5>1. skip = 0 /\ Len(got) = 0
          BY <1>2, <1>4, <1>5, <1>12, <4>3
        <5> QED
          BY <1>4, <1>9, <4>2, <5>1
      <4>4. CASE ~(service.next = "always" \/ skip + Len(got) < Len(list))
        BY <1>4, <1>5, <4>2, <4>4
      <4> QED
        BY <4>3, <4>4
    <3> QED
      BY <1>1, <1>4, <1>5, <1>8, <2>2, <3>1, <3>2, Finished
  <2> QED
    BY <2>3, <2>4
<1>13. CASE ~(Len(all) > MaxItems) /\ next # 0 /\ (got = <<>> \/ next <= skip)
  <2>1. end' = "pagination" /\ rows' = rows /\ skip' = skip
    BY <1>1, <1>13 DEF Stop
  <2>2. TypeOK'
    BY <1>4, <1>10, <2>1
  <2>3. ASSUME Stable, Sound PROVE FALSE
    <3>1. service.heeds /\ service.next = "more"
      BY <1>1, <2>3 DEF Sound, OffsetSound
    <3>2. next = skip + Len(got) /\ skip + Len(got) < Len(list)
      BY <1>2, <1>13, <3>1
    <3>3. Len(got) > 0
      BY <1>4, <1>5, <1>9, <3>1, <3>2
    <3> QED
      BY <1>4, <1>5, <1>13, <3>2, <3>3
  <2> QED
    BY <1>1, <1>8, <2>1, <2>2, <2>3, GivenUp
<1>14. CASE ~(Len(all) > MaxItems) /\ next # 0 /\ ~(got = <<>> \/ next <= skip) /\ pages + 1 >= walk.pages
  <2>1. end' = "limit" /\ rows' = rows /\ skip' = skip
    BY <1>1, <1>14 DEF Stop
  <2>2. TypeOK'
    BY <1>4, <1>10, <2>1
  <2> QED
    BY <1>1, <1>8, <2>1, <2>2, GivenUp
<1>15. CASE ~(Len(all) > MaxItems) /\ next # 0 /\ ~(got = <<>> \/ next <= skip) /\ ~(pages + 1 >= walk.pages)
  <2>1. rows' = rows \o got /\ skip' = next /\ end' = "none"
    BY <1>1, <1>3, <1>15
  <2>2. next = skip + Len(got)
    BY <1>2, <1>15
  <2>3. TypeOK'
    BY <1>3, <1>4, <1>5, <1>6, <1>10, <2>1, <2>2
  <2>4. GoingOn'
    <3>1. skip' = Len(rows') /\ pages' < walk.pages
      BY <1>1, <1>3, <1>4, <1>5, <1>6, <1>15, <2>1, <2>2
    <3> QED
      BY <1>1, <1>7, <3>1 DEF GoingOn
  <2>5. Place' = Place + Len(got)
    BY <1>1, <1>4, <1>7, <2>1, <2>2 DEF Place
  <2> QED
    BY <1>1, <1>4, <1>5, <1>8, <2>1, <2>3, <2>4, <2>5, GoesOn
<1> QED
  BY <1>11, <1>12, <1>13, <1>14, <1>15

\* What a sweep knows after a page, and when it takes it for the last one.
LEMMA SweepFacts ==
    ASSUME IInv, walk.kind = "sweep"
    PROVE  LET now == Learned(Sent)
               expected == ExpectedLast(Sent, now)
               last == SweptLast(Sent, now)
           IN  /\ now.size = IF "size" \in service.tells THEN Size ELSE walk.limit
               /\ now.pages = IF "pages" \in service.tells THEN PagesOf(Len(list), Size) ELSE NoTotal
               /\ now.elements = IF "elements" \in service.tells THEN Len(list) ELSE NoTotal
               /\ now \in [DOMAIN Untold -> Nat \cup {NoTotal}]
               /\ Agrees(Sent.size, told.size)
               /\ "pages" \in service.tells => expected = (Len(list) <= Place + Size)
               /\ "pages" \notin service.tells /\ "elements" \in service.tells =>
                    expected = (Swept(Sent) = Len(list))
               /\ "pages" \notin service.tells /\ "elements" \notin service.tells =>
                    expected = NoTotal
               /\ Sent.last # NoTotal => last = Sent.last
               /\ Sent.last = NoTotal /\ expected # NoTotal => last = expected
               /\ Sent.last = NoTotal /\ expected = NoTotal => last = (Len(Sent.rows) < now.size)
<1> DEFINE now == Learned(Sent)
           expected == ExpectedLast(Sent, now)
           last == SweptLast(Sent, now)
<1>1. /\ TypeOK /\ walk.kind \in {"number", "sweep"} /\ NoTotal \notin Nat /\ NoTotal \notin BOOLEAN
      /\ Len(list) \in Nat /\ Size \in Nat \ {0} /\ walk.limit \in Nat \ {0}
  BY Numbers, Fields DEF IInv
<1>2. /\ Sent.size = IF "size" \in service.tells THEN Size ELSE NoTotal
      /\ Sent.pages = IF "pages" \in service.tells THEN PagesOf(Len(list), Size) ELSE NoTotal
      /\ Sent.elements = IF "elements" \in service.tells THEN Len(list) ELSE NoTotal
      /\ PagesOf(Len(list), Size) \in Nat
      /\ pages + 1 >= PagesOf(Len(list), Size) <=> Place + Size >= Len(list)
  BY <1>1, SentFacts
<1>3. /\ told.pages # NoTotal => "pages" \in service.tells
      /\ told.elements # NoTotal => "elements" \in service.tells
      /\ told.size # NoTotal => told.size = IF "size" \in service.tells THEN Size ELSE walk.limit
  BY DEF IInv, ToldOK
<1>4. now.size = IF "size" \in service.tells THEN Size ELSE walk.limit
  BY <1>1, <1>2, <1>3 DEF Learned, Known
<1>5. now.pages = IF "pages" \in service.tells THEN PagesOf(Len(list), Size) ELSE NoTotal
  BY <1>1, <1>2, <1>3 DEF Learned, Known
<1>6. now.elements = IF "elements" \in service.tells THEN Len(list) ELSE NoTotal
  BY <1>1, <1>2, <1>3 DEF Learned, Known
<1>7. now \in [DOMAIN Untold -> Nat \cup {NoTotal}]
  <2>1. now = [size |-> now.size, pages |-> now.pages, elements |-> now.elements]
    BY DEF Learned
  <2>2. DOMAIN Untold = {"size", "pages", "elements"}
    BY DEF Untold
  <2>3. now.size \in Nat \cup {NoTotal} /\ now.pages \in Nat \cup {NoTotal} /\ now.elements \in Nat \cup {NoTotal}
    BY <1>1, <1>2, <1>4, <1>5, <1>6
  <2> HIDE DEF now
  <2> QED
    BY <2>1, <2>2, <2>3
<1>8. Agrees(Sent.size, told.size)
  BY <1>2, <1>3 DEF Agrees
<1> HIDE DEF now
<1>9. "pages" \in service.tells => expected = (Len(list) <= Place + Size)
  <2>1. SUFFICES ASSUME "pages" \in service.tells PROVE expected = (Len(list) <= Place + Size)
    OBVIOUS
  <2>2. now.pages # NoTotal /\ now.pages = PagesOf(Len(list), Size)
    BY <1>1, <1>2, <1>5, <2>1
  <2>3. expected = (pages + 1 >= PagesOf(Len(list), Size))
    BY <2>2 DEF ExpectedLast
  <2>4. (Place + Size >= Len(list)) <=> (Len(list) <= Place + Size)
    OBVIOUS
  <2> QED
    BY <1>2, <2>3, <2>4
<1>10. "pages" \notin service.tells /\ "elements" \in service.tells =>
         expected = (Swept(Sent) = Len(list))
  BY <1>1, <1>5, <1>6 DEF ExpectedLast
<1>11. "pages" \notin service.tells /\ "elements" \notin service.tells => expected = NoTotal
  BY <1>5, <1>6 DEF ExpectedLast
<1>12. /\ Sent.last # NoTotal => last = Sent.last
       /\ Sent.last = NoTotal /\ expected # NoTotal => last = expected
       /\ Sent.last = NoTotal /\ expected = NoTotal => last = (Len(Sent.rows) < now.size)
  BY DEF SweptLast, Known
<1> QED
  BY <1>4, <1>5, <1>6, <1>7, <1>8, <1>9, <1>10, <1>11, <1>12 DEF now

\* A list that does not change is swept without a refusal by a service that
\* contradicts nothing.
LEMMA SweepSound ==
    ASSUME IInv, walk.kind = "sweep", end = "none", Stable, Sound,
           NEW now, now = Learned(Sent)
    PROVE  /\ Agrees(Sent.size, told.size)
           /\ Sent.number \in {NoTotal, pages}
           /\ SameCounts(Sent)
           /\ CountsFit(Sent, now)
           /\ ~Repeats(Sent.rows)
           /\ LastAgrees(Sent, now)
           /\ Sent.rows = <<>> => SweptLast(Sent, now)
<1> DEFINE got == Sent.rows
           count == PagesOf(Len(list), Size)
<1>1. /\ service.heeds /\ service.last # "never"
      /\ "size" \in service.tells \/ service.size >= walk.limit
  BY DEF Sound, NumberedSound
<1>2. /\ TypeOK /\ Len(list) \in Nat /\ Len(rows) \in Nat /\ Size \in Nat \ {0} /\ Place \in Nat
      /\ Size = walk.limit \/ Size = service.size
      /\ Size <= walk.limit /\ walk.limit \in Nat /\ service.size \in Nat
      /\ NoTotal \notin Nat /\ NoTotal \notin BOOLEAN /\ pages \in Nat /\ Place = pages * Size
      /\ service.last \in {"told", "none"}
  BY <1>1, Numbers, Fields DEF IInv, Place
<1>3. /\ got = Slice(Place, Size) /\ got \in Seq(Keys) /\ Len(got) \in Nat
      /\ Sent.pages = IF "pages" \in service.tells THEN count ELSE NoTotal
      /\ Sent.elements = IF "elements" \in service.tells THEN Len(list) ELSE NoTotal
      /\ Sent.number \in {NoTotal, pages}
      /\ count \in Nat /\ (count = 0 <=> Len(list) = 0)
      /\ pages >= count <=> Place >= Len(list)
  BY <1>1, <1>2, SentFacts
<1>4. /\ Len(rows) = Least(Len(list), Place)
      /\ told.pages \in {NoTotal, count} /\ told.elements \in {NoTotal, Len(list)}
      /\ "pages" \in service.tells => pages = 0 \/ Place < Len(list)
  BY <1>1 DEF IInv, InStep
<1> HIDE DEF got, count
<1>5. now.size = Size
  BY <1>1, <1>2, SweepFacts
<1>6. /\ now.pages = IF "pages" \in service.tells THEN count ELSE NoTotal
      /\ now.elements = IF "elements" \in service.tells THEN Len(list) ELSE NoTotal
      /\ Agrees(Sent.size, told.size)
  BY SweepFacts DEF count
<1>7. /\ Len(list) > Place => Len(got) = Least(Size, Len(list) - Place)
      /\ Len(got) = 0 <=> Len(list) <= Place
  <2>1. TypeOK /\ service.heeds /\ Place \in Nat /\ Size \in Nat \ {0} /\ got = Slice(Place, Size)
    BY <1>1, <1>2, <1>3
  <2> QED
    BY <2>1, PageLength
<1>8. Len(rows) + Len(got) = Least(Len(list), Place + Size)
  <2>1. Len(rows) = IF Len(list) < Place THEN Len(list) ELSE Place
    BY <1>4 DEF Least
  <2>2. Len(list) > Place =>
          Len(got) = IF Size < Len(list) - Place THEN Size ELSE Len(list) - Place
    BY <1>7 DEF Least
  <2>3. Least(Len(list), Place + Size) =
          IF Len(list) < Place + Size THEN Len(list) ELSE Place + Size
    BY DEF Least
  <2>4. CASE Len(list) > Place
    <3>1. Len(rows) = Place /\ Place \in Nat /\ Size \in Nat /\ Len(list) \in Nat
      BY <1>2, <2>1, <2>4
    <3>2. CASE Size < Len(list) - Place
      BY <2>2, <2>3, <2>4, <3>1, <3>2
    <3>3. CASE ~(Size < Len(list) - Place)
      BY <2>2, <2>3, <2>4, <3>1, <3>3
    <3> QED
      BY <3>2, <3>3
  <2>5. CASE ~(Len(list) > Place)
    <3>1. Len(got) = 0
      BY <1>2, <1>7, <2>5
    <3> QED
      BY <1>2, <2>1, <2>3, <2>5, <3>1
  <2> QED
    BY <2>4, <2>5
<1>9. Swept(Sent) = Len(list) <=> Len(list) <= Place + Size
  BY <1>2, <1>8 DEF Swept, Least, got
<1>10. SameCounts(Sent)
  BY <1>3, <1>4 DEF SameCounts, Agrees
<1>11. CountsFit(Sent, now)
  <2>1. ASSUME now.pages # NoTotal, now.elements # NoTotal
        PROVE  now.pages = PagesOf(now.elements, now.size)
    BY <1>5, <1>6, <2>1 DEF count
  <2>2. ASSUME now.pages # NoTotal
        PROVE  /\ pages < now.pages \/ (pages = 0 /\ now.pages = 0)
               /\ now.pages = 0 => Sent.rows = <<>>
    <3>1. now.pages = count /\ (pages = 0 \/ Place < Len(list))
      BY <1>4, <1>6, <2>2
    <3>2. pages < count \/ (pages = 0 /\ count = 0)
      BY <1>2, <1>3, <3>1
    <3>3. count = 0 => got = <<>>
      BY <1>2, <1>3, <1>7
    <3> QED
      BY <3>1, <3>2, <3>3 DEF got
  <2>3. ASSUME now.elements # NoTotal
        PROVE  Len(Sent.rows) = Least(now.size, IF now.elements > pages * now.size
                                      THEN now.elements - pages * now.size ELSE 0)
    <3>1. now.elements = Len(list) /\ now.size = Size /\ pages * now.size = Place
      BY <1>2, <1>5, <1>6, <2>3
    <3>2. Len(got) = Least(Size, IF Len(list) > Place THEN Len(list) - Place ELSE 0)
      BY <1>2, <1>3, <1>7 DEF Least
    <3> QED
      BY <3>1, <3>2 DEF got
  <2> QED
    BY <2>1, <2>2, <2>3 DEF CountsFit
<1>12. ~Repeats(Sent.rows)
  BY <1>1, <1>2, <1>3, Reading DEF got
<1>13. /\ Sent.last # NoTotal => Sent.last = (Len(list) <= Place + Size)
       /\ ExpectedLast(Sent, now) # NoTotal =>
            ExpectedLast(Sent, now) = (Len(list) <= Place + Size)
  <2>1. Sent.last # NoTotal => Sent.last = (Len(list) <= Place + Size)
    <3>1. CASE service.last = "told"
      BY <1>1, <1>2, <3>1, SentLast
    <3>2. CASE service.last = "none"
      BY <1>2, <3>2, SentLast
    <3> QED
      BY <1>2, <3>1, <3>2
  <2>2. ASSUME ExpectedLast(Sent, now) # NoTotal
        PROVE  ExpectedLast(Sent, now) = (Len(list) <= Place + Size)
    <3>1. CASE "pages" \in service.tells
      BY <3>1, SweepFacts
    <3>2. CASE "pages" \notin service.tells /\ "elements" \in service.tells
      <4>1. ExpectedLast(Sent, now) = (Swept(Sent) = Len(list))
        BY <3>2, SweepFacts
      <4> QED
        BY <1>9, <4>1
    <3>3. CASE "pages" \notin service.tells /\ "elements" \notin service.tells
      BY <2>2, <3>3, SweepFacts
    <3> QED
      BY <3>1, <3>2, <3>3
  <2> QED
    BY <2>1, <2>2
<1>14. Agrees(Sent.last, ExpectedLast(Sent, now))
  BY <1>13 DEF Agrees
<1>15. \/ SweptLast(Sent, now) = (Len(list) <= Place + Size)
       \/ /\ Sent.last = NoTotal /\ ExpectedLast(Sent, now) = NoTotal
          /\ SweptLast(Sent, now) = (Len(got) < Size)
  <2>1. CASE Sent.last # NoTotal
    BY <1>13, <2>1, SweepFacts
  <2>2. CASE Sent.last = NoTotal /\ ExpectedLast(Sent, now) # NoTotal
    BY <1>13, <2>2, SweepFacts
  <2>3. CASE Sent.last = NoTotal /\ ExpectedLast(Sent, now) = NoTotal
    BY <1>5, <2>3, SweepFacts DEF got
  <2> QED
    BY <2>1, <2>2, <2>3
<1>16. ExpectedLast(Sent, now) # NoTotal \/ (now.pages = NoTotal /\ now.elements = NoTotal)
  <2>1. CASE "pages" \in service.tells
    <3>1. ExpectedLast(Sent, now) \in BOOLEAN
      <4>1. (Len(list) <= Place + Size) \in BOOLEAN
        OBVIOUS
      <4>2. ExpectedLast(Sent, now) = (Len(list) <= Place + Size)
        BY <2>1, SweepFacts
      <4> QED
        BY <4>1, <4>2, Zenon
    <3> QED
      BY <1>2, <3>1
  <2>2. CASE "pages" \notin service.tells /\ "elements" \in service.tells
    <3>1. ExpectedLast(Sent, now) \in BOOLEAN
      <4>1. (Swept(Sent) = Len(list)) \in BOOLEAN
        OBVIOUS
      <4>2. ExpectedLast(Sent, now) = (Swept(Sent) = Len(list))
        BY <2>2, SweepFacts
      <4> QED
        BY <4>1, <4>2, Zenon
    <3> QED
      BY <1>2, <3>1
  <2>3. CASE "pages" \notin service.tells /\ "elements" \notin service.tells
    BY <1>6, <2>3
  <2> QED
    BY <2>1, <2>2, <2>3
<1>17. LastAgrees(Sent, now)
  <2>1. ASSUME now.pages # NoTotal, now.pages > 0
        PROVE  IF SweptLast(Sent, now) THEN Sent.rows # <<>> ELSE Len(Sent.rows) = now.size
    <3>1. SweptLast(Sent, now) = (Len(list) <= Place + Size)
      BY <1>15, <1>16, <2>1
    <3>2. Place < Len(list)
      <4>1. "pages" \in service.tells /\ count > 0
        BY <1>6, <2>1
      <4> QED
        BY <1>2, <1>3, <1>4, <4>1
    <3>3. Len(got) > 0
      BY <1>2, <1>3, <1>7, <3>2
    <3>4. ~(Len(list) <= Place + Size) => Len(got) = Size
      BY <1>2, <1>7, <3>2 DEF Least
    <3>5. SweptLast(Sent, now) => Sent.rows # <<>>
      BY <3>3 DEF got
    <3>6. ~SweptLast(Sent, now) => Len(Sent.rows) = now.size
      BY <1>5, <3>1, <3>4 DEF got
    <3> QED
      BY <3>5, <3>6
  <2>2. ASSUME SweptLast(Sent, now), now.elements # NoTotal PROVE Swept(Sent) = now.elements
    <3>1. SweptLast(Sent, now) = (Len(list) <= Place + Size)
      BY <1>15, <1>16, <2>2
    <3>2. now.elements = Len(list)
      BY <1>6, <2>2
    <3> QED
      BY <1>9, <2>2, <3>1, <3>2
  <2> QED
    BY <1>14, <2>1, <2>2 DEF LastAgrees
<1>18. ASSUME Sent.rows = <<>> PROVE SweptLast(Sent, now)
  <2>1. Len(got) = 0
    BY <1>18 DEF got
  <2>2. Len(list) <= Place + Size /\ Len(got) < Size
    BY <1>2, <1>7, <2>1
  <2> QED
    BY <1>15, <2>2
<1> QED
  BY <1>3, <1>6, <1>10, <1>11, <1>12, <1>17, <1>18

\* A sweep that was told how many rows there are and accepts a page: it has the
\* rows of full pages, the page is full or the last one, and while rows are not
\* both added and removed it has the first rows of the list as it is.
LEMMA SweepCounts ==
    ASSUME IInv, walk.kind = "sweep", end = "none", "elements" \in service.tells,
           NEW now, now = Learned(Sent), NEW got, got = Sent.rows,
           Swept(Sent) <= MaxItems, SameCounts(Sent), CountsFit(Sent, now), ~Repeats(got),
           LastAgrees(Sent, now)
    PROVE  /\ Len(rows) = Place
           /\ SweptLast(Sent, now) => Len(rows) + Len(got) = Len(list)
           /\ ~SweptLast(Sent, now) /\ got # <<>> => now.size = Size /\ Len(got) = Size
           /\ ~(inserted /\ deleted) => \A all : all = rows \o got => IsRead(all, list)
<1>1. /\ TypeOK /\ rows \in Seq(Keys) /\ Len(rows) \in Nat /\ Len(list) \in Nat
      /\ Size \in Nat \ {0} /\ Place \in Nat /\ pages \in Nat /\ Place = pages * Size
      /\ Size <= walk.limit /\ walk.limit \in Nat /\ NoTotal \notin Nat /\ NoTotal \notin BOOLEAN
      /\ walk.start = 0 /\ walk.kind \in {"number", "sweep"}
      /\ MaxItems \in Nat \ {0}
  BY Numbers, Fields DEF IInv, Place
<1>2. Room = MaxItems - Len(rows)
  <2>1. walk.max = 0
    BY <1>1, Fields
  <2> QED
    BY <2>1 DEF Room, Cap, UserCap
<1>3. /\ got \in Seq(Keys) /\ Len(got) \in Nat /\ got = Slice(Place, Size)
      /\ Sent.elements = Len(list)
  BY <1>1, SentFacts
<1>4. /\ now.elements = Len(list)
      /\ now.size = IF "size" \in service.tells THEN Size ELSE walk.limit
      /\ now.pages # NoTotal <=> "pages" \in service.tells
  <2>1. PagesOf(Len(list), Size) \in Nat
    BY <1>1, SentFacts
  <2> QED
    BY <1>1, <2>1, SweepFacts
<1>5. pages = 0 => rows = <<>>
  BY DEF IInv, ToldOK
<1>6. pages > 0 =>
        /\ told.elements = Len(list) /\ now.size = Size /\ Len(rows) = pages * Size
        /\ ~(inserted /\ deleted) => IsRead(rows, list)
  <2>1. SUFFICES ASSUME pages > 0
                 PROVE  /\ told.elements = Len(list) /\ now.size = Size /\ Len(rows) = pages * Size
                        /\ ~(inserted /\ deleted) => IsRead(rows, list)
    OBVIOUS
  <2>2. /\ told.elements # NoTotal /\ told.size = Size /\ Len(rows) = pages * Size
        /\ ~(inserted /\ deleted) /\ Len(list) = told.elements => IsRead(rows, list)
    BY <2>1 DEF IInv, Counted
  <2>3. told.elements = Len(list)
    BY <1>1, <1>3, <2>2 DEF SameCounts, Agrees
  <2>4. now.size = Size
    <3>1. told.size # NoTotal
      BY <1>1, <2>2
    <3> QED
      BY <1>4, <2>2, <3>1 DEF IInv, ToldOK
  <2> QED
    BY <2>2, <2>3, <2>4
<1>7. Len(rows) = Place
  <2>1. CASE pages = 0
    BY <1>1, <1>5, <2>1
  <2>2. CASE pages > 0
    BY <1>1, <1>6, <2>2
  <2> QED
    BY <1>1, <2>1, <2>2
<1>8. SweptLast(Sent, now) => Len(rows) + Len(got) = Len(list)
  BY <1>1, <1>4 DEF LastAgrees, Swept
<1>9. Len(got) <= Size
  <2>1. Len(Slice(Place, Size)) <= Size
    <3>1. PICK from \in Nat : from = IF service.heeds THEN Place ELSE 0
      BY <1>1
    <3>2. Len(Slice(Place, Size)) = IF Len(list) >= from + Size THEN Size
                                    ELSE IF Len(list) >= from THEN Len(list) - from ELSE 0
      <4>1. TypeOK /\ Place \in Nat /\ Size \in Nat
        BY <1>1
      <4> QED
        BY <3>1, <4>1, SliceFacts, ZenonT(60)
    <3> QED
      BY <1>1, <3>1, <3>2
  <2> QED
    BY <1>3, <2>1
<1>10. ASSUME Len(rows) + Len(got) = Len(list) PROVE SweptLast(Sent, now)
  <2>1. Len(list) <= Place + Size /\ Swept(Sent) = Len(list)
    BY <1>1, <1>3, <1>7, <1>9, <1>10 DEF Swept
  <2>2. ExpectedLast(Sent, now) = TRUE
    <3>1. CASE "pages" \in service.tells
      BY <2>1, <3>1, SweepFacts
    <3>2. CASE "pages" \notin service.tells
      BY <2>1, <3>2, SweepFacts
    <3> QED
      BY <3>1, <3>2
  <2>3. ExpectedLast(Sent, now) # NoTotal
    BY <1>1, <2>2
  <2>4. CASE Sent.last # NoTotal
    BY <2>2, <2>3, <2>4, SweepFacts DEF LastAgrees, Agrees
  <2>5. CASE Sent.last = NoTotal
    BY <2>2, <2>3, <2>5, SweepFacts
  <2> QED
    BY <2>4, <2>5
<1>11. ASSUME ~SweptLast(Sent, now), got # <<>> PROVE now.size = Size /\ Len(got) = Size
  <2>1. Len(got) = Least(now.size, IF Len(list) > pages * now.size
                                   THEN Len(list) - pages * now.size ELSE 0)
    BY <1>1, <1>4 DEF CountsFit
  <2>2. Len(got) > 0
    BY <1>3, <1>11
  <2>3. pages * now.size = Place
    <3>1. CASE pages = 0
      <4>1. now.size \in Nat
        BY <1>1, <1>4
      <4> QED
        BY <1>1, <3>1, <4>1
    <3>2. CASE pages > 0
      BY <1>1, <1>6, <3>2
    <3> QED
      BY <1>1, <3>1, <3>2
  <2>4. Len(got) = now.size \/ (Len(got) = Len(list) - Place /\ Len(list) > Place)
    <3>1. Len(got) = Least(now.size, IF Len(list) > Place THEN Len(list) - Place ELSE 0)
      BY <2>1, <2>3
    <3> QED
      BY <2>2, <3>1 DEF Least
  <2>5. ~(Len(got) = Len(list) - Place /\ Len(list) > Place)
    BY <1>1, <1>3, <1>7, <1>10, <1>11
  <2>6. Len(got) = now.size
    BY <2>4, <2>5
  <2> QED
    BY <1>1, <1>3, <1>4, <1>9, <2>6
<1>12. ASSUME ~(inserted /\ deleted), NEW all, all = rows \o got PROVE IsRead(all, list)
  <2>1. IsRead(rows, list)
    <3>1. CASE pages = 0
      BY <1>5, <3>1 DEF IsRead
    <3>2. CASE pages > 0
      BY <1>6, <1>12, <3>2
    <3> QED
      BY <1>1, <3>1, <3>2
  <2>2. PICK from \in Nat : from = IF service.heeds THEN Place ELSE 0
    BY <1>1
  <2>3. /\ Len(got) = IF Len(list) >= from + Size THEN Size
                      ELSE IF Len(list) >= from THEN Len(list) - from ELSE 0
        /\ \A i \in 1 .. Len(got) : got[i] = list[from + i]
    <3> DEFINE page == Slice(Place, Size)
    <3>1. Len(page) = IF Len(list) >= from + Size THEN Size
                      ELSE IF Len(list) >= from THEN Len(list) - from ELSE 0
      <4>1. TypeOK /\ Place \in Nat /\ Size \in Nat
        BY <1>1
      <4> QED
        BY <2>2, <4>1, SliceFacts, ZenonT(60)
    <3>2. \A i \in 1 .. Len(page) : page[i] = list[from + i]
      BY <1>1, <2>2, SliceFacts
    <3> HIDE DEF page
    <3>3. got = page
      BY <1>3 DEF page
    <3> QED
      BY <3>1, <3>2, <3>3
  <2>4. ASSUME got # <<>> PROVE from = Place
    <3>1. SUFFICES ASSUME ~service.heeds, Place # 0 PROVE FALSE
      BY <2>2
    <3>2. Len(got) > 0 /\ from = 0 /\ Len(rows) > 0
      BY <1>1, <1>3, <1>7, <2>2, <2>4, <3>1
    <3>3. got[1] = list[1]
      BY <1>3, <2>3, <3>2
    <3>4. rows[1] = list[1]
      BY <1>1, <2>1, <3>2 DEF IsRead
    <3>5. got[1] \in Range(rows)
      BY <1>1, <3>2, <3>3, <3>4 DEF Range
    <3>6. 1 \in 1 .. Least(Len(got), Room + 1)
      <4>1. Len(rows) + Len(got) <= MaxItems
        BY DEF Swept
      <4>2. Room + 1 > 1 /\ Room + 1 \in Int
        BY <1>1, <1>2, <1>3, <3>2, <4>1
      <4> QED
        BY <1>3, <3>2, <4>2 DEF Least
    <3> QED
      BY <3>5, <3>6 DEF Repeats
  <2>5. ASSUME NEW i \in 1 .. Len(got)
        PROVE  /\ got[i] = list[walk.start + Len(rows) + i]
               /\ walk.start + Len(rows) + Len(got) <= Len(list)
    <3>1. from = walk.start + Len(rows) /\ Len(got) > 0
      BY <1>1, <1>3, <1>7, <2>4, <2>5
    <3> QED
      BY <1>1, <1>3, <2>3, <3>1
  <2> QED
    BY <1>1, <1>3, <1>12, <2>1, <2>5, ReadJoin
<1> QED
  BY <1>7, <1>8, <1>11, <1>12

\* A page of an inventory sweep.
LEMMA SweepStep ==
    ASSUME IInv, SweepPage, UNCHANGED capped PROVE IInv'
<1> DEFINE got == Sent.rows
           now == Learned(Sent)
           last == SweptLast(Sent, now)
           refused == \/ Sent.number \notin {NoTotal, pages}
                      \/ ~SameCounts(Sent)
                      \/ ~CountsFit(Sent, now)
                      \/ Repeats(got)
                      \/ ~LastAgrees(Sent, now)
<1>1. /\ walk.kind = "sweep" /\ end = "none" /\ pages < walk.pages /\ pages' = pages + 1
      /\ UNCHANGED <<given, world, skip, capped>> /\ told' = now
      /\ IF ~Agrees(Sent.size, told.size) THEN Stop("pagination")
         ELSE IF Swept(Sent) > MaxItems THEN Stop("limit")
         ELSE IF refused THEN Stop("pagination")
         ELSE IF last THEN rows' = rows \o got /\ end' = "done"
         ELSE IF got = <<>> THEN Stop("pagination")
         ELSE rows' = rows \o got /\ end' = "none"
  BY DEF SweepPage, PagesLeft
<1>2. /\ ~refused => /\ Sent.number \in {NoTotal, pages} /\ SameCounts(Sent)
                     /\ CountsFit(Sent, now) /\ ~Repeats(got) /\ LastAgrees(Sent, now)
      /\ refused => ~(/\ Sent.number \in {NoTotal, pages} /\ SameCounts(Sent)
                      /\ CountsFit(Sent, now) /\ ~Repeats(got) /\ LastAgrees(Sent, now))
  OBVIOUS
<1> HIDE DEF got, now, last, refused
<1>3. /\ TypeOK /\ rows \in Seq(Keys) /\ Len(rows) \in Nat /\ list \in Seq(Keys) /\ Len(list) \in Nat
      /\ Place \in Nat /\ Place = pages * Size /\ Size \in Nat \ {0} /\ Size <= walk.limit
      /\ Size = walk.limit \/ Size = service.size
      /\ NoTotal \notin Nat /\ NoTotal \notin BOOLEAN
      /\ walk.limit \in Nat \ {0} /\ service.size \in Nat \ {0}
      /\ pages \in Nat /\ walk.pages \in Nat /\ MaxItems \in Nat \ {0}
      /\ walk.kind \in {"number", "sweep"}
  BY <1>1, Numbers, Fields DEF IInv, Place
<1>4. /\ got = Slice(Place, Size) /\ got \in Seq(Keys) /\ Len(got) \in Nat
      /\ PagesOf(Len(list), Size) \in Nat
  BY <1>3, SentFacts DEF got
<1>5. /\ now.size = IF "size" \in service.tells THEN Size ELSE walk.limit
      /\ now.pages = IF "pages" \in service.tells THEN PagesOf(Len(list), Size) ELSE NoTotal
      /\ now.elements = IF "elements" \in service.tells THEN Len(list) ELSE NoTotal
      /\ now \in [DOMAIN Untold -> Nat \cup {NoTotal}]
      /\ Agrees(Sent.size, told.size)
  BY <1>1, SweepFacts DEF now
<1>6. UNCHANGED <<walk, service, began, list, inserted, deleted, edits, Size, Cap>>
  BY <1>1, SameService
<1>7. CappedOK' /\ ToldOK'
  <2>1. CappedOK'
    BY <1>1, <1>6 DEF IInv, CappedOK
  <2>2. pages' # 0
    BY <1>1, <1>3
  <2> QED
    BY <1>1, <1>3, <1>5, <1>6, <2>1, <2>2 DEF ToldOK
<1>8. ASSUME rows' \in Seq(Keys), end' \in {"pagination", "limit", "done", "none"} PROVE TypeOK'
  <2>1. pages' \in 0 .. walk.pages
    <3>1. pages < walk.pages
      BY <1>1
    <3> QED
      BY <1>1, <1>3, <3>1
  <2>2. ListingTypeOK'
    BY <1>1, <1>3, <1>6, <1>8, <2>1 DEF TypeOK, ListingTypeOK, Ends
  <2>3. PageWalkTypeOK' /\ NumberedWalkTypeOK' /\ OffsetWalkTypeOK'
    BY <1>1, <1>3, <1>5, <1>6
       DEF TypeOK, PageWalkTypeOK, NumberedWalkTypeOK, OffsetWalkTypeOK, Untold
  <2> QED
    BY <2>2, <2>3 DEF TypeOK
<1>9. ASSUME Stable, Sound
      PROVE  ~refused /\ (got = <<>> => last)
  <2>1. /\ Sent.number \in {NoTotal, pages} /\ SameCounts(Sent) /\ CountsFit(Sent, now)
        /\ ~Repeats(got) /\ LastAgrees(Sent, now)
        /\ got = <<>> => last
    BY <1>1, <1>9, SweepSound DEF got, last, now
  <2> QED
    BY <1>2, <2>1
<1>10. ASSUME Stop("pagination"), refused \/ (got = <<>> /\ ~last) PROVE IInv'
  <2>1. end' = "pagination" /\ rows' = rows
    BY <1>10 DEF Stop
  <2>2. OnceOK'
    BY <1>6, <2>1 DEF IInv, OnceOK, NoRepeat
  <2>3. TypeOK'
    BY <1>3, <1>8, <2>1
  <2>4. ~(Stable /\ Sound)
    BY <1>9, <1>10
  <2> QED
    BY <1>1, <1>7, <2>1, <2>2, <2>3, <2>4, GivenUp
<1>11. ASSUME Stop("limit") PROVE IInv'
  <2>1. end' = "limit" /\ rows' = rows
    BY <1>11 DEF Stop
  <2>2. OnceOK'
    BY <1>6, <2>1 DEF IInv, OnceOK, NoRepeat
  <2>3. TypeOK'
    BY <1>3, <1>8, <2>1
  <2> QED
    BY <1>1, <1>7, <2>1, <2>2, <2>3, GivenUp
<1>12. ASSUME ~refused, Swept(Sent) <= MaxItems, rows' = rows \o got
       PROVE  /\ rows' \in Seq(Keys) /\ Len(rows') = Len(rows) + Len(got)
              /\ walk.keyed => NoRepeat(rows')
  <2>1. rows' \in Seq(Keys) /\ Len(rows') = Len(rows) + Len(got)
    BY <1>3, <1>4, <1>12, JoinFacts
  <2>2. ASSUME walk.keyed PROVE NoRepeat(rows')
    <3>1. NoRepeat(rows)
      BY <1>1, <2>2 DEF IInv, OnceOK
    <3>2. walk.max = 0
      BY <1>1, <1>3, Fields
    <3>3. Len(got) <= Room
      BY <1>3, <1>4, <1>12, <3>2 DEF Swept, Room, Cap, UserCap, got
    <3>4. ~Repeats(got)
      BY <1>2, <1>12
    <3>5. Room \in Int
      BY <1>3, Numbers
    <3> QED
      BY <1>3, <1>4, <1>12, <3>1, <3>3, <3>4, <3>5, JoinOnce
  <2> QED
    BY <2>1, <2>2
<1>13. ASSUME ~refused, Swept(Sent) <= MaxItems, "elements" \in service.tells
       PROVE  /\ Len(rows) = Place
              /\ last => Len(rows) + Len(got) = Len(list)
              /\ ~last /\ got # <<>> => now.size = Size /\ Len(got) = Size
              /\ ~(inserted /\ deleted) => \A all : all = rows \o got => IsRead(all, list)
  <2>1. /\ SameCounts(Sent) /\ CountsFit(Sent, now) /\ ~Repeats(got) /\ LastAgrees(Sent, now)
    BY <1>2, <1>13
  <2> QED
    BY <1>1, <1>13, <2>1, SweepCounts DEF got, now, last
<1>14. service.heeds =>
         /\ Len(got) < Size => Len(list) <= Place + Len(got)
         /\ Len(list) <= Place + Size => Len(list) <= Place + Len(got)
  BY <1>3, <1>4, PageLength
<1>15. ASSUME ~refused, Swept(Sent) <= MaxItems, last, rows' = rows \o got, end' = "done"
       PROVE  IInv'
  <2>1. TypeOK'
    BY <1>8, <1>12, <1>15
  <2>2. ASSUME ~deleted, TellsEnd PROVE service.heeds /\ Len(list) <= Place + Len(got)
    <3>1. service.heeds
      BY <1>1, <2>2 DEF TellsEnd, NumberedTellsEnd
    <3>2. CASE Sent.last # NoTotal
      <4>1. last = Sent.last
        BY <1>1, <3>2, SweepFacts DEF last, now
      <4>2. service.last = "told" /\ Sent.last = (Len(list) <= Place + Size)
        BY <1>3, <1>15, <3>1, <3>2, <4>1, SentLast
      <4> QED
        BY <1>14, <1>15, <3>1, <4>1, <4>2
    <3>3. CASE Sent.last = NoTotal /\ "pages" \in service.tells
      <4>1. ExpectedLast(Sent, now) = (Len(list) <= Place + Size)
        BY <1>1, <3>3, SweepFacts DEF now
      <4>2. ExpectedLast(Sent, now) # NoTotal
        <5>1. (Len(list) <= Place + Size) \in BOOLEAN
          OBVIOUS
        <5>2. ExpectedLast(Sent, now) \in BOOLEAN
          BY <4>1, <5>1, Zenon
        <5> QED
          BY <1>3, <5>2
      <4>3. last = ExpectedLast(Sent, now)
        BY <1>1, <3>3, <4>2, SweepFacts DEF last, now
      <4> QED
        BY <1>14, <1>15, <3>1, <4>1, <4>3
    <3>4. CASE "elements" \in service.tells
      BY <1>3, <1>4, <1>13, <1>15, <3>1, <3>4
    <3>5. CASE Sent.last = NoTotal /\ "pages" \notin service.tells /\ "elements" \notin service.tells
      <4>1. last = (Len(got) < now.size)
        BY <1>1, <3>5, SweepFacts DEF last, now, got
      <4>2. service.last = "none"
        BY <1>3, <3>5, SentLast
      <4>3. "size" \in service.tells \/ service.size >= walk.limit
        BY <1>1, <2>2, <3>5, <4>2 DEF TellsEnd, NumberedTellsEnd
      <4>4. now.size = Size
        BY <1>3, <1>5, <4>3
      <4> QED
        BY <1>14, <1>15, <3>1, <4>1, <4>4
    <3> QED
      BY <3>2, <3>3, <3>4, <3>5
  <2>3. ASSUME "elements" \in service.tells, ~(inserted /\ deleted)
        PROVE  Range(list) \subseteq Range(rows')
    <3>1. IsRead(rows', list) /\ Len(rows') = Len(list)
      BY <1>12, <1>13, <1>15, <2>3
    <3>2. walk.start = 0
      BY <1>1, <1>3, Fields
    <3>3. \A i \in 1 .. Len(list) : rows'[i] = list[i]
      BY <1>3, <3>1, <3>2 DEF IsRead
    <3> QED
      BY <3>1, <3>3 DEF Range
  <2>4. walk.keyed => NoRepeat(rows')
    BY <1>12, <1>15
  <2> QED
    BY <1>1, <1>3, <1>4, <1>7, <1>15, <2>1, <2>2, <2>3, <2>4, Finished
<1>16. ASSUME ~refused, Swept(Sent) <= MaxItems, ~last, got # <<>>, rows' = rows \o got,
              end' = "none"
       PROVE  IInv'
  <2>1. TypeOK'
    BY <1>8, <1>12, <1>16
  <2>2. OnceOK'
    <3>1. walk.keyed => NoRepeat(rows')
      BY <1>12, <1>16
    <3> QED
      BY <1>6, <3>1 DEF OnceOK, NoRepeat
  <2>3. GoingOn'
    BY <1>1, <1>6 DEF GoingOn
  <2>4. Place' = Place + Size /\ Place' = pages' * Size
    <3>1. Place' = (pages + 1) * Size
      BY <1>1, <1>6 DEF Place
    <3> QED
      BY <1>1, <1>3, <3>1, Numbers
  <2>5. Counted'
    <3>1. ASSUME "elements" \in service.tells
          PROVE  /\ told'.elements # NoTotal /\ told'.size = Size /\ Len(rows') = pages' * Size
                 /\ told'.elements = Len(list)
                 /\ ~(inserted /\ deleted) => IsRead(rows', list)
      <4>1. Len(rows') = Place + Size /\ now.size = Size
        BY <1>12, <1>13, <1>16, <3>1
      <4>2. ~(inserted /\ deleted) => IsRead(rows', list)
        BY <1>13, <1>16, <3>1
      <4> QED
        BY <1>1, <1>3, <1>5, <2>4, <3>1, <4>1, <4>2
    <3>2. (IsRead(rows, list))' <=> IsRead(rows', list)
      BY <1>6 DEF IsRead
    <3> QED
      BY <1>3, <1>6, <3>1, <3>2 DEF Counted
  <2>6. ASSUME Stable, service.heeds
        PROVE  /\ told'.pages \in {NoTotal, PagesOf(Len(list), Size)}
               /\ told'.elements \in {NoTotal, Len(list)}
               /\ "pages" \in service.tells => Place' < Len(list)
    <3>1. told'.pages \in {NoTotal, PagesOf(Len(list), Size)} /\ told'.elements \in {NoTotal, Len(list)}
      BY <1>1, <1>5
    <3>2. ASSUME "pages" \in service.tells PROVE Place' < Len(list)
      <4>1. ExpectedLast(Sent, now) = (Len(list) <= Place + Size)
        BY <1>1, <3>2, SweepFacts DEF now
      <4>2. ExpectedLast(Sent, now) # NoTotal
        <5>1. (Len(list) <= Place + Size) \in BOOLEAN
          OBVIOUS
        <5>2. ExpectedLast(Sent, now) \in BOOLEAN
          BY <4>1, <5>1, Zenon
        <5> QED
          BY <1>3, <5>2
      <4>3. Agrees(Sent.last, ExpectedLast(Sent, now))
        BY <1>2, <1>16 DEF LastAgrees
      <4>4. last = ExpectedLast(Sent, now)
        BY <1>1, <4>2, <4>3, SweepFacts DEF last, now, Agrees
      <4>5. ~(Len(list) <= Place + Size)
        BY <1>16, <4>1, <4>4
      <4> QED
        BY <1>3, <2>4, <4>5
    <3> QED
      BY <3>1, <3>2
  <2> QED
    BY <1>1, <1>3, <1>4, <1>7, <1>16, <2>1, <2>2, <2>3, <2>4, <2>5, <2>6, GoesOn
<1>17. ~(Swept(Sent) > MaxItems) => Swept(Sent) <= MaxItems
  BY <1>3, <1>4 DEF Swept, got
<1>18. CASE Swept(Sent) > MaxItems
  BY <1>1, <1>5, <1>11, <1>18
<1>19. CASE ~(Swept(Sent) > MaxItems) /\ refused
  BY <1>1, <1>5, <1>10, <1>19
<1>20. CASE ~(Swept(Sent) > MaxItems) /\ ~refused /\ last
  BY <1>1, <1>5, <1>15, <1>17, <1>20
<1>21. CASE ~(Swept(Sent) > MaxItems) /\ ~refused /\ ~last /\ got = <<>>
  BY <1>1, <1>5, <1>10, <1>21
<1>22. CASE ~(Swept(Sent) > MaxItems) /\ ~refused /\ ~last /\ got # <<>>
  BY <1>1, <1>5, <1>16, <1>17, <1>22
<1> QED
  BY <1>18, <1>19, <1>20, <1>21, <1>22

-----------------------------------------------------------------------------
(* Theorems *)

\* The conjunction is inductive.
LEMMA Inductive == Spec => []IInv
<1>1. Init => IInv
  BY InitIInv
<1>2. IInv /\ [Next]_vars => IInv'
  <2> SUFFICES ASSUME IInv, [Next]_vars PROVE IInv'
    OBVIOUS
  <2>1. ASSUME NEW flagged \in BOOLEAN, Page(flagged), UNCHANGED told PROVE IInv'
    BY <2>1, PageStep
  <2>2. CASE NumberedPage /\ UNCHANGED capped
    BY <2>2, NumberedStep
  <2>3. CASE SweepPage /\ UNCHANGED capped
    BY <2>3, SweepStep
  <2>4. CASE OffsetPage /\ UNCHANGED <<capped, told>>
    BY <2>4, OffsetStep
  <2>5. CASE (OutOfPages \/ Fails) /\ UNCHANGED <<capped, told>>
    BY <2>5, NoPage
  <2>6. ASSUME NEW key \in Keys, NEW at \in 0 .. Len(list), Insert(key, at),
               UNCHANGED <<capped, told>>
        PROVE  IInv'
    BY <2>6, InsertStep
  <2>7. ASSUME NEW at \in 1 .. Len(list), Delete(at), UNCHANGED <<capped, told>> PROVE IInv'
    BY <2>7, DeleteStep
  <2>8. CASE UNCHANGED vars
    BY <2>8, StutterStep
  <2> QED
    BY <2>1, <2>2, <2>3, <2>4, <2>5, <2>6, <2>7, <2>8 DEF Next, Step, Around
<1> QED
  BY <1>1, <1>2, PTL DEF Spec

\* Every walk, service and list are of their kinds at every moment.
THEOREM TypeCorrect == Spec => []TypeOK
<1>1. IInv => TypeOK
  BY DEF IInv
<1> QED
  BY <1>1, Inductive, PTL

\* A list nobody changes is read whole, in order and without gaps, or cut at
\* exactly --max, whatever the service makes of its pages; and one that
\* contradicts nothing is never reported as broken (walk.rs walk_with, dlp/walk.rs
\* walk_bounded, dlp/backup.rs Sweep::accept, runtime/transfer/plan.rs OffsetWalk).
THEOREM Complete == Spec => []CompleteWhenStable
<1>1. IInv => CompleteWhenStable
  BY DEF IInv
<1> QED
  BY <1>1, Inductive, PTL

\* Whatever other clients add or remove between two pages, a finished keyed
\* listing has no row twice and, while nothing is removed, each row it owes; a
\* sweep told the row count also survives removals.
THEOREM Hidden == Spec => []EditsHideNothing
<1>1. IInv => EditsHideNothing
  BY DEF IInv
<1> QED
  BY <1>1, Inductive, PTL

=============================================================================
