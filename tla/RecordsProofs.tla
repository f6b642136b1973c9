---------------------------- MODULE RecordsProofs ----------------------------
(***************************************************************************)
(* Proofs about the tools of docs/ledger-tools, for every menu of what the *)
(* sessions may do and every book of documents and trees.                  *)
(*                                                                         *)
(* First what is cited.  ShelfInv says that each line has a number of its  *)
(* own in its file, however lines and files were moved: so the line a      *)
(* locator was written for is at one place at most, and what the tools     *)
(* find there can be compared.  Then what the sessions write.  LedgerInv   *)
(* accounts for each record: when it was written, who may pass for the     *)
(* human that typed it and who sent it.                                    *)
(*                                                                         *)
(* The reports need more, each its own invariant beside LedgerInv.         *)
(* Logged: a commit has its place in the log for a number, so what a       *)
(* request is charged to stays what it was.  Metered: the answers in the   *)
(* transcripts are those of the requests, and with a whole record each     *)
(* request has one, so that the meter's sums are those of the requests.    *)
(* Once: no text reaches a seat twice.  Anchored: a tag is at the minute   *)
(* of a touch, and one block of human time at most covers that minute.     *)
(* Held: a commit made while the record was kept is written of, and one    *)
(* that was not is in the hole, with no record.  Told: the touches in the  *)
(* transcripts are the acts of the humans, and what waits was queued when  *)
(* it was typed; hence the windows between touches, and the runs of        *)
(* commits in them, are what the report claims.                            *)
(***************************************************************************)
EXTENDS Records, SequenceTheorems, FiniteSetTheorems, WellFoundedInduction, TLAPS

(* Lines that go in and out.                                               *)

\* The greatest of a set is the member that no other exceeds.
LEMMA MaxIs ==
  ASSUME NEW S \in SUBSET Int, NEW m \in S, \A y \in S : m >= y
  PROVE  Max(S) = m
<1>1. \E x \in S : \A y \in S : x >= y
  OBVIOUS
<1>2. Max(S) \in S /\ \A y \in S : Max(S) >= y
  BY <1>1 DEF Max
<1>3. Max(S) \in Int /\ m \in Int
  BY <1>2
<1>4. Max(S) >= m /\ m >= Max(S)
  BY <1>2
<1> QED BY <1>3, <1>4

\* A sequence put after another.
LEMMA Joined ==
  ASSUME NEW T, NEW s \in Seq(T), NEW t \in Seq(T)
  PROVE  /\ s \o t \in Seq(T) /\ Len(s \o t) = Len(s) + Len(t)
         /\ \A i \in 1..Len(s) : (s \o t)[i] = s[i]
         /\ \A i \in 1..Len(t) : (s \o t)[Len(s) + i] = t[i]
OBVIOUS

\* A part of a sequence.
LEMMA Part ==
  ASSUME NEW T, NEW s \in Seq(T), NEW m \in 1..(Len(s) + 1), NEW n \in 0..Len(s), m <= n + 1
  PROVE  /\ SubSeq(s, m, n) \in Seq(T) /\ Len(SubSeq(s, m, n)) = n - m + 1
         /\ \A i \in 1..(n - m + 1) : SubSeq(s, m, n)[i] = s[m + i - 1]
<1>1. m \in Int /\ n \in Int /\ \A i \in m..n : s[i] \in T
  OBVIOUS
<1>2. /\ SubSeq(s, m, n) \in Seq(T) /\ Len(SubSeq(s, m, n)) = IF m <= n THEN n - m + 1 ELSE 0
      /\ \A i \in 1..(n - m + 1) : SubSeq(s, m, n)[i] = s[m + i - 1]
  BY <1>1, SubSeqProperties
<1> QED BY <1>1, <1>2

\* A sequence with an element put in.
LEMMA InsertIs ==
  ASSUME NEW T, NEW s \in Seq(T), NEW e \in T, NEW i \in 1..(Len(s) + 1)
  PROVE  LET t == InsertAt(s, i, e) IN
         /\ t \in Seq(T) /\ Len(t) = Len(s) + 1 /\ t[i] = e
         /\ \A j \in 1..(i - 1) : t[j] = s[j]
         /\ \A j \in (i + 1)..(Len(s) + 1) : t[j] = s[j - 1]
<1> DEFINE a == SubSeq(s, 1, i - 1)  b == SubSeq(s, i, Len(s))
<1>1. Len(s) \in Nat
  OBVIOUS
<1>2. a \in Seq(T) /\ Len(a) = i - 1 /\ \A j \in 1..(i - 1) : a[j] = s[j]
  <2>1. /\ a \in Seq(T) /\ Len(a) = (i - 1) - 1 + 1
        /\ \A j \in 1..((i - 1) - 1 + 1) : a[j] = s[1 + j - 1]
    <3>1. 1 \in 1..(Len(s) + 1) /\ i - 1 \in 0..Len(s) /\ 1 <= (i - 1) + 1
      BY <1>1
    <3> QED BY <3>1, Part
  <2> HIDE DEF a
  <2> QED BY <1>1, <2>1
<1>3. b \in Seq(T) /\ Len(b) = Len(s) - i + 1 /\ \A j \in 1..(Len(s) - i + 1) : b[j] = s[i + j - 1]
  <2>1. i \in 1..(Len(s) + 1) /\ Len(s) \in 0..Len(s) /\ i <= Len(s) + 1
    BY <1>1
  <2> QED BY <2>1, Part
<1> HIDE DEF a, b
<1>4. <<e>> \in Seq(T) /\ Len(<<e>>) = 1 /\ <<e>>[1] = e
  OBVIOUS
<1> DEFINE c == a \o <<e>>
<1>5. c \in Seq(T) /\ Len(c) = i /\ c[i] = e /\ \A j \in 1..(i - 1) : c[j] = s[j]
  <2>1. /\ c \in Seq(T) /\ Len(c) = Len(a) + 1 /\ \A j \in 1..Len(a) : c[j] = a[j]
        /\ \A j \in 1..1 : c[Len(a) + j] = <<e>>[j]
    BY <1>2, <1>4, Joined
  <2>2. c[Len(a) + 1] = e
    BY <1>4, <2>1
  <2> HIDE DEF c
  <2> QED BY <1>2, <2>1, <2>2
<1> HIDE DEF c
<1> DEFINE t == c \o b
<1>6. /\ t \in Seq(T) /\ Len(t) = i + Len(b) /\ \A j \in 1..i : t[j] = c[j]
      /\ \A j \in 1..Len(b) : t[i + j] = b[j]
  BY <1>3, <1>5, Joined
<1> HIDE DEF t
<1>7. Len(t) = Len(s) + 1
  BY <1>1, <1>3, <1>6
<1>8. t[i] = e /\ \A j \in 1..(i - 1) : t[j] = s[j]
  BY <1>5, <1>6
<1>9. ASSUME NEW j \in (i + 1)..(Len(s) + 1) PROVE t[j] = s[j - 1]
  <2>1. j - i \in 1..Len(b) /\ i + (j - i) = j /\ i + (j - i) - 1 = j - 1
    BY <1>1, <1>3
  <2>2. t[i + (j - i)] = b[j - i] /\ b[j - i] = s[i + (j - i) - 1]
    BY <1>3, <1>6, <2>1
  <2> QED BY <2>1, <2>2
<1>10. InsertAt(s, i, e) = t
  BY DEF InsertAt, a, b, c, t
<1> QED BY <1>6, <1>7, <1>8, <1>9, <1>10

\* A sequence with an element taken out.
LEMMA RemoveIs ==
  ASSUME NEW T, NEW s \in Seq(T), NEW i \in 1..Len(s)
  PROVE  LET t == RemoveAt(s, i) IN
         /\ t \in Seq(T) /\ Len(t) = Len(s) - 1
         /\ \A j \in 1..(i - 1) : t[j] = s[j]
         /\ \A j \in i..(Len(s) - 1) : t[j] = s[j + 1]
<1> DEFINE a == SubSeq(s, 1, i - 1)  b == SubSeq(s, i + 1, Len(s))
<1>1. Len(s) \in Nat
  OBVIOUS
<1>2. a \in Seq(T) /\ Len(a) = i - 1 /\ \A j \in 1..(i - 1) : a[j] = s[j]
  <2>1. /\ a \in Seq(T) /\ Len(a) = (i - 1) - 1 + 1
        /\ \A j \in 1..((i - 1) - 1 + 1) : a[j] = s[1 + j - 1]
    <3>1. 1 \in 1..(Len(s) + 1) /\ i - 1 \in 0..Len(s) /\ 1 <= (i - 1) + 1
      BY <1>1
    <3> QED BY <3>1, Part
  <2> HIDE DEF a
  <2> QED BY <1>1, <2>1
<1>3. b \in Seq(T) /\ Len(b) = Len(s) - i /\ \A j \in 1..(Len(s) - i) : b[j] = s[i + j]
  <2>1. /\ b \in Seq(T) /\ Len(b) = Len(s) - (i + 1) + 1
        /\ \A j \in 1..(Len(s) - (i + 1) + 1) : b[j] = s[(i + 1) + j - 1]
    <3>1. i + 1 \in 1..(Len(s) + 1) /\ Len(s) \in 0..Len(s) /\ i + 1 <= Len(s) + 1
      BY <1>1
    <3> QED BY <3>1, Part
  <2> HIDE DEF b
  <2>2. Len(s) - (i + 1) + 1 = Len(s) - i /\ \A j \in 1..(Len(s) - i) : (i + 1) + j - 1 = i + j
    BY <1>1
  <2> QED BY <2>1, <2>2
<1> HIDE DEF a, b
<1> DEFINE t == a \o b
<1>4. /\ t \in Seq(T) /\ Len(t) = Len(a) + Len(b) /\ \A j \in 1..Len(a) : t[j] = a[j]
      /\ \A j \in 1..Len(b) : t[Len(a) + j] = b[j]
  <2>1. a \in Seq(T) /\ b \in Seq(T)
    BY <1>2, <1>3
  <2> QED BY <2>1, Joined
<1> HIDE DEF t
<1>5. Len(t) = Len(s) - 1 /\ \A j \in 1..(i - 1) : t[j] = s[j]
  BY <1>1, <1>2, <1>3, <1>4
<1>6. ASSUME NEW j \in i..(Len(s) - 1) PROVE t[j] = s[j + 1]
  <2>1. j - i + 1 \in 1..Len(b) /\ Len(a) + (j - i + 1) = j /\ i + (j - i + 1) = j + 1
    BY <1>1, <1>2, <1>3
  <2>2. t[Len(a) + (j - i + 1)] = b[j - i + 1] /\ b[j - i + 1] = s[i + (j - i + 1)]
    BY <1>3, <1>4, <2>1
  <2> QED BY <2>1, <2>2
<1>7. RemoveAt(s, i) = t
  BY DEF RemoveAt, a, b, t
<1> QED BY <1>4, <1>5, <1>6, <1>7

\* A file as the editor keeps it.
Kept(body, bound) ==
  body \in Seq(Lines) /\ Numbered(body) /\ \A i \in DOMAIN body : body[i].id < bound

\* A line with a number that no other has goes in.
LEMMA InsertKept ==
  ASSUME NEW body, NEW low \in Nat, NEW bound \in Nat, low <= bound, Kept(body, low),
         NEW i \in 1..(Len(body) + 1), NEW l \in Lines, l.id < bound, \A j \in DOMAIN body : body[j].id # l.id
  PROVE  Kept(InsertAt(body, i, l), bound)
<1> DEFINE t == InsertAt(body, i, l)  n == Len(body)
           from(j) == IF j < i THEN j ELSE j - 1
<1>1. body \in Seq(Lines) /\ n \in Nat /\ DOMAIN body = 1..n
  BY DEF Kept
<1>2. /\ t \in Seq(Lines) /\ Len(t) = n + 1 /\ t[i] = l
      /\ \A j \in 1..(i - 1) : t[j] = body[j]
      /\ \A j \in (i + 1)..(n + 1) : t[j] = body[j - 1]
  <2>1. body \in Seq(Lines) /\ i \in 1..(Len(body) + 1) /\ l \in Lines
    BY <1>1
  <2>2. /\ t \in Seq(Lines) /\ Len(t) = Len(body) + 1 /\ t[i] = l
        /\ \A j \in 1..(i - 1) : t[j] = body[j]
        /\ \A j \in (i + 1)..(Len(body) + 1) : t[j] = body[j - 1]
    BY <2>1, InsertIs
  <2> QED BY <2>2
<1> HIDE DEF t, n
<1>3. DOMAIN t = 1..(n + 1)
  BY <1>1, <1>2
<1>4. ASSUME NEW j \in DOMAIN t, j # i PROVE from(j) \in DOMAIN body /\ t[j] = body[from(j)]
  <2>1. CASE j < i
    <3>1. j \in 1..(i - 1) /\ j \in 1..n
      BY <1>1, <1>3, <2>1 DEF n
    <3> QED BY <1>1, <1>2, <2>1, <3>1
  <2>2. CASE ~(j < i)
    <3>1. j \in (i + 1)..(n + 1) /\ j - 1 \in 1..n
      BY <1>1, <1>3, <1>4, <2>2
    <3> QED BY <1>1, <1>2, <2>2, <3>1
  <2> QED BY <2>1, <2>2
<1>5. \A j, k \in DOMAIN t : j # i /\ k # i /\ from(j) = from(k) => j = k
  BY <1>3
<1> HIDE DEF from
<1>6. ASSUME NEW j \in DOMAIN t, NEW k \in DOMAIN t, t[j].id = t[k].id PROVE j = k
  <2>1. CASE j # i /\ k # i
    BY <1>4, <1>5, <1>6, <2>1 DEF Kept, Numbered
  <2>2. CASE j = i /\ k # i
    BY <1>2, <1>4, <1>6, <2>2
  <2>3. CASE j # i /\ k = i
    BY <1>2, <1>4, <1>6, <2>3
  <2> QED BY <2>1, <2>2, <2>3
<1>7. \A j \in DOMAIN body : body[j].id < bound
  <2>1. \A j \in DOMAIN body : body[j].id \in Nat /\ body[j].id < low
    BY <1>1 DEF Kept, Lines
  <2> QED BY <2>1
<1>8. ASSUME NEW j \in DOMAIN t PROVE t[j].id < bound
  BY <1>2, <1>4, <1>7
<1>9. Kept(t, bound)
  BY <1>2, <1>6, <1>8 DEF Kept, Numbered
<1> QED BY <1>9 DEF t

\* A line goes out, and its number with it.
LEMMA RemoveKept ==
  ASSUME NEW body, NEW bound, Kept(body, bound), NEW i \in DOMAIN body
  PROVE  /\ Kept(RemoveAt(body, i), bound) /\ Len(RemoveAt(body, i)) = Len(body) - 1
         /\ \A j \in DOMAIN RemoveAt(body, i) : RemoveAt(body, i)[j].id # body[i].id
<1> DEFINE t == RemoveAt(body, i)  n == Len(body)
           from(j) == IF j < i THEN j ELSE j + 1
<1>1. body \in Seq(Lines) /\ n \in Nat /\ DOMAIN body = 1..n /\ i \in 1..n
  BY DEF Kept
<1>2. /\ t \in Seq(Lines) /\ Len(t) = n - 1
      /\ \A j \in 1..(i - 1) : t[j] = body[j]
      /\ \A j \in i..(n - 1) : t[j] = body[j + 1]
  BY <1>1, RemoveIs
<1> HIDE DEF t, n
<1>3. DOMAIN t = 1..(n - 1)
  BY <1>1, <1>2
<1>4. ASSUME NEW j \in DOMAIN t PROVE from(j) \in DOMAIN body /\ from(j) # i /\ t[j] = body[from(j)]
  <2>1. CASE j < i
    <3>1. j \in 1..(i - 1) /\ j \in 1..n
      BY <1>1, <1>3, <2>1
    <3> QED BY <1>1, <1>2, <2>1, <3>1
  <2>2. CASE ~(j < i)
    <3>1. j \in i..(n - 1) /\ j + 1 \in 1..n /\ j + 1 # i
      BY <1>1, <1>3, <2>2
    <3> QED BY <1>1, <1>2, <2>2, <3>1
  <2> QED BY <2>1, <2>2
<1>5. \A j, k \in DOMAIN t : from(j) = from(k) => j = k
  BY <1>1, <1>3
<1> HIDE DEF from
<1>6. \A j, k \in DOMAIN t : t[j].id = t[k].id => j = k
  BY <1>4, <1>5 DEF Kept, Numbered
<1>7. \A j \in DOMAIN t : t[j].id < bound /\ t[j].id # body[i].id
  BY <1>4 DEF Kept, Numbered
<1>8. Kept(t, bound) /\ Len(t) = n - 1
  BY <1>2, <1>6, <1>7 DEF Kept, Numbered
<1> QED BY <1>7, <1>8 DEF t, n
----------------------------------------------------------------------------
(* The files that documents cite.                                          *)

\* Every line has a number of its own in its file, new ones included, and what
\* git tracks is there.
ShelfInv ==
  /\ book \in Books /\ edits \in Nat
  /\ IsFiniteSet(DOMAIN work) /\ tracked \subseteq DOMAIN work /\ IsFiniteSet(DOMAIN head)
  /\ \A p \in DOMAIN work : Kept(work[p], 100 + edits)
  /\ \A p \in DOMAIN head : head[p] \in Seq(Lines) /\ Numbered(head[p])

\* The books are proper at the start.
LEMMA ShelveHolds == Shelve => ShelfInv
<1> SUFFICES ASSUME Shelve PROVE ShelfInv
  OBVIOUS
<1>1. /\ book \in Books /\ edits = 0 /\ head = book.head /\ tracked = DOMAIN head
      /\ work = [p \in DOMAIN book.head \cup DOMAIN book.scratch |->
                   IF p \in DOMAIN book.head THEN book.head[p] ELSE book.scratch[p]]
  BY DEF Shelve
<1>2. Proper(book.head) /\ Proper(book.scratch)
  BY <1>1, BooksAssumption
<1>3. /\ DOMAIN work = DOMAIN book.head \cup DOMAIN book.scratch
      /\ \A p \in DOMAIN work : work[p] = IF p \in DOMAIN book.head THEN book.head[p] ELSE book.scratch[p]
  <2>1. DOMAIN work = DOMAIN book.head \cup DOMAIN book.scratch
    BY <1>1
  <2>2. ASSUME NEW p \in DOMAIN work PROVE work[p] = IF p \in DOMAIN book.head THEN book.head[p] ELSE book.scratch[p]
    BY <1>1, <2>1
  <2> QED BY <2>1, <2>2
<1>4. IsFiniteSet(DOMAIN work)
  <2>1. IsFiniteSet(DOMAIN book.head) /\ IsFiniteSet(DOMAIN book.scratch)
    BY <1>2 DEF Proper
  <2>2. IsFiniteSet(DOMAIN book.head \cup DOMAIN book.scratch)
    BY <2>1, FS_Union
  <2>3. DOMAIN work = DOMAIN book.head \cup DOMAIN book.scratch
    BY <1>3
  <2> QED BY <2>2, <2>3
<1>5. \A p \in DOMAIN work : Kept(work[p], 100 + edits)
  <2>1. ASSUME NEW p \in DOMAIN work PROVE Kept(work[p], 100)
    <3>1. CASE p \in DOMAIN book.head
      BY <1>2, <1>3, <3>1 DEF Proper, Kept
    <3>2. CASE p \notin DOMAIN book.head
      BY <1>2, <1>3, <3>2 DEF Proper, Kept
    <3> QED BY <3>1, <3>2
  <2>2. 100 + edits = 100
    BY <1>1
  <2> QED BY <2>1, <2>2
<1> QED BY <1>1, <1>2, <1>3, <1>4, <1>5 DEF ShelfInv, Proper

\* A file is edited.
LEMMA RewriteKeeps ==
  ASSUME ShelfInv, NEW p \in DOMAIN work, NEW body, Kept(body, 100 + edits + 1), edits' = edits + 1,
         work' = [work EXCEPT ![p] = body], UNCHANGED <<book, head, tracked>>
  PROVE  ShelfInv'
<1>1. edits \in Nat /\ edits' \in Nat /\ 100 + edits' = 100 + edits + 1
  BY DEF ShelfInv
<1>2. DOMAIN work' = DOMAIN work /\ \A x \in DOMAIN work : work'[x] = IF x = p THEN body ELSE work[x]
  OBVIOUS
<1>3. ASSUME NEW x \in DOMAIN work, Kept(work[x], 100 + edits) PROVE Kept(work[x], 100 + edits + 1)
  <2>1. \A i \in DOMAIN work[x] : work[x][i].id \in Nat
    BY <1>3 DEF Kept, Lines
  <2> QED BY <1>1, <1>3, <2>1 DEF Kept
<1>4. \A x \in DOMAIN work' : Kept(work'[x], 100 + edits')
  BY <1>1, <1>2, <1>3 DEF ShelfInv
<1> QED BY <1>1, <1>2, <1>4 DEF ShelfInv

\* One lemma for each way to edit a file.
LEMMA InsertLineKeeps ==
  ASSUME ShelfInv, NEW p \in DOMAIN work, NEW i \in 1..(Len(work[p]) + 1), NEW l \in book.lines, InsertLine(p, i, l)
  PROVE  ShelfInv'
<1> DEFINE line == [l EXCEPT !.id = 100 + edits]  body == work[p]
<1>1. edits \in Nat /\ Kept(body, 100 + edits) /\ l \in Lines
  BY BooksAssumption DEF ShelfInv
<1>2. line \in Lines /\ line.id = 100 + edits
  BY <1>1 DEF Lines
<1>3. \A j \in DOMAIN body : body[j].id # 100 + edits
  <2>1. \A j \in DOMAIN body : body[j].id \in Nat /\ body[j].id < 100 + edits
    BY <1>1 DEF Kept, Lines
  <2> QED BY <1>1, <2>1
<1>4. edits' = edits + 1 /\ work' = [work EXCEPT ![p] = InsertAt(body, i, line)] /\ UNCHANGED <<book, head, tracked>>
  BY DEF InsertLine, Doing, Rewrite
<1> HIDE DEF line, body
<1>5. Kept(InsertAt(body, i, line), 100 + edits + 1)
  <2>1. 100 + edits \in Nat /\ 100 + edits + 1 \in Nat /\ 100 + edits <= 100 + edits + 1 /\ line.id < 100 + edits + 1
    BY <1>1, <1>2
  <2>2. i \in 1..(Len(body) + 1)
    BY DEF body
  <2>3. \A j \in DOMAIN body : body[j].id # line.id
    BY <1>2, <1>3
  <2> QED BY <1>1, <1>2, <2>1, <2>2, <2>3, InsertKept
<1> QED BY <1>4, <1>5, RewriteKeeps

LEMMA DeleteLineKeeps ==
  ASSUME ShelfInv, NEW p \in DOMAIN work, NEW i \in DOMAIN work[p], DeleteLine(p, i)
  PROVE  ShelfInv'
<1>1. edits \in Nat /\ Kept(work[p], 100 + edits)
  BY DEF ShelfInv
<1>2. Kept(RemoveAt(work[p], i), 100 + edits)
  BY <1>1, RemoveKept
<1>3. Kept(RemoveAt(work[p], i), 100 + edits + 1)
  <2> DEFINE body == RemoveAt(work[p], i)
  <2> HIDE DEF body
  <2>1. \A j \in DOMAIN body : body[j].id \in Nat /\ body[j].id < 100 + edits
    BY <1>2 DEF Kept, Lines, body
  <2>2. Kept(body, 100 + edits + 1)
    BY <1>1, <1>2, <2>1 DEF Kept, body
  <2> QED BY <2>2 DEF body
<1>4. edits' = edits + 1 /\ work' = [work EXCEPT ![p] = RemoveAt(work[p], i)] /\ UNCHANGED <<book, head, tracked>>
  BY DEF DeleteLine, Doing, Rewrite
<1> QED BY <1>3, <1>4, RewriteKeeps

LEMMA MoveLineKeeps ==
  ASSUME ShelfInv, NEW p \in DOMAIN work, NEW i \in DOMAIN work[p], NEW j \in DOMAIN work[p] \ {i}, MoveLine(p, i, j)
  PROVE  ShelfInv'
<1> DEFINE l == work[p][i]  rest == RemoveAt(work[p], i)
<1>a. edits \in Nat /\ Kept(work[p], 100 + edits)
  BY DEF ShelfInv
<1>b. work[p] \in Seq(Lines) /\ l \in Lines /\ l.id < 100 + edits
  BY <1>a DEF Kept
<1>1. /\ edits \in Nat /\ Kept(work[p], 100 + edits) /\ l \in Lines /\ l.id \in Nat /\ l.id < 100 + edits
      /\ work[p] \in Seq(Lines)
  BY <1>a, <1>b DEF Lines
<1>2. /\ Kept(rest, 100 + edits) /\ Len(rest) = Len(work[p]) - 1 /\ \A k \in DOMAIN rest : rest[k].id # l.id
  BY <1>1, RemoveKept
<1>3. edits' = edits + 1 /\ work' = [work EXCEPT ![p] = InsertAt(rest, j, l)] /\ UNCHANGED <<book, head, tracked>>
  BY DEF MoveLine, Doing, Rewrite
<1>4. j \in 1..(Len(rest) + 1)
  BY <1>1, <1>2
<1> HIDE DEF l, rest
<1>5. Kept(InsertAt(rest, j, l), 100 + edits + 1)
  <2>1. 100 + edits \in Nat /\ 100 + edits + 1 \in Nat /\ 100 + edits <= 100 + edits + 1 /\ l.id < 100 + edits + 1
    BY <1>1
  <2> QED BY <1>1, <1>2, <1>4, <2>1, InsertKept
<1> QED BY <1>3, <1>5, RewriteKeeps

LEMMA RenameKeeps ==
  ASSUME ShelfInv, NEW p \in DOMAIN work, NEW i \in DOMAIN work[p], NEW n \in book.names, Rename(p, i, n)
  PROVE  ShelfInv'
<1> DEFINE body == work[p]
           decl == {[d EXCEPT !.name = n] : d \in body[i].decl}
           line == [body[i] EXCEPT !.decl = decl]
           new == [body EXCEPT ![i] = line]
<1>1. edits \in Nat /\ Kept(body, 100 + edits) /\ n \in Names /\ body[i] \in Lines /\ body \in Seq(Lines)
  BY BooksAssumption DEF ShelfInv, Kept
<1>2. decl \in SUBSET [name : Names, by : STRING] /\ \A d, e \in decl : d = e
  BY <1>1 DEF Lines
<1>3. edits' = edits + 1 /\ work' = [work EXCEPT ![p] = new] /\ UNCHANGED <<book, head, tracked>>
  BY DEF Rename, Doing, Rewrite
<1> HIDE DEF decl
<1>4. line \in Lines /\ line.id = body[i].id
  BY <1>1, <1>2 DEF Lines
<1> HIDE DEF line
<1>5. new \in Seq(Lines) /\ DOMAIN new = DOMAIN body /\ \A j \in DOMAIN body : new[j].id = body[j].id
  BY <1>1, <1>4
<1>6. \A j \in DOMAIN body : body[j].id \in Nat /\ body[j].id < 100 + edits
  BY <1>1 DEF Kept, Lines
<1>7. Kept(new, 100 + edits + 1)
  <2>1. Numbered(new)
    BY <1>1, <1>5 DEF Kept, Numbered
  <2>2. \A j \in DOMAIN new : new[j].id < 100 + edits + 1
    <3> HIDE DEF new
    <3> QED BY <1>1, <1>5, <1>6
  <2> QED BY <1>5, <2>1, <2>2 DEF Kept
<1> HIDE DEF new
<1> QED BY <1>3, <1>7, RewriteKeeps

\* A file is moved, tracked or committed, and the document is renumbered.
LEMMA TreeKeeps ==
  ASSUME ShelfInv, (\E q : \E p \in DOMAIN work : MoveFile(p, q)) \/ (\E p \in DOMAIN work : Land(p)) \/ CommitTree \/ Repair
  PROVE  ShelfInv'
<1>1. ASSUME NEW p \in DOMAIN work, NEW q, MoveFile(p, q) PROVE ShelfInv'
  <2>1. /\ edits \in Nat /\ edits' = edits + 1 /\ UNCHANGED <<book, head>>
        /\ work' = [x \in (DOMAIN work \ {p}) \cup {q} |-> IF x = q THEN work[p] ELSE work[x]]
        /\ tracked' = (tracked \ {p}) \cup {q}
    BY <1>1 DEF MoveFile, Doing, ShelfInv
  <2>2. DOMAIN work' = (DOMAIN work \ {p}) \cup {q}
    BY <2>1
  <2>3. IsFiniteSet(DOMAIN work')
    <3>1. IsFiniteSet(DOMAIN work \ {p})
      <4>1. DOMAIN work \ {p} \in SUBSET DOMAIN work
        OBVIOUS
      <4> QED BY <4>1, FS_Subset DEF ShelfInv
    <3> QED BY <2>2, <3>1, FS_AddElement
  <2>4. \A x \in DOMAIN work' : \E y \in DOMAIN work : work'[x] = work[y]
    BY <2>1
  <2>5. ASSUME NEW x \in DOMAIN work' PROVE Kept(work'[x], 100 + edits')
    <3>1. PICK y \in DOMAIN work : work'[x] = work[y]
      BY <2>4
    <3>2. Kept(work[y], 100 + edits)
      BY DEF ShelfInv
    <3>3. \A i \in DOMAIN work[y] : work[y][i].id \in Nat
      BY <3>2 DEF Kept, Lines
    <3>4. \A i \in DOMAIN work[y] : work[y][i].id < 100 + edits'
      BY <2>1, <3>2, <3>3 DEF Kept
    <3> QED BY <3>1, <3>2, <3>4 DEF Kept
  <2>6. tracked' \subseteq DOMAIN work'
    BY <2>1, <2>2 DEF ShelfInv
  <2>7. book' \in Books /\ edits' \in Nat /\ IsFiniteSet(DOMAIN head')
    BY <2>1 DEF ShelfInv
  <2>8. \A x \in DOMAIN head' : head'[x] \in Seq(Lines) /\ Numbered(head'[x])
    BY <2>1 DEF ShelfInv
  <2> QED BY <2>3, <2>5, <2>6, <2>7, <2>8 DEF ShelfInv
<1>2. ASSUME NEW p \in DOMAIN work, Land(p) PROVE ShelfInv'
  BY <1>2 DEF Land, ShelfInv
<1>3. CASE CommitTree
  <2>1. head' = Restrict(work, tracked) /\ UNCHANGED <<book, work, tracked, edits>>
    BY <1>3 DEF CommitTree
  <2>2. DOMAIN head' = tracked /\ \A p \in tracked : head'[p] = work[p]
    BY <2>1 DEF Restrict
  <2>3. IsFiniteSet(tracked)
    BY FS_Subset DEF ShelfInv
  <2> QED BY <2>1, <2>2, <2>3 DEF ShelfInv, Kept
<1>4. CASE Repair
  BY <1>4 DEF Repair, ShelfInv
<1> QED BY <1>1, <1>2, <1>3, <1>4

\* No step of the shelf breaks the numbering.
LEMMA ShelfKeeps == ShelfInv /\ [ShelfNext]_shelf => ShelfInv'
<1> SUFFICES ASSUME ShelfInv, [ShelfNext]_shelf PROVE ShelfInv'
  OBVIOUS
<1>1. CASE UNCHANGED shelf
  BY <1>1 DEF shelf, ShelfInv
<1>2. CASE CommitTree \/ Repair
  BY <1>2, TreeKeeps
<1>3. ASSUME NEW p \in book.files \cap DOMAIN work,
             \/ \E i \in 1..(Len(work[p]) + 1), l \in book.lines : InsertLine(p, i, l)
             \/ \E i \in DOMAIN work[p] :
                  \/ DeleteLine(p, i)
                  \/ \E j \in DOMAIN work[p] \ {i} : MoveLine(p, i, j)
                  \/ \E n \in book.names : Rename(p, i, n)
             \/ \E q \in book.places : MoveFile(p, q)
             \/ Land(p)
      PROVE  ShelfInv'
  <2>1. CASE \E i \in 1..(Len(work[p]) + 1), l \in book.lines : InsertLine(p, i, l)
    BY <2>1, InsertLineKeeps
  <2>2. CASE \E i \in DOMAIN work[p] : DeleteLine(p, i)
    BY <2>2, DeleteLineKeeps
  <2>3. CASE \E i \in DOMAIN work[p] : \E j \in DOMAIN work[p] \ {i} : MoveLine(p, i, j)
    BY <2>3, MoveLineKeeps
  <2>4. CASE \E i \in DOMAIN work[p] : \E n \in book.names : Rename(p, i, n)
    BY <2>4, RenameKeeps
  <2>5. CASE (\E q \in book.places : MoveFile(p, q)) \/ Land(p)
    BY <2>5, TreeKeeps
  <2> QED BY <1>3, <2>1, <2>2, <2>3, <2>4, <2>5
<1> QED BY <1>1, <1>2, <1>3 DEF ShelfNext
----------------------------------------------------------------------------
(* What the tools find.                                                    *)

\* An address resolves to one file, and that is committed.
LEMMA ResolvesOnce ==
  ASSUME ShelfInv, NEW a, NEW p \in resolve(a)
  PROVE  resolve(a) = {p} /\ p \in DOMAIN head /\ (CHOOSE q \in resolve(a) : TRUE) = p
<1> DEFINE cands == {q \in DOMAIN head : Last(q) = Last(a)}
<1>1. resolve(a) = {p} /\ p \in DOMAIN head
  <2>1. CASE a \in DOMAIN head
    BY <2>1 DEF resolve
  <2>2. CASE a \notin DOMAIN head
    <3>1. Cardinality(cands) = 1 /\ resolve(a) = cands /\ p \in cands
      <4> HIDE DEF cands
      <4>1. resolve(a) = IF Cardinality(cands) = 1 THEN cands ELSE {}
        BY <2>2 DEF resolve, cands
      <4> QED BY <4>1
    <3>2. IsFiniteSet(cands)
      <4>1. cands \in SUBSET DOMAIN head
        OBVIOUS
      <4> QED BY <4>1, FS_Subset DEF ShelfInv
    <3>3. \E x : cands = {x}
      <4> HIDE DEF cands
      <4> QED BY <3>1, <3>2, FS_Singleton
    <3> QED BY <3>1, <3>3
  <2> QED BY <2>1, <2>2
<1> QED BY <1>1

\* What a pin's row says, by what stands in the file.
LEMMA RowIs ==
  ASSUME ShelfInv, NEW i \in Pins, NEW p \in resolve(note[i].at)
  PROVE  LET line == note[i].line  n == PinName(i)  decls == find_decl_lines(head[p], n)  row == pin_row(i) IN
         /\ decls \subseteq DOMAIN head[p] /\ hits(head[p], n) \subseteq DOMAIN head[p]
         /\ row = IF line \in decls THEN Row("ok", line)
                  ELSE IF occurs_at(head[p], n, line) THEN Row("okuse", line)
                  ELSE IF decls # {} THEN Row("drift", Nearest(decls, line))
                  ELSE IF ~Strict(i) THEN Row("loose", 0)
                  ELSE IF hits(head[p], n) # {} THEN Row("driftuse", Nearest(hits(head[p], n), line))
                  ELSE Row("absent", 0)
<1>1. resolve(note[i].at) # {} /\ (CHOOSE q \in resolve(note[i].at) : TRUE) = p
  BY ResolvesOnce
<1>2. find_decl_lines(head[p], PinName(i)) \subseteq DOMAIN head[p] /\ hits(head[p], PinName(i)) \subseteq DOMAIN head[p]
  BY DEF find_decl_lines, hits
<1> QED BY <1>1, <1>2 DEF pin_row

\* What is declared on a line is a word of it.
LEMMA DeclaredIsWord ==
  ASSUME NEW body, NEW n, NEW j \in find_decl_lines(body, n)
  PROVE  /\ j \in DOMAIN body /\ ~n.primed
         /\ \E d \in body[j].decl : d.name \in Words(body[j]) /\ d.name.stem = n.stem /\ d.name.ns \in {"none", n.ns}
BY DEF find_decl_lines, word, Words

\* Where the tool passes, the stem of a strict pin is within a line of the place.
LEMMA PassingPins ==
  ASSUME ShelfInv, pin_check_passes, NEW i \in Pins, NEW p \in resolve(note[i].at), Strict(i)
  PROVE  Stem(p, note[i].line, PinName(i))
<1> DEFINE line == note[i].line  n == PinName(i)  decls == find_decl_lines(head[p], n)
<1>1. pin_row(i).verdict \notin {"drift", "driftuse", "absent"}
  BY DEF pin_check_passes
<1>2. line \in decls \/ occurs_at(head[p], n, line)
  BY <1>1, RowIs DEF Row
<1>3. CASE line \in decls
  <2>1. line \in DOMAIN head[p] /\ \E w \in Words(head[p][line]) : w.stem = n.stem
    BY <1>3, DeclaredIsWord
  <2>2. line \in Int
    <3>1. p \in DOMAIN head /\ head[p] \in Seq(Lines)
      BY ResolvesOnce DEF ShelfInv
    <3> QED BY <2>1, <3>1
  <2>3. Distance(line, line) <= 1
    BY <2>2 DEF Distance
  <2> QED BY <2>1, <2>3 DEF Stem
<1>4. CASE occurs_at(head[p], n, line)
  <2>1. PICK j \in hits(head[p], n) : Distance(j, line) <= 1
    BY <1>4 DEF occurs_at
  <2>2. j \in DOMAIN head[p] /\ \E w \in Words(head[p][j]) : w.stem = n.stem
    BY <2>1 DEF hits, word
  <2> QED BY <2>1, <2>2 DEF Stem
<1> QED BY <1>2, <1>3, <1>4

\* A pin whose declaration stands in the resolved file gets a row that is right.
LEMMA StandingPins ==
  ASSUME ShelfInv, NEW i \in Pins, NEW p \in Standing(i), resolve(note[i].at) = {p}
  PROVE  LET row == pin_row(i)  here == Max(Position(p, meant[i])) IN
         /\ row.verdict \in {"ok", "okuse", "drift"}
         /\ row.verdict = "ok" <=> note[i].line = here
         /\ row.verdict = "drift" => row.at = here
         /\ row.verdict = "okuse" => Stem(p, here, PinName(i)) /\ Stem(p, note[i].line, PinName(i))
<1> DEFINE line == note[i].line  n == PinName(i)  decls == find_decl_lines(head[p], n)
           place == Position(p, meant[i])  here == Max(place)
<1>1. p \in DOMAIN head /\ head[p] \in Seq(Lines) /\ Numbered(head[p]) /\ ~n.primed /\ place # {}
  BY DEF Standing, ShelfInv
<1>2. decls = place
  <2>1. place = {j \in DOMAIN head[p] : Declares(head[p][j], n)}
    BY DEF Standing
  <2>2. \A j \in DOMAIN head[p] : Declares(head[p][j], n) <=> j \in decls
    BY <1>1 DEF Declares, find_decl_lines, word
  <2>3. decls \subseteq DOMAIN head[p]
    BY DEF find_decl_lines
  <2> HIDE DEF decls, place
  <2> QED BY <2>1, <2>2, <2>3
<1>3. PICK k \in DOMAIN head[p] : place = {k} /\ k \in Nat
  <2>1. PICK k \in DOMAIN head[p] : k \in place
    BY <1>1 DEF Position
  <2>2. place = {k}
    BY <1>1, <2>1 DEF Position, Numbered
  <2> QED BY <1>1, <2>1, <2>2
<1>4. here = k
  <2>1. \A y \in {k} : k >= y
    BY <1>3
  <2>2. {k} \in SUBSET Int /\ k \in {k}
    BY <1>3
  <2>3. Max({k}) = k
    BY <2>1, <2>2, MaxIs
  <2> HIDE DEF place
  <2> QED BY <1>3, <2>3
<1> HIDE DEF place
<1>5. decls = {k}
  BY <1>2, <1>3
<1>6. Nearest({k}, line) = k
  <2>1. \A j \in {k} : Distance(k, line) < Distance(j, line) \/ (Distance(k, line) = Distance(j, line) /\ k <= j)
    BY <1>3
  <2> QED BY <2>1 DEF Nearest
<1> HIDE DEF decls, here
<1>7. pin_row(i) = IF line = k THEN Row("ok", line)
                   ELSE IF occurs_at(head[p], n, line) THEN Row("okuse", line)
                   ELSE Row("drift", k)
  <2>1. p \in resolve(note[i].at)
    OBVIOUS
  <2>2. pin_row(i) = IF line \in decls THEN Row("ok", line)
                     ELSE IF occurs_at(head[p], n, line) THEN Row("okuse", line)
                     ELSE IF decls # {} THEN Row("drift", Nearest(decls, line))
                     ELSE IF ~Strict(i) THEN Row("loose", 0)
                     ELSE IF hits(head[p], n) # {} THEN Row("driftuse", Nearest(hits(head[p], n), line))
                     ELSE Row("absent", 0)
    BY <2>1, RowIs DEF decls
  <2> QED BY <1>5, <1>6, <2>2
<1>8. ASSUME occurs_at(head[p], n, line) PROVE Stem(p, here, n) /\ Stem(p, line, n)
  <2>1. PICK j \in hits(head[p], n) : Distance(j, line) <= 1
    BY <1>8 DEF occurs_at
  <2>2. j \in DOMAIN head[p] /\ \E w \in Words(head[p][j]) : w.stem = n.stem
    BY <2>1 DEF hits, word
  <2>3. k \in DOMAIN head[p] /\ \E w \in Words(head[p][k]) : w.stem = n.stem
    <3>1. k \in find_decl_lines(head[p], n)
      BY <1>5 DEF decls
    <3> QED BY <3>1, DeclaredIsWord
  <2>4. Distance(k, k) <= 1
    BY <1>3 DEF Distance
  <2> QED BY <1>4, <2>1, <2>2, <2>3, <2>4 DEF Stem
<1>9. /\ pin_row(i).verdict \in {"ok", "okuse", "drift"}
      /\ pin_row(i).verdict = "ok" <=> line = k
      /\ pin_row(i).verdict = "drift" => pin_row(i).at = k
      /\ pin_row(i).verdict = "okuse" => occurs_at(head[p], n, line)
  BY <1>7 DEF Row
<1> QED BY <1>4, <1>8, <1>9 DEF here, place

\* The tools on a clean worktree.
LEMMA CitecheckAgrees ==
  ASSUME ShelfInv, head = Restrict(work, tracked), NEW i \in Pins, pin_row(i).verdict = "ok",
         PinName(i).ns = "none", PinName(i) \in payload_candidates(i),
         NEW p \in resolve(note[i].at), within(note[i].at, work, "repo") = {p}
  PROVE  cite_row(i).verdict = "OK"
<1> DEFINE line == note[i].line  n == PinName(i)  cands == payload_candidates(i)
           found == resolve_across(note[i].at)
<1>1. p \in DOMAIN head /\ head[p] = work[p] /\ work[p] \in Seq(Lines)
  <2>1. p \in DOMAIN head
    BY ResolvesOnce
  <2> QED BY <2>1 DEF Restrict, ShelfInv
<1>2. found = {<<p, work[p]>>}
  BY DEF resolve_across
<1>3. Cardinality(found) = 1
  BY <1>2, FS_Singleton
<1>4. (CHOOSE f \in found : TRUE)[2] = work[p]
  <2> HIDE DEF found
  <2> DEFINE one == CHOOSE f \in found : TRUE
  <2>1. one = <<p, work[p]>>
    BY <1>2
  <2> HIDE DEF one
  <2>2. one[2] = work[p]
    BY <2>1
  <2> QED BY <2>2 DEF one
<1>5. line \in find_decl_lines(head[p], n)
  <2>1. pin_row(i).verdict = "ok" => line \in find_decl_lines(head[p], n)
    BY RowIs DEF Row
  <2> QED BY <2>1
<1>6. line \in DOMAIN work[p] /\ line \in At(work[p], cands)
  <2>1. PICK d \in work[p][line].decl : d.name \in Words(work[p][line]) /\ d.name.stem = n.stem /\ d.name.ns \in {"none", n.ns}
    BY <1>1, <1>5, DeclaredIsWord
  <2>2. line \in DOMAIN work[p] /\ ~n.primed
    BY <1>1, <1>5, DeclaredIsWord
  <2>3. work[p][line] \in Lines
    BY <1>1, <2>2
  <2>4. d.name.stem \in DOMAIN Longer
    BY <2>1, <2>3 DEF Lines, Names
  <2>5. Inside(n, d.name)
    BY <2>1, <2>2, <2>4, LongerAssumption DEF Inside
  <2>6. Holds(cands, work[p][line])
    BY <2>1, <2>5 DEF Holds
  <2> QED BY <2>2, <2>6 DEF At
<1> HIDE DEF cands, found
<1>7. cands # {}
  BY DEF cands
<1>8. cite_row(i) = Row("OK", line)
  BY <1>3, <1>4, <1>6, <1>7 DEF cite_row, settling, cands, found
<1> QED BY <1>8 DEF Row

\* A name that cannot be followed is declared by a structure alone.
LEMMA UnlandedAgrees ==
  ASSUME ShelfInv, head = Restrict(work, tracked), NEW i \in Pins, pin_row(i).verdict = "ok",
         PinName(i).ns = "none", PinName(i) \in unfollowable, NEW p \in resolve(note[i].at),
         NEW d \in head[p][note[i].line].decl
  PROVE  d.by = "structure"
<1> DEFINE line == note[i].line  n == PinName(i)
<1> SUFFICES ASSUME d.by # "structure" PROVE FALSE
  OBVIOUS
<1>1. p \in DOMAIN head /\ p \in tracked /\ p \in DOMAIN work /\ head[p] = work[p] /\ work[p] \in Seq(Lines)
  <2>1. p \in DOMAIN head
    BY ResolvesOnce
  <2> QED BY <2>1 DEF Restrict, ShelfInv
<1>2. line \in find_decl_lines(head[p], n)
  <2>1. pin_row(i).verdict = "ok" => line \in find_decl_lines(head[p], n)
    BY RowIs DEF Row
  <2> QED BY <2>1
<1>3. line \in DOMAIN work[p] /\ ~n.primed /\ work[p][line] \in Lines
  BY <1>1, <1>2, DeclaredIsWord
<1>4. d.name.stem = n.stem /\ d.name.ns = "none" /\ d.name.stem \in DOMAIN Longer
  <2>1. PICK e \in work[p][line].decl : e.name.stem = n.stem /\ e.name.ns \in {"none", n.ns}
    BY <1>1, <1>2, DeclaredIsWord
  <2>2. d = e
    BY <1>1, <1>3, <2>1 DEF Lines
  <2> QED BY <1>1, <1>3, <2>1, <2>2 DEF Lines, Names
<1>5. d.name \in declared_names
  <2>1. work[p][line] \in ToSet(work[p])
    BY <1>3 DEF ToSet
  <2>2. d \in Read(p)
    BY <1>1, <2>1 DEF Read
  <2> QED BY <1>1, <2>2 DEF declared_names
<1>6. Begins(n, d.name)
  BY <1>3, <1>4, LongerAssumption DEF Begins
<1> QED BY <1>5, <1>6 DEF unfollowable

\* The numbering is all that the two properties rest on.
LEMMA ShelfIsTrue == ShelfInv => PinsFindTheirLine /\ ToolsAgree
<1> SUFFICES ASSUME ShelfInv PROVE PinsFindTheirLine /\ ToolsAgree
  OBVIOUS
<1>1. PinsFindTheirLine
  BY PassingPins, StandingPins DEF PinsFindTheirLine
<1>2. ToolsAgree
  BY CitecheckAgrees, UnlandedAgrees DEF ToolsAgree
<1> QED BY <1>1, <1>2

\* However lines and files are moved, inserted, renamed and committed, and however
\* often the document is renumbered, pin_check.py finds the line of a pin whose
\* declaration stands in the file its address resolves to: right there, a drift
\* to it or its name within a line.  Where it passes, every strict pin has its
\* stem within a line of the place it cites (pin_check.py:131-199).
THEOREM PinsStand == RecordsSpec => []PinsFindTheirLine
<1>1. RecordsInit => ShelfInv
  BY ShelveHolds DEF RecordsInit
<1>2. ShelfInv /\ [RecordsNext]_<<vars, shelf>> => ShelfInv'
  BY ShelfKeeps DEF RecordsNext
<1>3. ShelfInv => PinsFindTheirLine
  BY ShelfIsTrue
<1> QED BY <1>1, <1>2, <1>3, PTL DEF RecordsSpec

\* In a clean worktree a pin that pin_check.py calls right is neither a MISS of
\* citecheck.py, when that resolves to the one file, nor a name that
\* cited_but_unlanded.py cannot follow, but for the fields of a structure.
THEOREM CheckersAgree == RecordsSpec => []ToolsAgree
<1>1. RecordsInit => ShelfInv
  BY ShelveHolds DEF RecordsInit
<1>2. ShelfInv /\ [RecordsNext]_<<vars, shelf>> => ShelfInv'
  BY ShelfKeeps DEF RecordsNext
<1>3. ShelfInv => ToolsAgree
  BY ShelfIsTrue
<1> QED BY <1>1, <1>2, <1>3, PTL DEF RecordsSpec
----------------------------------------------------------------------------
(* What the sessions write.                                                *)

Texts == DOMAIN Quotes
Record == [type : {"user", "assistant", "enqueue", "send"}, at : Nat, text : Texts,
           shape : {"plain", "command", "interrupt", "image", "injection", "loop"},
           origin : {"none", "human", "task-notification", "peer", "coordinator"},
           meta : BOOLEAN, result : BOOLEAN, sidechain : BOOLEAN, synthetic : BOOLEAN,
           request : Nat, tokens : Nat]
Item == [text : Texts, at : Nat, machine : BOOLEAN]

\* A record is not of a later moment; one that passes for a human's is a machine's
\* or a text of the seat's own human; what is sent is a payload.
Accounted(m, now, marked, f, i, r) ==
  /\ r \in Record /\ r.at >= 1 /\ r.at <= now
  /\ Human(r) => \/ <<f, i>> \in marked \/ r.text = "none"
                 \/ r.text \in m.texts /\ \E s \in m.seats : f = Main(s)
  /\ r.type = "send" => f \in m.senders /\ r.text \in m.payloads
\* What waits in the queue of a seat was typed there by a machine or its human.
Waiting(m, s, item) == item.machine \/ (item.text \in m.texts /\ s \in m.seats)

Written(m, now, marked, fs) ==
  /\ fs \in [DOMAIN Transcripts -> Seq(Record)]
  /\ \A f \in DOMAIN Transcripts : \A i \in DOMAIN fs[f] : Accounted(m, now, marked, f, i, fs[f][i])
Queues(m, qs) ==
  /\ qs \in [Seats -> Seq(Item)]
  /\ \A s \in Seats : \A i \in DOMAIN qs[s] : Waiting(m, s, qs[s][i])
Posted(now, ps) == \A p \in ps : /\ p.at \in Nat /\ p.at >= 1 /\ p.at <= now /\ p.seat \in DOMAIN Lane
                                 /\ p.form \in {"bracket", "annotated", "dash"}
LedgerInv ==
  /\ menu \in Menus /\ clock \in Nat /\ clock >= 1
  /\ Written(menu, clock, nudged, files)
  /\ Queues(menu, queued)
  /\ Posted(clock, posts)
  /\ wire \subseteq Seats \X Texts

\* Nothing is written at the start.
LEMMA InitAccounted == Init => LedgerInv
<1> SUFFICES ASSUME Init PROVE LedgerInv
  OBVIOUS
<1>1. files \in [DOMAIN Transcripts -> Seq(Record)] /\ \A f \in DOMAIN Transcripts : DOMAIN files[f] = {}
  BY DEF Init
<1>2. queued \in [Seats -> Seq(Item)] /\ \A s \in Seats : DOMAIN queued[s] = {}
  BY DEF Init
<1>3. Written(menu, clock, nudged, files)
  BY <1>1 DEF Written
<1>4. Queues(menu, queued)
  BY <1>2 DEF Queues
<1>5. Posted(clock, posts)
  BY DEF Init, Posted
<1>6. menu \in Menus /\ clock \in Nat /\ clock >= 1 /\ wire \subseteq Seats \X Texts
  BY DEF Init
<1> QED BY <1>3, <1>4, <1>5, <1>6 DEF LedgerInv

\* The last of a sequence.
LEMMA Appended ==
  ASSUME NEW T, NEW s \in Seq(T), NEW e \in T
  PROVE  /\ Append(s, e) \in Seq(T) /\ DOMAIN Append(s, e) = DOMAIN s \cup {Len(s) + 1}
         /\ \A i \in DOMAIN s : Append(s, e)[i] = s[i]
         /\ Append(s, e)[Len(s) + 1] = e /\ Len(s) + 1 \notin DOMAIN s
OBVIOUS

\* A seat's own transcript.
LEMMA MainIs ==
  ASSUME NEW s \in Seats
  PROVE  Main(s) \in DOMAIN Transcripts /\ Transcripts[Main(s)].seat = s /\ ~Transcripts[Main(s)].sub
<1>1. \E f \in DOMAIN Transcripts : Transcripts[f].seat = s /\ ~Transcripts[f].sub
  BY SeatsAssumption
<1> QED BY <1>1 DEF Main

\* Time passes, and more is known of machines: what was accounted for still is.
LEMMA StillAccounted ==
  ASSUME NEW m, NEW now \in Nat, NEW later \in Nat, now <= later, NEW marked, NEW more, marked \subseteq more,
         NEW f, NEW i, NEW r, Accounted(m, now, marked, f, i, r)
  PROVE  Accounted(m, later, more, f, i, r)
<1>1. r.at \in Nat
  BY DEF Accounted, Record
<1> QED BY <1>1 DEF Accounted

\* A record is written, or is lost.
LEMMA WriteKeeps ==
  ASSUME LedgerInv, NEW f \in DOMAIN Transcripts, NEW rec, Write(f, rec), NEW more, nudged \subseteq more,
         Accounted(menu, clock, more, f, Len(files[f]) + 1, rec)
  PROVE  Written(menu, clock, more, files')
<1>1. files \in [DOMAIN Transcripts -> Seq(Record)] /\ clock \in Nat
  BY DEF LedgerInv, Written
<1>2. \A g \in DOMAIN Transcripts : \A i \in DOMAIN files[g] : Accounted(menu, clock, more, g, i, files[g][i])
  <2>1. ASSUME NEW g \in DOMAIN Transcripts, NEW i \in DOMAIN files[g]
        PROVE  Accounted(menu, clock, nudged, g, i, files[g][i])
    BY <2>1 DEF LedgerInv, Written
  <2>2. clock <= clock
    BY <1>1
  <2> QED BY <1>1, <2>1, <2>2, StillAccounted
<1>3. CASE ~recording
  <2>1. files' = files
    BY <1>3 DEF Write
  <2> QED BY <1>1, <1>2, <2>1 DEF Written
<1>4. CASE recording
  <2> DEFINE new == Append(files[f], rec)
  <2>1. files' = [files EXCEPT ![f] = new]
    BY <1>4 DEF Write
  <2>2. rec \in Record /\ files[f] \in Seq(Record)
    BY <1>1 DEF Accounted
  <2>3. /\ new \in Seq(Record) /\ DOMAIN new = DOMAIN files[f] \cup {Len(files[f]) + 1}
        /\ \A i \in DOMAIN files[f] : new[i] = files[f][i]
        /\ new[Len(files[f]) + 1] = rec
    BY <2>2, Appended
  <2> HIDE DEF new
  <2>4. \A g \in DOMAIN Transcripts : files'[g] = IF g = f THEN new ELSE files[g]
    BY <1>1, <2>1
  <2>5. files' \in [DOMAIN Transcripts -> Seq(Record)]
    BY <1>1, <2>1, <2>3
  <2>6. ASSUME NEW g \in DOMAIN Transcripts, NEW i \in DOMAIN files'[g]
        PROVE  Accounted(menu, clock, more, g, i, files'[g][i])
    <3>1. CASE g = f /\ i = Len(files[f]) + 1
      BY <2>3, <2>4, <3>1
    <3>2. CASE ~(g = f /\ i = Len(files[f]) + 1)
      <4>1. i \in DOMAIN files[g] /\ files'[g][i] = files[g][i]
        <5>1. CASE g = f
          BY <2>3, <2>4, <2>6, <3>2, <5>1
        <5>2. CASE g # f
          BY <2>4, <2>6, <5>2
        <5> QED BY <5>1, <5>2
      <4> QED BY <1>2, <4>1
    <3> QED BY <3>1, <3>2
  <2> QED BY <2>5, <2>6 DEF Written
<1> QED BY <1>3, <1>4

\* The records of the client.
LEMMA BlankIs ==
  ASSUME LedgerInv
  PROVE  /\ Blank \in Record /\ Blank.at = clock /\ Blank.type = "user" /\ Blank.text = "none"
         /\ menu \in Menus /\ menu.modern \in BOOLEAN
<1>1. menu \in Menus /\ clock \in Nat
  BY DEF LedgerInv
<1>2. menu.modern \in BOOLEAN /\ {"none"} \subseteq DOMAIN Quotes
  BY <1>1, MenusAssumption
<1>3. "none" \in Texts
  BY <1>2 DEF Texts
<1>4. Blank \in Record
  BY <1>1, <1>3 DEF Blank, Record
<1> QED BY <1>1, <1>2, <1>4 DEF Blank

\* What a human types or does is a record of the moment.
LEMMA HumanRecordIs ==
  ASSUME LedgerInv, NEW text \in Texts,
         NEW kind \in {"typed", "pasted", "command", "interrupt", "image"}
  PROVE  LET r == HumanRecord(kind, text) IN
         r \in Record /\ r.at = clock /\ r.type = "user" /\ r.text \in {"none", text}
<1>1. By("human") \in {"none", "human"}
  <2>1. CASE menu.modern
    BY <2>1 DEF By
  <2>2. CASE ~menu.modern
    BY <2>2 DEF By
  <2> QED BY <2>1, <2>2
<1>2. HumanRecord("typed", text) = [Blank EXCEPT !.text = text, !.origin = By("human")]
  BY DEF HumanRecord
<1>3. HumanRecord("pasted", text) = [Blank EXCEPT !.text = text, !.origin = By("human"), !.shape = "injection"]
  BY DEF HumanRecord
<1>4. kind \in {"command", "interrupt", "image"} => HumanRecord(kind, text) = [Blank EXCEPT !.shape = kind]
  BY DEF HumanRecord
<1>5. CASE kind = "typed"
  BY <1>1, <1>2, <1>5, BlankIs DEF Record
<1>6. CASE kind = "pasted"
  BY <1>1, <1>3, <1>6, BlankIs DEF Record
<1>7. CASE kind \in {"command", "interrupt", "image"}
  BY <1>4, <1>7, BlankIs DEF Record
<1> QED BY <1>5, <1>6, <1>7

\* Nothing the harness writes passes for a human's.
LEMMA InjectedRecordIs ==
  ASSUME LedgerInv, NEW text \in Texts,
         NEW kind \in {"tick", "task-notification", "peer", "coordinator", "summary", "result", "sidechain"}
  PROVE  LET r == InjectedRecord(kind, text) IN
         r \in Record /\ r.at = clock /\ r.type = "user" /\ ~Human(r)
<1> DEFINE r == InjectedRecord(kind, text)
<1>1. Blank.shape = "plain" /\ Blank.origin = "none" /\ Blank.meta = FALSE /\ Blank.result = FALSE /\ Blank.sidechain = FALSE
  BY DEF Blank
<1>2. CASE kind = "tick"
  <2>1. r = [Blank EXCEPT !.text = text, !.meta = menu.modern, !.shape = IF menu.modern THEN "plain" ELSE "loop"]
    BY <1>2 DEF InjectedRecord
  <2> HIDE DEF r
  <2>2. /\ r \in Record /\ r.at = clock /\ r.type = "user" /\ r.meta = menu.modern /\ r.origin = "none"
        /\ r.shape = (IF menu.modern THEN "plain" ELSE "loop") /\ r.result = FALSE /\ r.sidechain = FALSE
    BY <1>1, <2>1, BlankIs DEF Record
  <2>3. classify_user_record(r) \notin HUMAN_KINDS
    BY <2>2, BlankIs DEF classify_user_record, by_text, HUMAN_KINDS
  <2> QED BY <2>2, <2>3 DEF Human, r
<1>3. CASE kind \in {"task-notification", "peer", "coordinator"}
  <2>1. r = [Blank EXCEPT !.origin = By(kind), !.shape = IF menu.modern THEN "plain" ELSE "injection"]
    BY <1>3 DEF InjectedRecord
  <2> HIDE DEF r
  <2>2. /\ r \in Record /\ r.at = clock /\ r.type = "user" /\ r.meta = FALSE /\ r.origin = By(kind)
        /\ r.shape = (IF menu.modern THEN "plain" ELSE "injection") /\ r.result = FALSE /\ r.sidechain = FALSE
    <3>1. By(kind) \in {"none", "task-notification", "peer", "coordinator"}
      BY <1>3 DEF By
    <3>2. (IF menu.modern THEN "plain" ELSE "injection") \in {"plain", "injection"}
      OBVIOUS
    <3> QED BY <1>1, <2>1, <3>1, <3>2, BlankIs DEF Record
  <2>3. classify_user_record(r) \notin HUMAN_KINDS
    <3>1. CASE menu.modern
      BY <1>3, <2>2, <3>1 DEF classify_user_record, HUMAN_KINDS, By
    <3>2. CASE ~menu.modern
      BY <2>2, <3>2 DEF classify_user_record, by_text, HUMAN_KINDS, By
    <3> QED BY <3>1, <3>2
  <2> QED BY <2>2, <2>3 DEF Human, r
<1>4. CASE kind = "summary"
  <2>1. r = [Blank EXCEPT !.shape = "injection"]
    BY <1>4 DEF InjectedRecord
  <2> HIDE DEF r
  <2>2. /\ r \in Record /\ r.at = clock /\ r.type = "user" /\ r.meta = FALSE /\ r.origin = "none"
        /\ r.shape = "injection" /\ r.result = FALSE /\ r.sidechain = FALSE
    BY <1>1, <2>1, BlankIs DEF Record
  <2>3. classify_user_record(r) \notin HUMAN_KINDS
    BY <2>2 DEF classify_user_record, by_text, HUMAN_KINDS
  <2> QED BY <2>2, <2>3 DEF Human, r
<1>5. CASE kind = "result"
  <2>1. r = [Blank EXCEPT !.result = TRUE]
    BY <1>5 DEF InjectedRecord
  <2> HIDE DEF r
  <2>2. r \in Record /\ r.at = clock /\ r.type = "user" /\ r.result = TRUE
    BY <1>1, <2>1, BlankIs DEF Record
  <2>3. classify_user_record(r) \notin HUMAN_KINDS
    BY <2>2 DEF classify_user_record, HUMAN_KINDS
  <2> QED BY <2>2, <2>3 DEF Human, r
<1>6. CASE kind = "sidechain"
  <2>1. r = [Blank EXCEPT !.sidechain = TRUE]
    BY <1>6 DEF InjectedRecord
  <2> HIDE DEF r
  <2>2. r \in Record /\ r.at = clock /\ r.type = "user" /\ r.result = FALSE /\ r.sidechain = TRUE
    BY <1>1, <2>1, BlankIs DEF Record
  <2>3. classify_user_record(r) \notin HUMAN_KINDS
    BY <2>2 DEF classify_user_record, HUMAN_KINDS
  <2> QED BY <2>2, <2>3 DEF Human, r
<1> QED BY <1>2, <1>3, <1>4, <1>5, <1>6

\* What a menu allows.
LEMMA MenuIs ==
  ASSUME LedgerInv
  PROVE  /\ menu \in Menus /\ clock \in Nat /\ clock >= 1 /\ menu.modern \in BOOLEAN /\ menu.steps \in Nat
         /\ menu.seats \subseteq Seats /\ menu.targets \subseteq Seats /\ Seats \subseteq DOMAIN Lane
         /\ menu.senders \subseteq DOMAIN Transcripts
         /\ menu.texts \subseteq Texts /\ menu.payloads \subseteq Texts /\ "none" \in Texts
         /\ menu.touches \subseteq {"command", "interrupt", "image", "pasted"}
         /\ menu.injects \subseteq {"tick", "task-notification", "peer", "coordinator", "summary", "result", "sidechain"}
<1>1. menu \in Menus /\ clock \in Nat /\ clock >= 1
  BY DEF LedgerInv
<1>2. /\ menu.modern \in BOOLEAN /\ menu.steps \in Nat
      /\ menu.seats \cup menu.targets \subseteq Seats
      /\ menu.senders \subseteq DOMAIN Transcripts
      /\ menu.texts \cup menu.payloads \cup {"none"} \subseteq DOMAIN Quotes
      /\ menu.touches \subseteq {"command", "interrupt", "image", "pasted"}
      /\ menu.injects \subseteq {"tick", "task-notification", "peer", "coordinator", "summary", "result", "sidechain"}
  BY <1>1, MenusAssumption
<1> QED BY <1>1, <1>2, SeatsAssumption DEF Texts

\* A step that writes a record.
LEMMA WritingKeeps ==
  ASSUME LedgerInv, NEW f \in DOMAIN Transcripts, NEW rec, Write(f, rec), nudged \subseteq nudged',
         Accounted(menu, clock, nudged', f, Len(files[f]) + 1, rec),
         UNCHANGED <<menu, clock>>, Queues(menu, queued'), Posted(clock, posts'), wire' \subseteq Seats \X Texts
  PROVE  LedgerInv'
<1>1. Written(menu, clock, nudged', files')
  BY WriteKeeps
<1>2. menu' = menu /\ clock' = clock /\ menu \in Menus /\ clock \in Nat /\ clock >= 1
  BY DEF LedgerInv
<1>3. Written(menu', clock', nudged', files') /\ Queues(menu', queued') /\ Posted(clock', posts')
  BY <1>1, <1>2
<1>4. Written(menu, clock, nudged, files)' /\ Queues(menu, queued)' /\ Posted(clock, posts)'
  BY <1>3 DEF Written, Queues, Posted
<1> QED BY <1>2, <1>4 DEF LedgerInv

\* A record that passes for no human's, and is not of a send.
LEMMA PlainRecord ==
  ASSUME LedgerInv, NEW rec \in Record, rec.at = clock, ~Human(rec), rec.type # "send", NEW more, NEW f, NEW i
  PROVE  Accounted(menu, clock, more, f, i, rec)
<1>1. clock \in Nat /\ clock >= 1
  BY DEF LedgerInv
<1> QED BY <1>1 DEF Accounted

\* A step that writes such a record, and has no other effect.
LEMMA PlainKeeps ==
  ASSUME LedgerInv, NEW f \in DOMAIN Transcripts, NEW rec \in Record, rec.at = clock, ~Human(rec), rec.type # "send",
         Write(f, rec), UNCHANGED <<menu, clock, posts, queued, wire, nudged>>
  PROVE  LedgerInv'
<1>1. Accounted(menu, clock, nudged', f, Len(files[f]) + 1, rec)
  BY PlainRecord
<1>2. Queues(menu, queued') /\ Posted(clock, posts') /\ wire' \subseteq Seats \X Texts
  BY DEF LedgerInv
<1> QED BY <1>1, <1>2, WritingKeeps

\* A step that writes nothing.
LEMMA IdleKeeps ==
  ASSUME LedgerInv, UNCHANGED <<menu, files, queued, wire, nudged>>,
         clock' \in Nat, clock <= clock', Posted(clock', posts')
  PROVE  LedgerInv'
<1>1. menu' = menu /\ menu \in Menus /\ clock \in Nat /\ clock' >= 1 /\ wire' \subseteq Seats \X Texts
  BY DEF LedgerInv
<1>2. Written(menu', clock', nudged', files')
  <2>1. files \in [DOMAIN Transcripts -> Seq(Record)]
    BY DEF LedgerInv, Written
  <2>2. ASSUME NEW g \in DOMAIN Transcripts, NEW i \in DOMAIN files[g]
        PROVE  Accounted(menu, clock', nudged, g, i, files[g][i])
    <3>1. Accounted(menu, clock, nudged, g, i, files[g][i])
      BY <2>2 DEF LedgerInv, Written
    <3> QED BY <1>1, <3>1, StillAccounted
  <2> QED BY <1>1, <2>1, <2>2 DEF Written
<1>3. Queues(menu', queued')
  BY <1>1 DEF LedgerInv
<1>4. Written(menu, clock, nudged, files)' /\ Queues(menu, queued)' /\ Posted(clock, posts)'
  BY <1>2, <1>3 DEF Written, Queues, Posted
<1> QED BY <1>1, <1>4 DEF LedgerInv

\* What is typed by a human, or has arrived from a machine.
LEMMA TypedIs ==
  ASSUME LedgerInv, NEW s \in Seats, NEW text \in Texts, NEW machine \in BOOLEAN, NEW more,
         nudged \subseteq more, machine => Next1(Main(s)) \in more, ~machine => text \in menu.texts /\ s \in menu.seats
  PROVE  Accounted(menu, clock, more, Main(s), Len(files[Main(s)]) + 1, HumanRecord("typed", text))
<1> DEFINE r == HumanRecord("typed", text)
<1>1. r \in Record /\ r.at = clock /\ r.type = "user" /\ r.text \in {"none", text}
  BY HumanRecordIs
<1> HIDE DEF r
<1>2. clock \in Nat /\ clock >= 1
  BY DEF LedgerInv
<1>3. \/ <<Main(s), Len(files[Main(s)]) + 1>> \in more \/ r.text = "none"
      \/ r.text \in menu.texts /\ \E t \in menu.seats : Main(s) = Main(t)
  BY <1>1 DEF Next1
<1>4. Accounted(menu, clock, more, Main(s), Len(files[Main(s)]) + 1, r)
  BY <1>1, <1>2, <1>3 DEF Accounted
<1> QED BY <1>4 DEF r

\* A text reaches a seat, which is busy or not.
LEMMA ReachKeeps ==
  ASSUME LedgerInv, NEW s \in Seats, NEW text \in Texts, NEW machine \in BOOLEAN,
         ~machine => text \in menu.texts /\ s \in menu.seats, Reach(s, text, machine),
         UNCHANGED <<menu, clock, posts>>, wire' \subseteq Seats \X Texts
  PROVE  LedgerInv'
<1>1. Main(s) \in DOMAIN Transcripts
  BY MainIs
<1>2. Posted(clock, posts')
  BY DEF LedgerInv
<1>3. CASE s \in busy
  <2> DEFINE rec == [Blank EXCEPT !.type = "enqueue", !.text = text]
             item == [text |-> text, at |-> clock, machine |-> machine]
  <2>1. Write(Main(s), rec) /\ nudged' = nudged /\ queued' = [queued EXCEPT ![s] = Append(queued[s], item)]
    BY <1>3 DEF Reach
  <2>2. rec \in Record /\ rec.at = clock /\ rec.type = "enqueue"
    BY BlankIs DEF Record
  <2>3. Accounted(menu, clock, nudged', Main(s), Len(files[Main(s)]) + 1, rec)
    <3> HIDE DEF rec
    <3>1. ~Human(rec) /\ rec.type # "send"
      BY <2>2 DEF Human
    <3> QED BY <2>2, <3>1, PlainRecord
  <2>4. Queues(menu, queued')
    <3>1. item \in Item
      BY MenuIs DEF Item
    <3>2. queued \in [Seats -> Seq(Item)] /\ \A t \in Seats : \A i \in DOMAIN queued[t] : Waiting(menu, t, queued[t][i])
      BY DEF LedgerInv, Queues
    <3> DEFINE new == Append(queued[s], item)
    <3>3. queued[s] \in Seq(Item)
      BY <3>2
    <3>4. /\ new \in Seq(Item) /\ DOMAIN new = DOMAIN queued[s] \cup {Len(queued[s]) + 1}
          /\ \A i \in DOMAIN queued[s] : new[i] = queued[s][i]
          /\ new[Len(queued[s]) + 1] = item
      BY <3>1, <3>3, Appended
    <3>5. Waiting(menu, s, item)
      BY DEF Waiting
    <3> HIDE DEF new, item
    <3>6. queued' \in [Seats -> Seq(Item)] /\ queued'[s] = new /\ \A t \in Seats : t # s => queued'[t] = queued[t]
      BY <2>1, <3>2, <3>4 DEF new
    <3>7. \A i \in DOMAIN new : Waiting(menu, s, new[i])
      BY <3>2, <3>4, <3>5
    <3> QED BY <3>2, <3>6, <3>7 DEF Queues
  <2>5. nudged \subseteq nudged'
    BY <2>1
  <2> HIDE DEF rec, item
  <2> QED BY <1>1, <1>2, <2>1, <2>3, <2>4, <2>5, WritingKeeps
<1>4. CASE s \notin busy
  <2>1. /\ Write(Main(s), HumanRecord("typed", text)) /\ queued' = queued
        /\ nudged' = IF machine THEN nudged \cup {Next1(Main(s))} ELSE nudged
    BY <1>4 DEF Reach
  <2>2. nudged \subseteq nudged' /\ (machine => Next1(Main(s)) \in nudged')
    BY <2>1
  <2>3. Accounted(menu, clock, nudged', Main(s), Len(files[Main(s)]) + 1, HumanRecord("typed", text))
    BY <2>2, TypedIs
  <2>4. Queues(menu, queued')
    BY <2>1 DEF LedgerInv
  <2> QED BY <1>1, <1>2, <2>1, <2>2, <2>3, <2>4, WritingKeeps
<1> QED BY <1>3, <1>4

\* The first of a sequence, and the others.
LEMMA Split ==
  ASSUME NEW T, NEW s \in Seq(T), s # <<>>
  PROVE  /\ Head(s) = s[1] /\ 1 \in DOMAIN s /\ s[1] \in T /\ Tail(s) \in Seq(T)
         /\ \A i \in DOMAIN Tail(s) : i + 1 \in DOMAIN s /\ Tail(s)[i] = s[i + 1]
OBVIOUS

\* A queued text is read.
LEMMA DequeueKeeps ==
  ASSUME LedgerInv, NEW s \in Seats, Dequeue(s)
  PROVE  LedgerInv'
<1> DEFINE item == Head(queued[s])
<1>1. queued \in [Seats -> Seq(Item)] /\ \A t \in Seats : \A i \in DOMAIN queued[t] : Waiting(menu, t, queued[t][i])
  BY DEF LedgerInv, Queues
<1>2. queued[s] \in Seq(Item) /\ queued[s] # <<>>
  BY <1>1 DEF Dequeue
<1>3. /\ item = queued[s][1] /\ 1 \in DOMAIN queued[s] /\ item \in Item /\ Tail(queued[s]) \in Seq(Item)
      /\ \A i \in DOMAIN Tail(queued[s]) : i + 1 \in DOMAIN queued[s] /\ Tail(queued[s])[i] = queued[s][i + 1]
  BY <1>2, Split
<1>4. Waiting(menu, s, item)
  BY <1>1, <1>3
<1>5. /\ Write(Main(s), HumanRecord("typed", item.text))
      /\ nudged' = IF item.machine THEN nudged \cup {Next1(Main(s))} ELSE nudged
      /\ queued' = [queued EXCEPT ![s] = Tail(queued[s])]
      /\ menu' = menu /\ clock' = clock /\ posts' = posts /\ wire' = wire
  BY DEF Dequeue
<1> HIDE DEF item
<1>6. item.text \in Texts /\ item.machine \in BOOLEAN /\ (~item.machine => item.text \in menu.texts /\ s \in menu.seats)
  BY <1>3, <1>4 DEF Item, Waiting
<1>7. nudged \subseteq nudged' /\ (item.machine => Next1(Main(s)) \in nudged')
  BY <1>5
<1>8. Accounted(menu, clock, nudged', Main(s), Len(files[Main(s)]) + 1, HumanRecord("typed", item.text))
  BY <1>6, <1>7, TypedIs
<1>9. Queues(menu, queued')
  <2>1. queued' \in [Seats -> Seq(Item)] /\ queued'[s] = Tail(queued[s]) /\ \A t \in Seats : t # s => queued'[t] = queued[t]
    BY <1>1, <1>3, <1>5
  <2>2. \A i \in DOMAIN Tail(queued[s]) : Waiting(menu, s, Tail(queued[s])[i])
    BY <1>1, <1>3
  <2> QED BY <1>1, <2>1, <2>2 DEF Queues
<1>10. Main(s) \in DOMAIN Transcripts /\ Posted(clock, posts') /\ wire' \subseteq Seats \X Texts /\ UNCHANGED <<menu, clock>>
  BY <1>5, MainIs DEF LedgerInv
<1> QED BY <1>5, <1>7, <1>8, <1>9, <1>10, WritingKeeps

\* One lemma for each thing a session does.
LEMMA TypeKeeps ==
  ASSUME LedgerInv, NEW s \in menu.seats, NEW text \in menu.texts, Type(s, text)
  PROVE  LedgerInv'
<1>1. s \in Seats /\ text \in Texts
  BY MenuIs
<1>2. Reach(s, text, FALSE) /\ UNCHANGED <<menu, clock, posts>> /\ wire' \subseteq Seats \X Texts
  BY DEF Type, Step, LedgerInv
<1> QED BY <1>1, <1>2, ReachKeeps

LEMMA TouchKeeps ==
  ASSUME LedgerInv, NEW s \in menu.seats, NEW kind \in menu.touches, Touch(s, kind)
  PROVE  LedgerInv'
<1> DEFINE rec == HumanRecord(kind, "none")
<1>1. s \in Seats /\ kind \in {"typed", "pasted", "command", "interrupt", "image"} /\ "none" \in Texts
  BY MenuIs
<1>2. rec \in Record /\ rec.at = clock /\ rec.type = "user" /\ rec.text = "none"
  BY <1>1, HumanRecordIs
<1>3. Write(Main(s), rec) /\ UNCHANGED <<menu, clock, posts, queued, wire, nudged>>
  BY DEF Touch, Step, session
<1> HIDE DEF rec
<1>4. Accounted(menu, clock, nudged', Main(s), Len(files[Main(s)]) + 1, rec)
  BY <1>2, MenuIs DEF Accounted
<1>5. Queues(menu, queued') /\ Posted(clock, posts') /\ wire' \subseteq Seats \X Texts /\ nudged \subseteq nudged'
  BY <1>3 DEF LedgerInv
<1> QED BY <1>1, <1>3, <1>4, <1>5, MainIs, WritingKeeps

LEMMA InjectKeeps ==
  ASSUME LedgerInv, NEW s \in menu.seats, NEW kind \in menu.injects, NEW text \in menu.texts, Inject(s, kind, text)
  PROVE  LedgerInv'
<1> DEFINE rec == InjectedRecord(kind, text)
<1>1. /\ s \in Seats /\ text \in Texts
      /\ kind \in {"tick", "task-notification", "peer", "coordinator", "summary", "result", "sidechain"}
  BY MenuIs
<1>2. rec \in Record /\ rec.at = clock /\ rec.type = "user" /\ ~Human(rec)
  BY <1>1, InjectedRecordIs
<1>3. Write(Main(s), rec) /\ UNCHANGED <<menu, clock, posts, queued, wire, nudged>>
  BY DEF Inject, Step, session, truth
<1> HIDE DEF rec
<1> QED BY <1>1, <1>2, <1>3, MainIs, PlainKeeps

LEMMA SendKeeps ==
  ASSUME LedgerInv, NEW s \in menu.targets, NEW text \in menu.payloads, NEW f \in menu.senders, Send(f, s, text)
  PROVE  LedgerInv'
<1> DEFINE rec == [Blank EXCEPT !.type = "send", !.text = text]
<1>1. s \in Seats /\ text \in Texts /\ f \in DOMAIN Transcripts
  BY MenuIs
<1>2. rec \in Record /\ rec.at = clock /\ rec.type = "send" /\ rec.text = text
  BY <1>1, BlankIs DEF Record
<1>3. Write(f, rec) /\ UNCHANGED <<menu, clock, posts, queued, nudged>> /\ wire' = wire \cup {<<s, text>>}
  BY DEF Send, Step
<1> HIDE DEF rec
<1>4. Accounted(menu, clock, nudged', f, Len(files[f]) + 1, rec)
  BY <1>2, MenuIs DEF Accounted, Human
<1>5. Queues(menu, queued') /\ Posted(clock, posts') /\ nudged \subseteq nudged'
  BY <1>3 DEF LedgerInv
<1>6. wire' \subseteq Seats \X Texts
  BY <1>1, <1>3 DEF LedgerInv
<1> QED BY <1>1, <1>3, <1>4, <1>5, <1>6, WritingKeeps

LEMMA DeliverKeeps ==
  ASSUME LedgerInv, NEW s \in menu.targets, NEW text \in menu.payloads, Deliver(s, text)
  PROVE  LedgerInv'
<1>1. s \in Seats /\ text \in Texts
  BY MenuIs
<1>2. Reach(s, text, TRUE) /\ UNCHANGED <<menu, clock, posts>> /\ wire' \subseteq Seats \X Texts
  BY DEF Deliver, LedgerInv
<1> QED BY <1>1, <1>2, ReachKeeps

\* What a session answers, fails at or reports of a commit is an assistant's.
LEMMA AssistantIs ==
  ASSUME LedgerInv, NEW id \in Nat
  PROVE  LET a == [Blank EXCEPT !.type = "assistant", !.request = id, !.tokens = 10 * id]
             b == [Blank EXCEPT !.type = "assistant", !.synthetic = TRUE]
         IN  /\ a \in Record /\ a.at = clock /\ ~Human(a) /\ a.type # "send"
             /\ b \in Record /\ b.at = clock /\ ~Human(b) /\ b.type # "send"
<1> DEFINE a == [Blank EXCEPT !.type = "assistant", !.request = id, !.tokens = 10 * id]
           b == [Blank EXCEPT !.type = "assistant", !.synthetic = TRUE]
<1>1. 10 * id \in Nat
  OBVIOUS
<1>2. a \in Record /\ a.at = clock /\ a.type = "assistant"
  BY <1>1, BlankIs DEF Record
<1>3. b \in Record /\ b.at = clock /\ b.type = "assistant"
  BY BlankIs DEF Record
<1> HIDE DEF a, b
<1>4. ~Human(a) /\ ~Human(b) /\ a.type # "send" /\ b.type # "send"
  BY <1>2, <1>3 DEF Human
<1> QED BY <1>2, <1>3, <1>4 DEF a, b

LEMMA AnswerKeeps ==
  ASSUME LedgerInv, NEW f \in DOMAIN Transcripts, NEW id \in 1..menu.steps, Answer(f, id)
  PROVE  LedgerInv'
<1>1. id \in Nat
  BY MenuIs
<1>2. Write(f, [Blank EXCEPT !.type = "assistant", !.request = id, !.tokens = 10 * id])
      /\ UNCHANGED <<menu, clock, posts, queued, wire, nudged>>
  BY DEF Answer, Step, session
<1> QED BY <1>1, <1>2, AssistantIs, PlainKeeps

LEMMA FailKeeps ==
  ASSUME LedgerInv, NEW f \in DOMAIN Transcripts, Fail(f) \/ Commit(f)
  PROVE  LedgerInv'
<1>1. Write(f, [Blank EXCEPT !.type = "assistant", !.synthetic = TRUE])
      /\ UNCHANGED <<menu, clock, posts, queued, wire, nudged>>
  BY DEF Fail, Commit, Step, session, truth
<1> QED BY <1>1, AssistantIs, PlainKeeps

LEMMA PostKeeps ==
  ASSUME LedgerInv, NEW s \in menu.seats, NEW form \in {"bracket", "annotated", "dash"}, Post(s, form)
  PROVE  LedgerInv'
<1> DEFINE p == [seat |-> s, at |-> clock, form |-> form]
<1>1. posts' = posts \cup {p} /\ clock' = clock /\ UNCHANGED <<menu, files, queued, wire, nudged>>
  BY DEF Post, Step, session, truth
<1>2. p.seat \in DOMAIN Lane /\ p.at = clock /\ p.form \in {"bracket", "annotated", "dash"}
  BY MenuIs
<1>3. clock \in Nat /\ clock >= 1 /\ Posted(clock, posts)
  BY DEF LedgerInv
<1> HIDE DEF p
<1>4. Posted(clock', posts')
  BY <1>1, <1>2, <1>3 DEF Posted
<1>5. clock' \in Nat /\ clock <= clock'
  BY <1>1, <1>3
<1> QED BY <1>1, <1>4, <1>5, IdleKeeps

LEMMA TickKeeps ==
  ASSUME LedgerInv, Tick
  PROVE  LedgerInv'
<1>1. clock' = clock + 1 /\ UNCHANGED <<menu, files, posts, queued, wire, nudged>>
  BY DEF Tick, session, truth
<1>2. clock \in Nat /\ Posted(clock, posts)
  BY DEF LedgerInv
<1>3. clock' \in Nat /\ clock <= clock' /\ Posted(clock', posts')
  BY <1>1, <1>2 DEF Posted
<1> QED BY <1>1, <1>3, IdleKeeps

\* A step that none of this depends on.
LEMMA RestKeeps ==
  ASSUME LedgerInv, UNCHANGED <<menu, clock, files, posts, queued, wire, nudged>>
  PROVE  LedgerInv'
<1>1. clock' \in Nat /\ clock <= clock' /\ Posted(clock', posts')
  BY DEF LedgerInv
<1> QED BY <1>1, IdleKeeps

\* No step leaves a record unaccounted for.
LEMMA LedgerKeeps == LedgerInv /\ [Next]_vars => LedgerInv'
<1> SUFFICES ASSUME LedgerInv, [Next]_vars PROVE LedgerInv'
  OBVIOUS
<1>1. CASE UNCHANGED vars
  BY <1>1, RestKeeps DEF vars, session, truth
<1>2. CASE Tick
  BY <1>2, TickKeeps
<1>3. CASE Lose \/ Resume
  BY <1>3, RestKeeps DEF Lose, Resume, Step, session, truth
<1>4. ASSUME NEW s \in Seats, Dequeue(s) \/ Finish(s)
      PROVE  LedgerInv'
  <2>1. Finish(s) => UNCHANGED <<menu, clock, files, posts, queued, wire, nudged>>
    BY DEF Finish, truth
  <2> QED BY <1>4, <2>1, DequeueKeeps, RestKeeps
<1>5. ASSUME NEW s \in menu.seats \cup menu.targets, Start(s)
      PROVE  LedgerInv'
  BY <1>5, RestKeeps DEF Start, Step, truth
<1>6. ASSUME NEW s \in menu.seats,
             \/ \E text \in menu.texts : Type(s, text)
             \/ \E kind \in menu.touches : Touch(s, kind)
             \/ \E kind \in menu.injects, text \in menu.texts : Inject(s, kind, text)
             \/ \E form \in {"bracket", "annotated", "dash"} : Post(s, form)
             \/ \E f \in {g \in DOMAIN Transcripts : Transcripts[g].seat = s} :
                  \/ Commit(f) \/ Fail(f) \/ \E id \in 1..menu.steps : Answer(f, id)
      PROVE  LedgerInv'
  <2>1. CASE \E text \in menu.texts : Type(s, text)
    BY <2>1, TypeKeeps
  <2>2. CASE \E kind \in menu.touches : Touch(s, kind)
    BY <2>2, TouchKeeps
  <2>3. CASE \E kind \in menu.injects, text \in menu.texts : Inject(s, kind, text)
    BY <2>3, InjectKeeps
  <2>4. CASE \E form \in {"bracket", "annotated", "dash"} : Post(s, form)
    BY <2>4, PostKeeps
  <2>5. ASSUME NEW f \in DOMAIN Transcripts, Commit(f) \/ Fail(f) \/ \E id \in 1..menu.steps : Answer(f, id)
        PROVE  LedgerInv'
    BY <2>5, FailKeeps, AnswerKeeps
  <2> QED BY <1>6, <2>1, <2>2, <2>3, <2>4, <2>5
<1>7. ASSUME NEW s \in menu.targets, NEW text \in menu.payloads,
             Deliver(s, text) \/ \E f \in menu.senders : Send(f, s, text)
      PROVE  LedgerInv'
  BY <1>7, DeliverKeeps, SendKeeps
<1>8. ASSUME NEW b, NEW cat, Tag(b, cat)
      PROVE  LedgerInv'
  BY <1>8, RestKeeps DEF Tag, Step, session, truth
<1> QED BY <1>1, <1>2, <1>3, <1>4, <1>5, <1>6, <1>7, <1>8 DEF Next

\* A set of naturals has a least member.
LEMMA LeastOf ==
  ASSUME NEW T \in SUBSET Nat, T # {}
  PROVE  \E x \in T : \A y \in T : x <= y
<1> DEFINE R == {ss \in Nat \X Nat : ss[1] < ss[2]}
<1>1. IsWellFoundedOn(R, Nat)
  BY NatLessThanWellFounded DEF OpToRel
<1>2. \E x \in T : \A y \in T : ~ (<<y, x>> \in R)
  <2> HIDE DEF R
  <2> QED
    BY <1>1, WFMin
<1>3. PICK x \in T : \A y \in T : ~ (<<y, x>> \in R)
  BY <1>2
<1>4. ASSUME NEW y \in T
      PROVE  x <= y
  <2>1. x \in Nat /\ y \in Nat /\ <<y, x>> \in Nat \X Nat /\ <<y, x>>[1] = y /\ <<y, x>>[2] = x
    OBVIOUS
  <2>2. ~ (y < x)
    BY <1>3, <2>1
  <2> QED
    BY <2>1, <2>2
<1> QED
  BY <1>4

\* A set of moments up to now has a last one, and a first one.
LEMMA LatestIs ==
  ASSUME NEW n \in Nat, NEW S \in SUBSET (1..n), S # {}, NEW none
  PROVE  /\ Latest(S, none) \in S /\ \A y \in S : Latest(S, none) >= y
         /\ Earliest(S, none) \in S /\ \A y \in S : Earliest(S, none) <= y
<1>1. \E x \in S : \A y \in S : x <= y
  <2>1. S \in SUBSET Nat
    OBVIOUS
  <2> QED BY <2>1, LeastOf
<1>2. \E x \in S : \A y \in S : x >= y
  <2> DEFINE T == {k \in Nat : n - k \in S}
  <2>1. PICK y \in S : TRUE
    OBVIOUS
  <2>2. n - y \in T
    OBVIOUS
  <2>3. PICK k \in T : \A j \in T : k <= j
    BY <2>2, LeastOf
  <2>4. n - k \in S /\ k \in Nat
    OBVIOUS
  <2>5. ASSUME NEW x \in S PROVE n - k >= x
    <3>1. n - x \in T
      OBVIOUS
    <3>2. k <= n - x
      BY <2>3, <3>1
    <3> QED BY <2>4, <3>2
  <2> QED BY <2>4, <2>5
<1>3. Max(S) \in S /\ \A y \in S : Max(S) >= y
  BY <1>2 DEF Max
<1>4. Min(S) \in S /\ \A y \in S : Min(S) <= y
  BY <1>1 DEF Min
<1> QED BY <1>3, <1>4 DEF Latest, Earliest

\* A record not typed by a machine is not explained by any send.
LEMMA NudgesAre == LedgerInv => NudgesAreAFloor
<1> SUFFICES ASSUME LedgerInv, NEW at \in match(Fleet) PROVE at \in nudged
  BY DEF NudgesAreAFloor, nudge_report
<1>1. at \in human_records(Fleet) /\ \E inj \in sends(Fleet) : explains(inj, at)
  BY DEF match
<1>2. PICK inj \in sends(Fleet) : explains(inj, at)
  BY <1>1
<1>3. ASSUME NEW x \in Recs(session_files(Fleet) \cup subagent_files(Fleet))
      PROVE  x[1] \in DOMAIN Transcripts /\ Accounted(menu, clock, nudged, x[1], x[2], Rec(x)) /\ x = <<x[1], x[2]>>
  <2>0. PICK f \in session_files(Fleet) \cup subagent_files(Fleet) : x \in {<<f, i>> : i \in DOMAIN files[f]}
    BY <1>3 DEF Recs
  <2>1. PICK i \in DOMAIN files[f] : x = <<f, i>>
    BY <2>0
  <2>2. f \in DOMAIN Transcripts
    BY <2>1 DEF session_files, subagent_files
  <2>3. Accounted(menu, clock, nudged, f, i, files[f][i])
    BY <2>1, <2>2 DEF LedgerInv, Written
  <2> QED BY <2>1, <2>2, <2>3 DEF Rec
<1>4. at \in Recs(session_files(Fleet) \cup subagent_files(Fleet)) /\ Human(Rec(at))
  BY <1>1 DEF human_records, Recs
<1>5. inj \in Recs(session_files(Fleet) \cup subagent_files(Fleet)) /\ Rec(inj).type = "send"
  BY DEF sends
<1>6. inj[1] \in menu.senders /\ Rec(inj).text \in menu.payloads
  BY <1>3, <1>5 DEF Accounted
<1>7. \/ <<at[1], at[2]>> \in nudged \/ Rec(at).text = "none"
      \/ Rec(at).text \in menu.texts /\ \E s \in menu.seats : at[1] = Main(s)
  BY <1>3, <1>4 DEF Accounted
<1>8. Rec(inj).text \in Quotes[Rec(at).text] /\ inj[1] # at[1]
  BY <1>2 DEF explains
<1>9. Rec(at).text # "none"
  BY <1>6, <1>8, MenuIs, MenusAssumption
<1>10. ASSUME Rec(at).text \in menu.texts, NEW s \in menu.seats, at[1] = Main(s)
       PROVE  FALSE
  <2>1. menu.senders \subseteq {Main(s)}
    BY <1>6, <1>8, <1>10, MenuIs, MenusAssumption
  <2> QED BY <1>6, <1>8, <1>10, <2>1
<1> QED BY <1>3, <1>4, <1>7, <1>9, <1>10

\* The last record of a seat that has one.
LEMMA LastActivityIs ==
  ASSUME LedgerInv, NEW s \in Seats, session_files({s}) # {}
  PROVE  LET M == Moments(Recs(session_files({s}))) IN
         /\ M \in SUBSET (1..clock) /\ last_activity(s) \in M /\ \A t \in M : last_activity(s) >= t
<1> DEFINE M == Moments(Recs(session_files({s})))
<1>1. M \subseteq 1..clock
  <2>1. ASSUME NEW t \in M PROVE t \in 1..clock
    <3>a. PICK x \in Recs(session_files({s})) : t = Rec(x).at
      BY <2>1 DEF Moments
    <3>b. PICK f \in session_files({s}) : x \in {<<f, i>> : i \in DOMAIN files[f]}
      BY DEF Recs
    <3>1. PICK i \in DOMAIN files[f] : t = files[f][i].at
      BY <3>a, <3>b DEF Rec
    <3>2. f \in DOMAIN Transcripts
      BY DEF session_files
    <3>3. Accounted(menu, clock, nudged, f, i, files[f][i])
      BY <3>1, <3>2 DEF LedgerInv, Written
    <3>4. t \in Nat /\ t >= 1 /\ t <= clock /\ clock \in Nat
      BY <3>1, <3>3 DEF Accounted, Record, LedgerInv
    <3> QED BY <3>4
  <2> QED BY <2>1
<1>2. M # {}
  <2>1. PICK f \in session_files({s}) : TRUE
    OBVIOUS
  <2>2. f \in DOMAIN Transcripts /\ files[f] # <<>>
    BY <2>1 DEF session_files
  <2>3. files[f] \in Seq(Record)
    BY <2>2 DEF LedgerInv, Written
  <2>4. 1 \in DOMAIN files[f]
    BY <2>2, <2>3
  <2>5. <<f, 1>> \in Recs(session_files({s}))
    BY <2>1, <2>4 DEF Recs
  <2> QED BY <2>5 DEF Moments
<1>3. clock \in Nat
  BY DEF LedgerInv
<1> HIDE DEF M
<1>4. Latest(M, 0) \in M /\ \A t \in M : Latest(M, 0) >= t
  BY <1>1, <1>2, <1>3, LatestIs
<1> QED BY <1>1, <1>4 DEF last_activity, M

\* The last post of a seat: every form of a post is read.
LEMMA LastPostIs ==
  ASSUME LedgerInv, NEW s
  PROVE  LET P == {p.at : p \in {q \in posts : q.seat = s}} IN
         /\ scan_fleet_md_all(s) = P /\ P \in SUBSET (1..clock)
         /\ P = {} => scan_fleet_md(s) = -Never
         /\ P # {} => scan_fleet_md(s) \in P /\ \A t \in P : scan_fleet_md(s) >= t
<1> DEFINE P == {p.at : p \in {q \in posts : q.seat = s}}
<1>1. \A p \in posts : p.at \in Nat /\ p.at >= 1 /\ p.at <= clock /\ p.form \in {"bracket", "annotated", "dash"}
  BY DEF LedgerInv, Posted
<1>2. clock \in Nat
  BY DEF LedgerInv
<1>3. {q \in posts : q.seat = s /\ q.form \in POST_RE \cup DASH_RE} = {q \in posts : q.seat = s}
  BY <1>1 DEF POST_RE, DASH_RE
<1>4. scan_fleet_md_all(s) = P
  BY <1>3 DEF scan_fleet_md_all
<1>5. P \in SUBSET (1..clock)
  BY <1>1, <1>2
<1> HIDE DEF P
<1>6. P # {} => Latest(P, -Never) \in P /\ \A t \in P : Latest(P, -Never) >= t
  BY <1>2, <1>5, LatestIs
<1>7. P = {} => Latest(P, -Never) = -Never
  BY DEF Latest
<1> QED BY <1>4, <1>5, <1>6, <1>7 DEF scan_fleet_md, P

\* The last moment is recent if any is.
LEMMA LastIsRecent ==
  ASSUME NEW n \in Nat, NEW S \in SUBSET (1..n), NEW m \in S, \A y \in S : m >= y, NEW q \in Nat
  PROVE  m \in Nat /\ (n - m <= q <=> \E t \in S : n - t <= q)
<1>1. \A y \in S : y \in Nat
  OBVIOUS
<1>2. ASSUME NEW t \in S, n - t <= q PROVE n - m <= q
  <2>1. t \in Nat /\ m \in Nat /\ m >= t
    BY <1>1
  <2> QED BY <1>2, <2>1
<1> QED BY <1>1, <1>2

\* The seats in the tables, and the verdict on each.
LEMMA VerdictOn ==
  ASSUME LedgerInv, NEW s \in Seats, session_files({s}) # {}
  PROVE  LET wrote  == \E at \in Recs(session_files({s})) : clock - Rec(at).at <= QuietHours
             posted == \E p \in posts : p.seat = s /\ clock - p.at <= QuietHours
         IN  /\ last_activity(s) \in 1..clock
             /\ wrote <=> clock - last_activity(s) <= QuietHours
             /\ verdict(s) = "STALLED" <=> ~wrote
             /\ verdict(s) = "SILENT" <=> wrote /\ ~posted
<1> DEFINE M == Moments(Recs(session_files({s})))
           P == {p.at : p \in {q \in posts : q.seat = s}}
           wrote  == \E at \in Recs(session_files({s})) : clock - Rec(at).at <= QuietHours
           posted == \E p \in posts : p.seat = s /\ clock - p.at <= QuietHours
<1>1. M \in SUBSET (1..clock) /\ last_activity(s) \in M /\ \A t \in M : last_activity(s) >= t
  BY LastActivityIs
<1>2. /\ P \in SUBSET (1..clock)
      /\ P = {} => scan_fleet_md(s) = -Never
      /\ P # {} => scan_fleet_md(s) \in P /\ \A t \in P : scan_fleet_md(s) >= t
  BY LastPostIs
<1>3. wrote <=> \E t \in M : clock - t <= QuietHours
  BY DEF Moments
<1>4. posted <=> \E t \in P : clock - t <= QuietHours
  OBVIOUS
<1>5. clock \in Nat /\ QuietHours \in Nat /\ QuietHours < Never /\ Never \in Nat
  BY HoursAssumption DEF LedgerInv, Never
<1> HIDE DEF M, P, wrote, posted
<1>6. last_activity(s) \in Nat /\ (wrote <=> clock - last_activity(s) <= QuietHours)
  BY <1>1, <1>3, <1>5, LastIsRecent
<1>7. scan_fleet_md(s) \in Int /\ (posted <=> clock - scan_fleet_md(s) <= QuietHours)
  <2>1. CASE P = {}
    <3>1. scan_fleet_md(s) = -Never
      BY <1>2, <2>1
    <3>2. -Never \in Int /\ ~(clock - (-Never) <= QuietHours)
      BY <1>5
    <3> QED BY <1>4, <2>1, <3>1, <3>2
  <2>2. CASE P # {}
    <3> DEFINE m == scan_fleet_md(s)
    <3>1. m \in P /\ \A t \in P : m >= t
      BY <1>2, <2>2
    <3> HIDE DEF m
    <3>2. m \in Nat /\ (clock - m <= QuietHours <=> \E t \in P : clock - t <= QuietHours)
      BY <1>2, <1>5, <3>1, LastIsRecent
    <3>3. m \in Int /\ (posted <=> clock - m <= QuietHours)
      BY <1>4, <3>2
    <3> QED BY <3>3 DEF m
  <2> QED BY <2>1, <2>2
<1>8. /\ clock - last_activity(s) > QuietHours <=> ~(clock - last_activity(s) <= QuietHours)
      /\ clock - scan_fleet_md(s) > QuietHours <=> ~(clock - scan_fleet_md(s) <= QuietHours)
  BY <1>5, <1>6, <1>7
<1>9. /\ verdict(s) = "STALLED" <=> ~wrote
      /\ verdict(s) = "SILENT" <=> wrote /\ ~posted
  BY <1>6, <1>7, <1>8 DEF verdict
<1> QED BY <1>1, <1>6, <1>9 DEF wrote, posted

\* The gap after a post is to the next of its seat on that day, if any.
same(s) == {t \in scan_fleet_md_all(s) : day_local(t) = day_local(clock)}
gap(s, t) == Earliest({u \in same(s) : u > t}, t) - t

\* The posts of a seat today.
LEMMA SameIs ==
  ASSUME LedgerInv, NEW s
  PROVE  /\ same(s) \in SUBSET (1..clock) /\ clock \in Nat
         /\ same(s) = {p.at : p \in {q \in {x \in posts : day_local(x.at) = day_local(clock)} : q.seat = s}}
<1> DEFINE P == {p.at : p \in {q \in posts : q.seat = s}}
<1>1. scan_fleet_md_all(s) = P /\ P \in SUBSET (1..clock)
  BY LastPostIs
<1>2. clock \in Nat
  BY DEF LedgerInv
<1>3. same(s) = {t \in P : day_local(t) = day_local(clock)}
  BY <1>1 DEF same
<1> QED BY <1>1, <1>2, <1>3

\* A gap is nothing, or ends at the next post.
LEMMA GapIs ==
  ASSUME LedgerInv, NEW s, NEW t \in same(s)
  PROVE  LET U == {u \in same(s) : u > t} IN
         /\ U = {} => gap(s, t) = 0
         /\ U # {} => /\ gap(s, t) + t \in U /\ \A u \in U : gap(s, t) + t <= u
                      /\ gap(s, t) \in 1..clock
<1> DEFINE U == {u \in same(s) : u > t}  e == Earliest(U, t)
<1>1. same(s) \in SUBSET (1..clock) /\ clock \in Nat
  BY SameIs
<1>2. U \in SUBSET (1..clock) /\ t \in Nat /\ t >= 1
  BY <1>1
<1>3. CASE U = {}
  <2>1. e = t
    BY <1>3 DEF Earliest
  <2>2. gap(s, t) = e - t
    BY DEF gap
  <2> HIDE DEF U, e
  <2> QED BY <1>2, <1>3, <2>1, <2>2 DEF U
<1>4. CASE U # {}
  <2>1. e \in U /\ \A u \in U : e <= u
    <3> HIDE DEF U
    <3> QED BY <1>1, <1>2, <1>4, LatestIs
  <2>2. gap(s, t) = e - t
    BY DEF gap
  <2>3. e > t
    BY <2>1
  <2> HIDE DEF e
  <2>4. e \in Nat /\ e <= clock
    BY <1>2, <1>1, <2>1
  <2>5. gap(s, t) + t = e /\ gap(s, t) \in 1..clock
    BY <1>1, <1>2, <2>2, <2>3, <2>4
  <2> QED BY <1>4, <2>1, <2>5
<1> QED BY <1>3, <1>4

\* The largest gap is over the threshold if and only if someone came back that late.
LEMMA LargestIs ==
  ASSUME LedgerInv
  PROVE  LET today == {p \in posts : day_local(p.at) = day_local(clock)}
             back(p) == /\ \E q \in today : q.seat = p.seat /\ q.at < p.at
                        /\ \A q \in today : q.seat = p.seat /\ q.at < p.at => p.at - q.at > QuietHours
         IN  Latest(post_gap_calibration(DOMAIN Lane), 0) > QuietHours <=> \E p \in today : back(p)
<1> DEFINE today == {p \in posts : day_local(p.at) = day_local(clock)}
           back(p) == /\ \E q \in today : q.seat = p.seat /\ q.at < p.at
                      /\ \A q \in today : q.seat = p.seat /\ q.at < p.at => p.at - q.at > QuietHours
           G == post_gap_calibration(DOMAIN Lane)
<1>1. \A s : same(s) \in SUBSET (1..clock) /\ same(s) = {p.at : p \in {q \in today : q.seat = s}}
  BY SameIs
<1>2. clock \in Nat /\ QuietHours \in Nat
  BY HoursAssumption DEF LedgerInv
<1>3. \A x : x \in G <=> \E s \in DOMAIN Lane : \E t \in same(s) : x = gap(s, t) /\ x # 0
  <2>1. G = UNION {{gap(s, t) : t \in same(s)} \ {0} : s \in DOMAIN Lane}
    BY DEF post_gap_calibration, same, gap
  <2> HIDE DEF G
  <2> QED BY <2>1
<1>4. \A p \in today : p.seat \in DOMAIN Lane /\ p.at \in Nat
  BY DEF LedgerInv, Posted
<1> HIDE DEF G, today
<1>5. G \in SUBSET (1..clock)
  <2>1. ASSUME NEW x \in G PROVE x \in 1..clock
    <3>1. PICK s \in DOMAIN Lane : \E t \in same(s) : x = gap(s, t) /\ x # 0
      BY <1>3
    <3>2. PICK t \in same(s) : x = gap(s, t) /\ x # 0
      BY <3>1
    <3> QED BY <3>2, GapIs
  <2> QED BY <2>1
<1>6. Latest(G, 0) > QuietHours <=> \E x \in G : x > QuietHours
  <2>1. CASE G = {}
    <3>1. Latest(G, 0) = 0
      BY <2>1 DEF Latest
    <3> QED BY <1>2, <2>1, <3>1
  <2>2. CASE G # {}
    <3>1. Latest(G, 0) \in G /\ \A y \in G : Latest(G, 0) >= y
      BY <1>2, <1>5, <2>2, LatestIs
    <3> DEFINE m == Latest(G, 0)
    <3>2. m \in G /\ \A y \in G : m >= y
      BY <3>1
    <3> HIDE DEF m
    <3>3. m > QuietHours <=> \E x \in G : x > QuietHours
      <4>1. \A y \in G : y \in Nat
        BY <1>2, <1>5
      <4>2. ASSUME NEW x \in G, x > QuietHours PROVE m > QuietHours
        <5>1. x \in Nat /\ m \in Nat /\ m >= x
          BY <3>2, <4>1
        <5> QED BY <1>2, <4>2, <5>1
      <4> QED BY <3>2, <4>2
    <3> QED BY <3>3 DEF m
  <2> QED BY <2>1, <2>2
<1>7. ASSUME NEW x \in G, x > QuietHours
      PROVE  \E p \in today : back(p)
  <2>1. PICK s \in DOMAIN Lane : \E t \in same(s) : x = gap(s, t) /\ x # 0
    BY <1>3
  <2>2. PICK t \in same(s) : x = gap(s, t) /\ x # 0
    BY <2>1
  <2> DEFINE U == {u \in same(s) : u > t}  e == x + t
  <2>3. e \in U /\ \A u \in U : e <= u
    BY <2>2, GapIs
  <2>4. PICK p \in today : p.seat = s /\ p.at = e
    BY <1>1, <2>3
  <2>5. PICK q \in today : q.seat = s /\ q.at = t
    BY <1>1
  <2>6. t \in Nat /\ x \in Nat /\ e \in Nat /\ e - t = x /\ t < e
    BY <1>1, <1>5, <1>7, <1>2
  <2> HIDE DEF e
  <2>7. ASSUME NEW r \in today, r.seat = p.seat, r.at < p.at PROVE p.at - r.at > QuietHours
    <3>1. r.at \in same(s) /\ r.at \in Nat
      BY <1>1, <1>4, <2>4, <2>7
    <3>2. ~(r.at > t)
      BY <2>3, <2>4, <2>6, <2>7, <3>1
    <3> QED BY <1>2, <1>7, <2>4, <2>6, <3>1, <3>2
  <2> QED BY <2>4, <2>5, <2>6, <2>7
<1>8. ASSUME NEW p \in today, back(p)
      PROVE  \E x \in G : x > QuietHours
  <2> DEFINE s == p.seat  E == {u \in same(s) : u < p.at}
  <2>1. p.at \in same(s) /\ p.at \in Nat /\ s \in DOMAIN Lane
    BY <1>1, <1>4
  <2>2. E \in SUBSET (1..clock) /\ E # {}
    <3>1. PICK q \in today : q.seat = p.seat /\ q.at < p.at
      BY <1>8
    <3> QED BY <1>1, <3>1
  <2> DEFINE t == Latest(E, 0)
  <2>3. t \in E /\ \A u \in E : t >= u
    <3> HIDE DEF E
    <3> QED BY <1>2, <2>2, LatestIs
  <2> HIDE DEF t
  <2>4. t \in same(s) /\ t < p.at /\ t \in Nat
    BY <1>1, <2>3
  <2>5. p.at - t > QuietHours
    <3>1. PICK q \in today : q.seat = p.seat /\ q.at = t
      BY <1>1, <2>4
    <3> QED BY <1>8, <2>4, <3>1
  <2> DEFINE U == {u \in same(s) : u > t}
  <2>6. p.at \in U
    BY <2>1, <2>4
  <2>7. gap(s, t) + t \in U /\ (\A u \in U : gap(s, t) + t <= u) /\ gap(s, t) \in 1..clock
    BY <2>4, <2>6, GapIs
  <2>8. gap(s, t) + t = p.at
    <3>1. gap(s, t) + t <= p.at /\ gap(s, t) + t \in same(s) /\ gap(s, t) + t > t
      BY <2>6, <2>7
    <3>2. ~(gap(s, t) + t < p.at)
      <4>1. SUFFICES ASSUME gap(s, t) + t < p.at PROVE FALSE
        OBVIOUS
      <4>2. gap(s, t) + t \in E
        BY <3>1, <4>1
      <4>3. t >= gap(s, t) + t
        BY <2>3, <4>2
      <4> QED BY <2>4, <2>7, <4>3
    <3> QED BY <2>1, <2>4, <2>7, <3>1, <3>2
  <2>9. gap(s, t) > QuietHours /\ gap(s, t) # 0
    BY <1>2, <2>1, <2>4, <2>5, <2>7, <2>8
  <2>10. gap(s, t) \in G
    BY <1>3, <2>1, <2>4, <2>9
  <2> QED BY <2>9, <2>10
<1>9. Latest(G, 0) > QuietHours <=> \E p \in today : back(p)
  BY <1>6, <1>7, <1>8
<1> QED BY <1>9 DEF G, today

\* The verdicts follow from what is accounted for.
LEMMA VerdictsAre == LedgerInv => VerdictsAreTrue
<1> SUFFICES ASSUME LedgerInv PROVE VerdictsAreTrue
  OBVIOUS
<1> DEFINE r == hygiene_report
           recent(t) == clock - t <= QuietHours
           wrote(s) == \E at \in Recs(session_files({s})) : recent(Rec(at).at)
           posted(s) == \E p \in posts : p.seat = s /\ recent(p.at)
           today == {p \in posts : day_local(p.at) = day_local(clock)}
           back(p) == /\ \E q \in today : q.seat = p.seat /\ q.at < p.at
                      /\ \A q \in today : q.seat = p.seat /\ q.at < p.at => p.at - q.at > QuietHours
<1>1. /\ r.rows = {s \in scan_seats : last_activity(s) > 0 /\ clock - last_activity(s) <= ActiveHours}
      /\ r.stalled = {s \in r.rows : verdict(s) = "STALLED"}
      /\ r.silent = {s \in r.rows : verdict(s) = "SILENT"}
      /\ r.largest = Latest(post_gap_calibration(DOMAIN Lane), 0)
  BY DEF hygiene_report
<1>2. \A s \in scan_seats : s \in Seats /\ session_files({s}) # {}
  BY DEF scan_seats, discover_personal_projects
<1>3. ASSUME NEW s \in Seats, session_files({s}) # {}
      PROVE  /\ last_activity(s) \in 1..clock
             /\ wrote(s) <=> clock - last_activity(s) <= QuietHours
             /\ verdict(s) = "STALLED" <=> ~wrote(s)
             /\ verdict(s) = "SILENT" <=> wrote(s) /\ ~posted(s)
  BY <1>3, VerdictOn
<1>4. r.largest > QuietHours <=> \E p \in today : back(p)
  BY <1>1, LargestIs
<1>5. ASSUME all_clear(r), NEW s \in Personal, wrote(s)
      PROVE  posted(s)
  <2>1. s \in Seats /\ Lane[s] = "personal"
    BY DEF Personal
  <2>2. session_files({s}) # {}
    BY <1>5 DEF Recs
  <2>3. s \in scan_seats
    BY <2>1, <2>2 DEF scan_seats, discover_personal_projects, lane_refusal
  <2> HIDE DEF r, wrote, posted
  <2>4. clock - last_activity(s) <= QuietHours /\ last_activity(s) \in 1..clock /\ clock \in Nat
    BY <1>3, <1>5, <2>1, <2>2 DEF LedgerInv
  <2>5. last_activity(s) > 0 /\ clock - last_activity(s) <= ActiveHours
    BY <2>4, HoursAssumption
  <2>6. s \in r.rows
    BY <1>1, <2>3, <2>5
  <2>7. verdict(s) # "SILENT"
    BY <1>1, <1>5, <2>6 DEF all_clear
  <2> QED BY <1>3, <1>5, <2>1, <2>2, <2>7
<1>6. \A s \in r.rows : /\ s \in r.stalled <=> ~wrote(s)
                        /\ s \in r.silent <=> wrote(s) /\ ~posted(s)
  <2> HIDE DEF r, wrote, posted
  <2> QED BY <1>1, <1>2, <1>3
<1> QED BY <1>4, <1>5, <1>6 DEF VerdictsAreTrue

\* Whatever is typed, sent, queued and delivered in which order, by clients that
\* stamp their records or not, nudge_detect.py reports no text of a human as a
\* machine's, when people quote a sent text in the sending session alone: the
\* count of nudges it prints is a floor.
THEOREM NudgesWereMachines == RecordsSpec => []NudgesAreAFloor
<1>1. RecordsInit => LedgerInv
  BY InitAccounted DEF RecordsInit
<1>2. LedgerInv /\ [RecordsNext]_<<vars, shelf>> => LedgerInv'
  BY LedgerKeeps DEF RecordsNext
<1>3. LedgerInv => NudgesAreAFloor
  BY NudgesAre
<1> QED BY <1>1, <1>2, <1>3, PTL DEF RecordsSpec

\* However the records of the sessions and the posts interleave with the clock,
\* fleet_hygiene.py calls a seat stalled or silent if and only if it has not
\* written, or not posted in any form, in the quiet hours; all clear means that
\* every seat that writes posts; and the largest gap by which its threshold is
\* judged exceeds it if and only if someone came back that late.
THEOREM VerdictsStand == RecordsSpec => []VerdictsAreTrue
<1>1. RecordsInit => LedgerInv
  BY InitAccounted DEF RecordsInit
<1>2. LedgerInv /\ [RecordsNext]_<<vars, shelf>> => LedgerInv'
  BY LedgerKeeps DEF RecordsNext
<1>3. LedgerInv => VerdictsAreTrue
  BY VerdictsAre
<1> QED BY <1>1, <1>2, <1>3, PTL DEF RecordsSpec


----------------------------------------------------------------------------
(* Commits.                                                                *)

\* A commit: its place in the log, its moment, its seat, and if the record was kept.
CommitRecord == [n : Nat, at : Nat, seat : Seats, kept : BOOLEAN]

\* Each commit has its own number, and is not of a later moment.
Logged ==
  /\ recording \in BOOLEAN
  /\ commits \in Seq(CommitRecord)
  /\ \A i \in DOMAIN commits : commits[i].n = i /\ commits[i].at >= 1 /\ commits[i].at <= clock

\* There are no commits at the start.
LEMMA InitLogged == Init => Logged
BY DEF Init, Logged

\* What a step does to the commits.
LEMMA CommitsGrow ==
  ASSUME LedgerInv, Logged, [Next]_vars
  PROVE  /\ recording' \in BOOLEAN /\ clock' \in Nat /\ clock <= clock'
         /\ \/ commits' = commits
            \/ /\ clock' = clock
               /\ \E s \in Seats, k \in BOOLEAN :
                    commits' = Append(commits, [n |-> Len(commits) + 1, at |-> clock, seat |-> s, kept |-> k])
<1>0. clock \in Nat /\ recording \in BOOLEAN
  BY DEF LedgerInv, Logged
<1> DEFINE Same == clock' = clock /\ recording' = recording /\ commits' = commits
<1>1. CASE UNCHANGED vars
  BY <1>0, <1>1 DEF vars
<1>2. CASE Tick
  BY <1>0, <1>2 DEF Tick
<1>3. CASE Lose \/ Resume
  <2>1. recording' \in BOOLEAN /\ clock' = clock /\ commits' = commits
    <3>1. CASE Lose
      BY <3>1, Zenon DEF Lose, Step
    <3>2. CASE Resume
      BY <3>2, Zenon DEF Resume
    <3> QED BY <1>3, <3>1, <3>2
  <2> QED BY <1>0, <2>1
<1>4. ASSUME NEW s \in Seats, Dequeue(s) \/ Finish(s) PROVE Same
  BY <1>4 DEF Dequeue, Finish
<1>5. ASSUME NEW s \in menu.seats \cup menu.targets, Start(s) PROVE Same
  BY <1>5 DEF Start, Step
<1>6. ASSUME NEW s \in menu.seats, NEW text, Type(s, text) PROVE Same
  BY <1>6 DEF Type, Step
<1>7. ASSUME NEW s \in menu.seats, NEW kind, Touch(s, kind) PROVE Same
  BY <1>7 DEF Touch, Step
<1>8. ASSUME NEW s \in menu.seats, NEW kind, NEW text, Inject(s, kind, text) PROVE Same
  BY <1>8 DEF Inject, Step
<1>9. ASSUME NEW s \in menu.seats, NEW form, Post(s, form) PROVE Same
  BY <1>9 DEF Post, Step
<1>10. ASSUME NEW f \in DOMAIN Transcripts, Fail(f) \/ \E id \in 1..menu.steps : Answer(f, id) PROVE Same
  BY <1>10 DEF Fail, Answer, Step
<1>11. ASSUME NEW f \in DOMAIN Transcripts, Commit(f)
       PROVE  /\ clock' = clock /\ recording' = recording
              /\ commits' = Append(commits, [n |-> Len(commits) + 1, at |-> clock, seat |-> Transcripts[f].seat, kept |-> recording])
              /\ Transcripts[f].seat \in Seats
  BY <1>11 DEF Commit, Step, Seats
<1>12. ASSUME NEW s \in menu.targets, NEW text, Deliver(s, text) \/ \E f \in menu.senders : Send(f, s, text) PROVE Same
  BY <1>12 DEF Deliver, Send, Step
<1>13. ASSUME NEW b, NEW cat, Tag(b, cat) PROVE Same
  BY <1>13 DEF Tag, Step
<1>14. Same \/ (\E f \in DOMAIN Transcripts : Commit(f)) \/ Tick \/ Lose \/ Resume \/ UNCHANGED vars
  BY <1>4, <1>5, <1>6, <1>7, <1>8, <1>9, <1>10, <1>12, <1>13 DEF Next
<1>15. CASE Same
  BY <1>0, <1>15
<1>16. ASSUME NEW f \in DOMAIN Transcripts, Commit(f)
       PROVE  /\ recording' \in BOOLEAN /\ clock' \in Nat /\ clock <= clock' /\ clock' = clock
              /\ \E s \in Seats, k \in BOOLEAN :
                   commits' = Append(commits, [n |-> Len(commits) + 1, at |-> clock, seat |-> s, kept |-> k])
  <2>1. recording' \in BOOLEAN /\ clock' \in Nat /\ clock <= clock' /\ clock' = clock
    <3>1. clock' = clock /\ recording' = recording
      BY <1>16, <1>11, Zenon
    <3> QED BY <1>0, <3>1
  <2> QED BY <1>0, <1>11, <1>16, <2>1
<1> QED BY <1>1, <1>2, <1>3, <1>14, <1>15, <1>16

\* Every step keeps the numbers and the moments of the commits.
LEMMA LoggedKeeps == LedgerInv /\ Logged /\ [Next]_vars => Logged'
<1> SUFFICES ASSUME LedgerInv, Logged, [Next]_vars PROVE Logged'
  OBVIOUS
<1>0. clock \in Nat /\ clock >= 1
  BY DEF LedgerInv
<1>1. recording' \in BOOLEAN /\ clock' \in Nat /\ clock <= clock' /\ clock \in Nat /\ clock >= 1
  BY <1>0, CommitsGrow
<1>2. /\ commits \in Seq(CommitRecord)
      /\ \A i \in DOMAIN commits : commits[i].n = i /\ commits[i].at >= 1 /\ commits[i].at <= clock
      /\ \A i \in DOMAIN commits : commits[i].at \in Nat
  <2>1. /\ commits \in Seq(CommitRecord)
        /\ \A i \in DOMAIN commits : commits[i].n = i /\ commits[i].at >= 1 /\ commits[i].at <= clock
    BY DEF Logged
  <2>2. \A i \in DOMAIN commits : commits[i] \in CommitRecord
    BY <2>1
  <2>3. \A c \in CommitRecord : c.at \in Nat
    BY DEF CommitRecord
  <2> QED BY <2>1, <2>2, <2>3
<1>3. CASE commits' = commits
  <2>1. \A i \in DOMAIN commits : commits[i].at <= clock'
    BY <1>1, <1>2
  <2>2. /\ commits' \in Seq(CommitRecord)
        /\ \A i \in DOMAIN commits' : commits'[i].n = i /\ commits'[i].at >= 1 /\ commits'[i].at <= clock'
    BY <1>2, <1>3, <2>1
  <2> QED BY <1>1, <2>2 DEF Logged
<1>4. ASSUME NEW s \in Seats, NEW k \in BOOLEAN, clock' = clock,
             commits' = Append(commits, [n |-> Len(commits) + 1, at |-> clock, seat |-> s, kept |-> k])
      PROVE  Logged'
  <2> DEFINE c == [n |-> Len(commits) + 1, at |-> clock, seat |-> s, kept |-> k]
  <2>1. c \in CommitRecord /\ c.n = Len(commits) + 1 /\ c.at = clock
    BY <1>1, <1>2 DEF CommitRecord
  <2> HIDE DEF c
  <2>2. /\ commits' \in Seq(CommitRecord) /\ DOMAIN commits' = DOMAIN commits \cup {Len(commits) + 1}
        /\ \A i \in DOMAIN commits : commits'[i] = commits[i]
        /\ commits'[Len(commits) + 1] = c
    BY <1>2, <1>4, <2>1, Appended DEF c
  <2> QED BY <1>1, <1>2, <1>4, <2>1, <2>2 DEF Logged
<1> QED BY <1>3, <1>4, CommitsGrow
----------------------------------------------------------------------------
Commits == {c \in SUBSET CommitRecord : IsFiniteSet(c) /\ \A x, y \in c : x.n = y.n => x = y}

\* A set of commits in order: all of them, the earlier first.
LEMMA InOrderIs ==
  ASSUME NEW S \in Commits
  PROVE  LET s == InOrder(S) IN
         /\ s \in Seq(S) /\ Len(s) = Cardinality(S) /\ Len(s) \in Nat
         /\ DOMAIN s = 1..Len(s)
         /\ \A c \in S : \E i \in DOMAIN s : s[i] = c
         /\ \A i, j \in DOMAIN s : i < j => Earlier(s[i], s[j])
<1> DEFINE n == Cardinality(S)
           below(c) == {d \in S : Earlier(d, c)}
           rank(c) == Cardinality(below(c))
           f == [c \in S |-> rank(c) + 1]
<1>1. IsFiniteSet(S) /\ n \in Nat
  BY FS_CardinalityType DEF Commits
<1>2. \A c \in S : c.at \in Nat /\ c.n \in Nat
  BY DEF Commits, CommitRecord
<1>3. \A c, d \in S : c # d => Earlier(c, d) \/ Earlier(d, c)
  BY <1>2 DEF Commits, Earlier
<1>4. \A c, d, e \in S : Earlier(c, d) /\ Earlier(d, e) => Earlier(c, e)
  BY <1>2 DEF Earlier
<1>5. \A c \in S : ~Earlier(c, c)
  BY <1>2 DEF Earlier
<1>6. ASSUME NEW c \in S
      PROVE  IsFiniteSet(below(c)) /\ rank(c) \in Nat /\ rank(c) < n
  <2>1. below(c) \in SUBSET S /\ c \notin below(c)
    BY <1>5
  <2>2. IsFiniteSet(below(c)) /\ rank(c) \in Nat /\ rank(c) <= n /\ (rank(c) = n => S = below(c))
    <3> HIDE DEF below
    <3> QED BY <1>1, <2>1, FS_Subset, FS_CardinalityType
  <2> QED BY <1>1, <2>1, <2>2
<1>7. ASSUME NEW c \in S, NEW d \in S, Earlier(c, d)
      PROVE  rank(c) < rank(d)
  <2>1. below(c) \in SUBSET below(d)
    BY <1>4, <1>7
  <2>2. c \in below(d) /\ c \notin below(c)
    BY <1>5, <1>7
  <2>3. IsFiniteSet(below(d)) /\ rank(c) \in Nat /\ rank(d) \in Nat
    BY <1>6
  <2>4. rank(c) <= rank(d) /\ (rank(c) = rank(d) => below(d) = below(c))
    <3> HIDE DEF below
    <3> QED BY <2>1, <2>3, FS_Subset
  <2> QED BY <2>2, <2>3, <2>4
<1> HIDE DEF below
<1>8. f \in Injection(S, 1..n)
  <2>1. f \in [S -> 1..n]
    BY <1>1, <1>6
  <2>2. ASSUME NEW c \in S, NEW d \in S, c # d PROVE f[c] # f[d]
    <3>1. rank(c) \in Nat /\ rank(d) \in Nat
      BY <1>6
    <3>2. rank(c) < rank(d) \/ rank(d) < rank(c)
      BY <1>3, <1>7, <2>2
    <3> HIDE DEF rank
    <3> QED BY <3>1, <3>2
  <2> HIDE DEF f
  <2> QED BY <2>1, <2>2 DEF Injection, IsInjective
<1>9. f \in Surjection(S, 1..n)
  <2>1. IsFiniteSet(1..n) /\ Cardinality(1..n) = n
    BY <1>1, FS_Interval
  <2> HIDE DEF f, n
  <2> QED BY <1>1, <1>8, <2>1, FS_Injection DEF n
<1>10. \A k \in 1..n : \E c \in S : rank(c) = k - 1
  <2>1. \A k \in 1..n : \E c \in S : f[c] = k
    <3> HIDE DEF f
    <3> QED BY <1>9 DEF Surjection
  <2>2. ASSUME NEW k \in 1..n, NEW c \in S, f[c] = k PROVE rank(c) = k - 1
    <3>1. rank(c) + 1 = k /\ rank(c) \in Nat
      BY <1>6, <2>2
    <3> HIDE DEF rank
    <3> QED BY <3>1
  <2> HIDE DEF f, rank
  <2> QED BY <2>1, <2>2
<1> DEFINE s == InOrder(S)
<1>11. s = [k \in 1..n |-> CHOOSE c \in S : rank(c) = k - 1]
  BY DEF InOrder, below
<1> HIDE DEF s
<1>12. \A k \in 1..n : s[k] \in S /\ rank(s[k]) = k - 1
  <2> HIDE DEF rank
  <2> QED BY <1>10, <1>11
<1>13. s \in Seq(S) /\ Len(s) = n /\ DOMAIN s = 1..n
  <2> HIDE DEF rank, n
  <2>1. s \in [1..n -> S] /\ n \in Nat
    BY <1>1, <1>11, <1>12
  <2> QED BY <2>1
<1>14. ASSUME NEW c \in S PROVE \E i \in 1..n : s[i] = c
  <2> DEFINE i == rank(c) + 1
  <2>1. i \in 1..n /\ rank(c) \in Nat
    BY <1>1, <1>6
  <2>2. s[i] \in S /\ rank(s[i]) = rank(c)
    <3>1. rank(s[i]) = i - 1 /\ s[i] \in S
      <4> HIDE DEF rank, i
      <4> QED BY <1>12, <2>1
    <3> QED BY <2>1, <3>1
  <2>3. rank(s[i]) < rank(c) \/ rank(c) < rank(s[i]) \/ s[i] = c
    BY <1>3, <1>7, <2>2
  <2> QED BY <2>1, <2>2, <2>3
<1>15. ASSUME NEW i \in 1..n, NEW j \in 1..n, i < j PROVE Earlier(s[i], s[j])
  <2>1. s[i] \in S /\ s[j] \in S /\ rank(s[i]) = i - 1 /\ rank(s[j]) = j - 1
    BY <1>12
  <2>2. rank(s[i]) < rank(s[j])
    <3> HIDE DEF rank
    <3> QED BY <1>1, <1>15, <2>1
  <2>3. ~(rank(s[j]) < rank(s[i])) /\ rank(s[i]) # rank(s[j])
    BY <1>6, <2>1, <2>2
  <2> QED BY <1>3, <1>7, <2>1, <2>3
<1> QED BY <1>1, <1>13, <1>14, <1>15 DEF s

\* What a step does to the transcripts, the queues and the wire.
Mechanical(rec) == rec \in Record /\ rec.at = clock /\ rec.type # "enqueue" /\ ~Human(rec)
Sayings == Texts \ {"none"}
Fresh(s, text) == menu.distinct => <<s, text>> \notin typed

\* A step writes one of these: a record, a sent text, a touch, a typed, a delivered or a dequeued one.
WritesPlain == \E f \in DOMAIN Transcripts, rec \in Record :
  Mechanical(rec) /\ Write(f, rec) /\ UNCHANGED <<queued, wire, acts, typed>>
Sends == \E f \in DOMAIN Transcripts, rec \in Record, s \in Seats, text \in Sayings :
  /\ Mechanical(rec) /\ Write(f, rec) /\ Fresh(s, text)
  /\ wire' = wire \cup {<<s, text>>} /\ typed' = typed \cup {<<s, text>>} /\ UNCHANGED <<queued, acts>>
Touches == \E s \in Seats, rec \in Record :
  /\ rec.at = clock /\ rec.text = "none" /\ rec.type = "user" /\ Human(rec)
  /\ Write(Main(s), rec) /\ UNCHANGED <<queued, wire, typed>>
  /\ acts' = acts \cup {[seat |-> s, at |-> clock, read |-> clock, text |-> "none"]}
Types == \E s \in Seats, text \in Sayings :
  /\ Fresh(s, text) /\ Reach(s, text, FALSE) /\ typed' = typed \cup {<<s, text>>} /\ wire' = wire
Delivers == \E s \in Seats, text \in Sayings :
  /\ <<s, text>> \in wire /\ wire' = wire \ {<<s, text>>} /\ Reach(s, text, TRUE) /\ typed' = typed
Dequeues == \E s \in Seats : Dequeue(s) /\ wire' = wire /\ typed' = typed
Idles == UNCHANGED <<files, queued, wire, acts, typed>>

\* A touch passes for a human's.
LEMMA TouchIs ==
  ASSUME LedgerInv, NEW kind \in menu.touches
  PROVE  LET r == HumanRecord(kind, "none") IN
         r \in Record /\ r.at = clock /\ r.type = "user" /\ r.text = "none" /\ Human(r)
<1> DEFINE r == HumanRecord(kind, "none")
<1>1. kind \in {"command", "interrupt", "image", "pasted"} /\ "none" \in Texts
  BY MenuIs
<1>2. r \in Record /\ r.at = clock /\ r.type = "user" /\ r.text = "none"
  BY <1>1, HumanRecordIs
<1>3. Blank.shape = "plain" /\ Blank.origin = "none" /\ Blank.meta = FALSE /\ Blank.result = FALSE /\ Blank.sidechain = FALSE
  BY DEF Blank
<1>4. menu \in Menus /\ menu.modern \in BOOLEAN
  BY MenuIs
<1>5. CASE kind = "pasted"
  <2>1. menu.modern
    BY <1>4, <1>5, MenusAssumption
  <2>2. r = [Blank EXCEPT !.text = "none", !.origin = "human", !.shape = "injection"]
    BY <1>5, <2>1 DEF HumanRecord, By
  <2>3. r.origin = "human" /\ r.result = FALSE /\ r.sidechain = FALSE
    <3> HIDE DEF r
    <3> QED BY <1>3, <2>2, BlankIs DEF Record
  <2> HIDE DEF r
  <2>4. classify_user_record(r) = "typed"
    BY <2>3 DEF classify_user_record
  <2> QED BY <1>2, <2>4 DEF Human, HUMAN_KINDS, r
<1>6. CASE kind \in {"command", "interrupt", "image"}
  <2>1. r = [Blank EXCEPT !.shape = kind]
    BY <1>6 DEF HumanRecord
  <2>2. r.shape = kind /\ r.origin = "none" /\ r.meta = FALSE /\ r.result = FALSE /\ r.sidechain = FALSE
    <3> HIDE DEF r
    <3> QED BY <1>3, <1>6, <2>1, BlankIs DEF Record
  <2> HIDE DEF r
  <2>3. classify_user_record(r) \in HUMAN_KINDS
    BY <1>6, <2>2 DEF classify_user_record, by_text, HUMAN_KINDS
  <2> QED BY <1>2, <2>3 DEF Human, r
<1> QED BY <1>1, <1>5, <1>6

\* So does what is typed.
LEMMA TypedPasses ==
  ASSUME LedgerInv, NEW text \in Texts
  PROVE  LET r == HumanRecord("typed", text) IN
         r \in Record /\ r.at = clock /\ r.type = "user" /\ r.text = text /\ Human(r)
<1> DEFINE r == HumanRecord("typed", text)
<1>1. Blank.shape = "plain" /\ Blank.origin = "none" /\ Blank.meta = FALSE /\ Blank.result = FALSE /\ Blank.sidechain = FALSE
  BY DEF Blank
<1>2. By("human") \in {"none", "human"}
  <2>1. CASE menu.modern
    BY <2>1 DEF By
  <2>2. CASE ~menu.modern
    BY <2>2 DEF By
  <2> QED BY <2>1, <2>2
<1>3. r = [Blank EXCEPT !.text = text, !.origin = By("human")]
  BY DEF HumanRecord
<1>4. /\ r \in Record /\ r.at = clock /\ r.type = "user" /\ r.text = text
      /\ r.origin \in {"none", "human"} /\ r.shape = "plain"
      /\ r.meta = FALSE /\ r.result = FALSE /\ r.sidechain = FALSE
  <2> HIDE DEF r
  <2> QED BY <1>1, <1>2, <1>3, BlankIs DEF Record
<1> HIDE DEF r
<1>5. classify_user_record(r) \in HUMAN_KINDS
  BY <1>4 DEF classify_user_record, by_text, HUMAN_KINDS
<1> QED BY <1>4, <1>5 DEF Human, r

\* The words of a menu.
LEMMA WordsAre ==
  ASSUME LedgerInv
  PROVE  menu.texts \subseteq Sayings /\ menu.payloads \subseteq Sayings /\ menu.distinct \in BOOLEAN
<1>1. menu \in Menus
  BY DEF LedgerInv
<1>2. "none" \notin menu.texts \cup menu.payloads /\ {menu.modern, menu.distinct} \subseteq BOOLEAN
  BY <1>1, MenusAssumption
<1> QED BY <1>2, MenuIs DEF Sayings

\* Every step does one of these to the transcripts, the queues and the wire.
LEMMA MovesAre ==
  ASSUME LedgerInv, [Next]_vars
  PROVE  /\ menu' = menu
         /\ Idles \/ (clock' = clock /\ (WritesPlain \/ Sends \/ Touches \/ Types \/ Delivers \/ Dequeues))
<1> DEFINE Goal == /\ menu' = menu
                   /\ Idles \/ (clock' = clock /\ (WritesPlain \/ Sends \/ Touches \/ Types \/ Delivers \/ Dequeues))
<1>1. CASE UNCHANGED vars \/ Tick
  BY <1>1, Zenon DEF vars, Tick, Idles, session, truth
<1>2. CASE Lose \/ Resume
  BY <1>2, Zenon DEF Lose, Resume, Step, Idles, session, truth
<1>3. ASSUME NEW s \in Seats, Dequeue(s) \/ Finish(s) PROVE Goal
  <2>1. Dequeue(s) => menu' = menu /\ clock' = clock /\ Dequeues
    BY Zenon DEF Dequeue, Dequeues
  <2>2. Finish(s) => menu' = menu /\ Idles
    BY Zenon DEF Finish, Idles, truth
  <2> QED BY <1>3, <2>1, <2>2
<1>4. ASSUME NEW s, Start(s) PROVE Goal
  BY <1>4, Zenon DEF Start, Step, Idles, truth
<1>5. ASSUME NEW s \in menu.seats, NEW text \in menu.texts, Type(s, text) PROVE Goal
  <2>1. s \in Seats /\ text \in Sayings
    BY MenuIs, WordsAre
  <2> QED BY <1>5, <2>1, Zenon DEF Type, Step, Types, Fresh
<1>6. ASSUME NEW s \in menu.seats, NEW kind \in menu.touches, Touch(s, kind) PROVE Goal
  <2> DEFINE r == HumanRecord(kind, "none")
  <2>1. s \in Seats
    BY MenuIs
  <2>2. r \in Record /\ r.at = clock /\ r.type = "user" /\ r.text = "none" /\ Human(r)
    BY TouchIs
  <2>3. /\ Write(Main(s), r) /\ UNCHANGED <<queued, wire, typed>> /\ menu' = menu /\ clock' = clock
        /\ acts' = acts \cup {[seat |-> s, at |-> clock, read |-> clock, text |-> "none"]}
    BY <1>6, Zenon DEF Touch, Step, session
  <2> HIDE DEF r
  <2> QED BY <2>1, <2>2, <2>3, Zenon DEF Touches
<1>7. ASSUME NEW s \in menu.seats, NEW kind \in menu.injects, NEW text \in menu.texts, Inject(s, kind, text) PROVE Goal
  <2> DEFINE r == InjectedRecord(kind, text)
  <2>1. Main(s) \in DOMAIN Transcripts
    BY MenuIs, MainIs
  <2>2. r \in Record /\ r.at = clock /\ r.type = "user" /\ ~Human(r)
    BY MenuIs, InjectedRecordIs
  <2>3. Write(Main(s), r) /\ UNCHANGED <<queued, wire, typed, acts>> /\ menu' = menu /\ clock' = clock
    BY <1>7, Zenon DEF Inject, Step, session, truth
  <2> HIDE DEF r
  <2>4. Mechanical(r)
    BY <2>2 DEF Mechanical
  <2> QED BY <2>1, <2>2, <2>3, <2>4, Zenon DEF WritesPlain
<1>8. ASSUME NEW s, NEW form, Post(s, form) PROVE Goal
  BY <1>8, Zenon DEF Post, Step, Idles, session, truth
<1>9. ASSUME NEW f \in DOMAIN Transcripts, Commit(f) \/ Fail(f) \/ \E id \in 1..menu.steps : Answer(f, id) PROVE Goal
  <2>1. ASSUME NEW id \in Nat,
               \/ Write(f, [Blank EXCEPT !.type = "assistant", !.request = id, !.tokens = 10 * id])
               \/ Write(f, [Blank EXCEPT !.type = "assistant", !.synthetic = TRUE]),
               UNCHANGED <<queued, wire, typed, acts, menu, clock>>
        PROVE  Goal
    <3> DEFINE a == [Blank EXCEPT !.type = "assistant", !.request = id, !.tokens = 10 * id]
               b == [Blank EXCEPT !.type = "assistant", !.synthetic = TRUE]
    <3>1. /\ a \in Record /\ a.at = clock /\ ~Human(a) /\ b \in Record /\ b.at = clock /\ ~Human(b)
      BY AssistantIs
    <3>2. a.type = "assistant" /\ b.type = "assistant"
      BY BlankIs DEF Record
    <3>3. Write(f, a) \/ Write(f, b)
      BY <2>1
    <3> HIDE DEF a, b
    <3>4. Mechanical(a) /\ Mechanical(b)
      BY <3>1, <3>2 DEF Mechanical
    <3>5. WritesPlain
      BY <2>1, <3>1, <3>3, <3>4, Zenon DEF WritesPlain
    <3> QED BY <2>1, <3>5, Zenon
  <2>2. CASE Commit(f) \/ Fail(f)
    <3>1. /\ Write(f, [Blank EXCEPT !.type = "assistant", !.synthetic = TRUE])
          /\ UNCHANGED <<queued, wire, typed, acts, menu, clock>>
      BY <2>2, Zenon DEF Commit, Fail, Step, session, truth
    <3>2. 0 \in Nat
      OBVIOUS
    <3> QED BY <2>1, <3>1, <3>2, Zenon
  <2>3. ASSUME NEW id \in 1..menu.steps, Answer(f, id) PROVE Goal
    <3>1. id \in Nat
      BY MenuIs
    <3>2. /\ Write(f, [Blank EXCEPT !.type = "assistant", !.request = id, !.tokens = 10 * id])
          /\ UNCHANGED <<queued, wire, typed, acts, menu, clock>>
      BY <2>3, Zenon DEF Answer, Step, session
    <3> QED BY <2>1, <3>1, <3>2, Zenon
  <2> QED BY <1>9, <2>2, <2>3
<1>10. ASSUME NEW s \in menu.targets, NEW text \in menu.payloads, Deliver(s, text) PROVE Goal
  <2>1. s \in Seats /\ text \in Sayings
    BY MenuIs, WordsAre
  <2> QED BY <1>10, <2>1, Zenon DEF Deliver, Delivers
<1>11. ASSUME NEW s \in menu.targets, NEW text \in menu.payloads, NEW f \in menu.senders, Send(f, s, text) PROVE Goal
  <2> DEFINE r == [Blank EXCEPT !.type = "send", !.text = text]
  <2>1. s \in Seats /\ text \in Sayings /\ text \in Texts /\ f \in DOMAIN Transcripts
    BY MenuIs, WordsAre
  <2>2. r \in Record /\ r.at = clock /\ r.type = "send"
    BY <2>1, BlankIs DEF Record
  <2>3. /\ Write(f, r) /\ UNCHANGED <<queued, acts, menu, clock>> /\ Fresh(s, text)
        /\ wire' = wire \cup {<<s, text>>} /\ typed' = typed \cup {<<s, text>>}
    BY <1>11, Zenon DEF Send, Step, Fresh
  <2> HIDE DEF r
  <2>4. Mechanical(r)
    BY <2>2 DEF Mechanical, Human
  <2> QED BY <2>1, <2>2, <2>3, <2>4, Zenon DEF Sends
<1>12. ASSUME NEW b, NEW cat, Tag(b, cat) PROVE Goal
  BY <1>12, Zenon DEF Tag, Step, Idles, session, truth
<1> QED BY <1>1, <1>2, <1>3, <1>4, <1>5, <1>6, <1>7, <1>8, <1>9, <1>10, <1>11, <1>12 DEF Next

\* A step writes one record at most, at the end of a transcript.
LEMMA WroteIs ==
  ASSUME LedgerInv, [Next]_vars
  PROVE  \/ files' = files
         \/ /\ clock' = clock /\ recording
            /\ \E f \in DOMAIN Transcripts, rec \in Record :
                 rec.at = clock /\ files' = [files EXCEPT ![f] = Append(files[f], rec)]
<1> DEFINE Wrote == \/ files' = files
                    \/ /\ recording
                       /\ \E f \in DOMAIN Transcripts, rec \in Record :
                            rec.at = clock /\ files' = [files EXCEPT ![f] = Append(files[f], rec)]
<1>1. ASSUME NEW f \in DOMAIN Transcripts, NEW rec \in Record, rec.at = clock, Write(f, rec) PROVE Wrote
  BY <1>1, Zenon DEF Write
<1>3. ASSUME Idles PROVE Wrote
  BY <1>3, Zenon DEF Idles
<1> HIDE DEF Wrote
<1>2. ASSUME NEW s \in Seats, NEW text \in Texts, NEW machine, Reach(s, text, machine) PROVE Wrote
  <2>1. Main(s) \in DOMAIN Transcripts
    BY MainIs
  <2>2. HumanRecord("typed", text) \in Record /\ HumanRecord("typed", text).at = clock
    BY TypedPasses
  <2>3. CASE s \in busy
    <3> DEFINE r == [Blank EXCEPT !.type = "enqueue", !.text = text]
    <3>1. r \in Record /\ r.at = clock
      BY BlankIs DEF Record
    <3>2. Write(Main(s), r)
      BY <1>2, <2>3, Zenon DEF Reach
    <3> HIDE DEF r
    <3> QED BY <1>1, <2>1, <3>1, <3>2, Zenon
  <2>4. CASE s \notin busy
    <3>1. Write(Main(s), HumanRecord("typed", text))
      BY <1>2, <2>4, Zenon DEF Reach
    <3> QED BY <1>1, <2>1, <2>2, <3>1
  <2> QED BY <2>3, <2>4
<1>4. ASSUME WritesPlain PROVE Wrote
  <2>1. PICK f \in DOMAIN Transcripts, rec \in Record : Mechanical(rec) /\ Write(f, rec)
    BY <1>4, Zenon DEF WritesPlain
  <2> QED BY <1>1, <2>1 DEF Mechanical
<1>5. ASSUME Sends PROVE Wrote
  <2>1. PICK f \in DOMAIN Transcripts, rec \in Record : Mechanical(rec) /\ Write(f, rec)
    BY <1>5, Zenon DEF Sends
  <2> QED BY <1>1, <2>1 DEF Mechanical
<1>6. ASSUME Touches PROVE Wrote
  <2>1. PICK s \in Seats, rec \in Record : rec.at = clock /\ Write(Main(s), rec)
    BY <1>6, Zenon DEF Touches
  <2> QED BY <1>1, <2>1, MainIs
<1>7. ASSUME Types \/ Delivers PROVE Wrote
  <2>1. PICK s \in Seats, text \in Sayings : Reach(s, text, FALSE) \/ Reach(s, text, TRUE)
    BY <1>7, Zenon DEF Types, Delivers
  <2> QED BY <1>2, <2>1 DEF Sayings
<1>8. ASSUME Dequeues PROVE Wrote
  <2>1. PICK s \in Seats : Dequeue(s)
    BY <1>8 DEF Dequeues
  <2> DEFINE item == Head(queued[s])
  <2>2. queued \in [Seats -> Seq(Item)] /\ queued[s] # <<>>
    BY <2>1 DEF LedgerInv, Queues, Dequeue
  <2>3. item \in Item
    BY <2>2, Split
  <2>4. Write(Main(s), HumanRecord("typed", item.text))
    BY <2>1, Zenon DEF Dequeue
  <2> HIDE DEF item
  <2>5. item.text \in Texts
    BY <2>3 DEF Item
  <2>6. HumanRecord("typed", item.text) \in Record /\ HumanRecord("typed", item.text).at = clock
    BY <2>5, TypedPasses
  <2> QED BY <1>1, <2>4, <2>6, MainIs
<1>9. Wrote
  BY <1>3, <1>4, <1>5, <1>6, <1>7, <1>8, MovesAre
<1>10. files' = files \/ clock' = clock
  BY MovesAre DEF Idles
<1> QED BY <1>9, <1>10, Zenon DEF Wrote

\* What is written stays.
LEMMA FilesGrow ==
  ASSUME LedgerInv, [Next]_vars, NEW f \in DOMAIN Transcripts
  PROVE  /\ ToSet(files[f]) \subseteq ToSet(files'[f])
         /\ \A i \in DOMAIN files[f] : i \in DOMAIN files'[f] /\ files'[f][i] = files[f][i]
         /\ files[f] # <<>> => files'[f] # <<>>
<1>1. files \in [DOMAIN Transcripts -> Seq(Record)]
  BY DEF LedgerInv, Written
<1>2. CASE files' = files
  BY <1>2
<1>3. ASSUME NEW g \in DOMAIN Transcripts, NEW rec \in Record, files' = [files EXCEPT ![g] = Append(files[g], rec)]
      PROVE  /\ \A i \in DOMAIN files[f] : i \in DOMAIN files'[f] /\ files'[f][i] = files[f][i]
             /\ files[f] # <<>> => files'[f] # <<>>
  <2>1. /\ DOMAIN Append(files[g], rec) = DOMAIN files[g] \cup {Len(files[g]) + 1}
        /\ \A i \in DOMAIN files[g] : Append(files[g], rec)[i] = files[g][i]
    BY <1>1, Appended
  <2>2. files'[f] = IF f = g THEN Append(files[g], rec) ELSE files[f]
    BY <1>1, <1>3
  <2>3. CASE f = g
    <3>1. files'[f] # <<>>
      <4>1. Len(files[g]) + 1 \in DOMAIN files'[f]
        BY <2>1, <2>2, <2>3
      <4> QED BY <4>1
    <3> QED BY <2>1, <2>2, <2>3, <3>1
  <2>4. CASE f # g
    BY <2>2, <2>4
  <2> QED BY <2>3, <2>4
<1>4. /\ \A i \in DOMAIN files[f] : i \in DOMAIN files'[f] /\ files'[f][i] = files[f][i]
      /\ files[f] # <<>> => files'[f] # <<>>
  BY <1>2, <1>3, WroteIs, Zenon
<1>5. ToSet(files[f]) \subseteq ToSet(files'[f])
  BY <1>4 DEF ToSet
<1> QED BY <1>4, <1>5

\* The commit a request is charged to is the first at or after it.
LEMMA ChargedIs ==
  ASSUME NEW S \in Commits, NEW at, Rec(at).at \in Nat, NEW m
  PROVE  LET G == InOrder(S)  r == Rec(at).at IN
         (\E i \in charged(at, G) : G[i].at = m) <=>
           /\ m >= r /\ m - r <= Lag /\ \E c \in S : c.at = m
           /\ \A c \in S : c.at >= r => c.at >= m
<1> DEFINE G == InOrder(S)  r == Rec(at).at
<1>1. /\ G \in Seq(S) /\ DOMAIN G = 1..Len(G) /\ Len(G) \in Nat
      /\ \A c \in S : \E i \in DOMAIN G : G[i] = c
      /\ \A i, j \in DOMAIN G : i < j => Earlier(G[i], G[j])
  BY InOrderIs
<1> HIDE DEF G
<1>2. \A c \in S : c.at \in Nat /\ c.n \in Nat
  BY DEF Commits, CommitRecord
<1>3. \A i \in DOMAIN G : G[i] \in S /\ G[i].at \in Nat
  BY <1>1, <1>2
<1>4. \A i, j \in DOMAIN G : i < j => G[i].at <= G[j].at
  <2> TAKE i, j \in DOMAIN G
  <2> HAVE i < j
  <2>1. Earlier(G[i], G[j]) /\ G[i].at \in Nat /\ G[j].at \in Nat
    BY <1>1, <1>3
  <2> QED BY <2>1 DEF Earlier
<1>5. \A i : i \in charged(at, G) <=>
         i \in DOMAIN G /\ G[i].at >= r /\ G[i].at - r <= Lag /\ \A j \in 1..(i - 1) : G[j].at < r
  BY DEF charged
<1> HIDE DEF r
<1>6. r \in Nat
  BY DEF r
<1>7. ASSUME NEW i \in charged(at, G), G[i].at = m
      PROVE  /\ m >= r /\ m - r <= Lag /\ \E c \in S : c.at = m
             /\ \A c \in S : c.at >= r => c.at >= m
  <2>1. i \in DOMAIN G /\ m >= r /\ m - r <= Lag /\ \A j \in 1..(i - 1) : G[j].at < r
    BY <1>5, <1>7
  <2>2. ASSUME NEW c \in S, c.at >= r PROVE c.at >= m
    <3>1. PICK k \in DOMAIN G : G[k] = c
      BY <1>1
    <3>2. ~(k < i)
      <4>1. SUFFICES ASSUME k < i PROVE FALSE
        OBVIOUS
      <4>2. k \in 1..(i - 1)
        BY <1>1, <2>1, <4>1
      <4>3. G[k].at < r /\ G[k].at \in Nat
        BY <1>3, <2>1, <4>2
      <4> QED BY <1>6, <2>2, <3>1, <4>3
    <3>3. i = k \/ i < k
      BY <1>1, <2>1, <3>2
    <3>4. G[i].at <= G[k].at
      BY <1>3, <1>4, <2>1, <3>3
    <3> QED BY <1>3, <1>7, <2>1, <3>1, <3>4
  <2> QED BY <1>3, <1>7, <2>1, <2>2
<1>8. ASSUME m >= r, m - r <= Lag, NEW c \in S, c.at = m, \A d \in S : d.at >= r => d.at >= m
      PROVE  \E i \in charged(at, G) : G[i].at = m
  <2> DEFINE T == {i \in DOMAIN G : G[i].at >= r}
  <2>1. PICK k \in DOMAIN G : G[k] = c
    BY <1>1
  <2>2. T \in SUBSET Nat /\ k \in T
    BY <1>1, <1>8, <2>1
  <2>3. PICK i \in T : \A j \in T : i <= j
    <3> HIDE DEF T
    <3> QED BY <2>2, LeastOf
  <2>4. i \in DOMAIN G /\ G[i].at >= r /\ i <= k
    BY <2>2, <2>3
  <2>5. \A j \in 1..(i - 1) : G[j].at < r
    <3>1. SUFFICES ASSUME NEW j \in 1..(i - 1), ~(G[j].at < r) PROVE FALSE
      OBVIOUS
    <3>2. j \in DOMAIN G /\ j < i /\ i \in Nat /\ j \in Nat
      BY <1>1, <2>4
    <3>3. j \in T
      BY <1>3, <1>6, <3>1, <3>2
    <3>4. i <= j
      BY <2>3, <3>3
    <3> QED BY <3>2, <3>4
  <2>6. G[i].at = m
    <3>1. G[i].at >= m
      BY <1>3, <1>8, <2>4
    <3>2. i = k \/ i < k
      BY <1>1, <2>4
    <3>3. G[i].at <= G[k].at
      BY <1>3, <1>4, <2>4, <3>2
    <3> QED BY <1>3, <1>8, <2>1, <2>4, <3>1, <3>3
  <2>7. i \in charged(at, G)
    BY <1>5, <1>8, <2>4, <2>5, <2>6
  <2> QED BY <2>6, <2>7
<1>9. (\E i \in charged(at, G) : G[i].at = m) <=>
        /\ m >= r /\ m - r <= Lag /\ \E c \in S : c.at = m
        /\ \A c \in S : c.at >= r => c.at >= m
  BY <1>7, <1>8
<1> QED BY <1>9 DEF G, r

\* What landed is a set of commits.
LEMMA LandedIs ==
  ASSUME Logged, clock \in Nat
  PROVE  /\ Landed \in Commits /\ git_commits = InOrder(Landed)
         /\ \A c \in Landed : c.at \in Nat /\ c.at >= 1 /\ c.at <= clock
<1>1. /\ commits \in Seq(CommitRecord)
      /\ \A i \in DOMAIN commits : commits[i].n = i /\ commits[i].at >= 1 /\ commits[i].at <= clock
  BY DEF Logged
<1>2. \A c \in Landed : c \in CommitRecord /\ \E i \in DOMAIN commits : c = commits[i]
  BY <1>1 DEF Landed, ToSet
<1>3. IsFiniteSet(Landed)
  <2>1. DOMAIN commits = 1..Len(commits) /\ Len(commits) \in Nat
    BY <1>1
  <2>2. IsFiniteSet(DOMAIN commits)
    BY <2>1, FS_Interval
  <2>3. commits \in Surjection(DOMAIN commits, Landed)
    <3>1. commits \in [DOMAIN commits -> Landed]
      <4>1. commits \in [1..Len(commits) -> CommitRecord]
        BY <1>1
      <4>2. \A i \in DOMAIN commits : commits[i] \in Landed
        BY DEF Landed, ToSet
      <4> QED BY <4>1, <4>2
    <3>2. \A c \in Landed : \E i \in DOMAIN commits : commits[i] = c
      BY <1>2
    <3> QED BY <3>1, <3>2 DEF Surjection
  <2> QED BY <2>2, <2>3, FS_Surjection
<1>4. \A c, d \in Landed : c.n = d.n => c = d
  <2>1. \A c \in Landed : \E i \in DOMAIN commits : c = commits[i] /\ c.n = i
    BY <1>1, <1>2
  <2> QED BY <2>1
<1>5. \A c \in Landed : c.at \in Nat /\ c.at >= 1 /\ c.at <= clock
  BY <1>1, <1>2 DEF CommitRecord
<1> QED BY <1>2, <1>3, <1>4, <1>5 DEF Commits, git_commits, Landed

\* A place in a transcript is one, and the record in it is accounted for.
LEMMA RecsAre ==
  ASSUME LedgerInv, NEW fs \in SUBSET DOMAIN Transcripts, NEW at \in Recs(fs)
  PROVE  /\ at = <<at[1], at[2]>> /\ at[1] \in fs /\ at[2] \in DOMAIN files[at[1]]
         /\ Rec(at) \in Record /\ Rec(at) \in ToSet(files[at[1]])
         /\ Rec(at).at \in Nat /\ Rec(at).at >= 1 /\ Rec(at).at <= clock
<1>1. PICK f \in fs : at \in {<<f, i>> : i \in DOMAIN files[f]}
  BY DEF Recs
<1>2. PICK i \in DOMAIN files[f] : at = <<f, i>>
  BY <1>1
<1>3. Accounted(menu, clock, nudged, f, i, files[f][i])
  BY <1>2 DEF LedgerInv, Written
<1>4. files[f][i] \in ToSet(files[f])
  BY <1>2 DEF ToSet
<1> QED BY <1>2, <1>3, <1>4 DEF Accounted, Record, Rec

\* A step charges no request to a commit of another moment.
LEMMA ChargesKept ==
  ASSUME LedgerInv, Logged, [Next]_vars,
         NEW at \in Answers(Fleet), NEW i \in charged(at, git_commits)
  PROVE  \E j \in charged(at, git_commits)' : git_commits'[j].at = git_commits[i].at
<1> DEFINE m == git_commits[i].at  r == Rec(at).at
<1>1. clock \in Nat /\ clock' \in Nat /\ clock <= clock' /\ Logged'
  BY CommitsGrow, LoggedKeeps DEF LedgerInv
<1>2. /\ Landed \in Commits /\ git_commits = InOrder(Landed)
      /\ \A c \in Landed : c.at \in Nat /\ c.at >= 1 /\ c.at <= clock
  BY <1>1, LandedIs
<1>3. Landed' \in Commits /\ git_commits' = InOrder(Landed')
  <2>1. LedgerInv'
    BY LedgerKeeps
  <2>2. (Logged /\ clock \in Nat => Landed \in Commits /\ git_commits = InOrder(Landed))'
    BY LandedIs, PTL
  <2> QED BY <1>1, <2>2
<1>4. /\ Landed \subseteq Landed'
      /\ \A c \in Landed' \ Landed : c.at = clock
  <2>1. CASE commits' = commits
    BY <2>1 DEF Landed
  <2>2. ASSUME NEW c, commits' = Append(commits, c), c.at = clock
        PROVE  Landed \subseteq Landed' /\ \A d \in Landed' \ Landed : d.at = clock
    <3>1. commits \in Seq(CommitRecord)
      BY DEF Logged
    <3>2. Landed' = Landed \cup {c}
      BY <2>2, <3>1 DEF Landed, ToSet
    <3> QED BY <2>2, <3>2
  <2>3. ASSUME NEW s \in Seats, NEW k \in BOOLEAN,
               commits' = Append(commits, [n |-> Len(commits) + 1, at |-> clock, seat |-> s, kept |-> k])
        PROVE  Landed \subseteq Landed' /\ \A d \in Landed' \ Landed : d.at = clock
    <3> DEFINE c == [n |-> Len(commits) + 1, at |-> clock, seat |-> s, kept |-> k]
    <3>1. c.at = clock /\ commits' = Append(commits, c)
      BY <2>3
    <3> HIDE DEF c
    <3> QED BY <2>2, <3>1
  <2> QED BY <2>1, <2>3, CommitsGrow
<1>5. r \in Nat /\ r <= clock /\ Rec(at)' = Rec(at)
  <2>1. session_files(Fleet) \cup subagent_files(Fleet) \in SUBSET DOMAIN Transcripts
    BY DEF session_files, subagent_files
  <2>2. at \in Recs(session_files(Fleet) \cup subagent_files(Fleet))
    BY DEF Answers
  <2>3. at[1] \in DOMAIN Transcripts /\ at[2] \in DOMAIN files[at[1]] /\ r \in Nat /\ r <= clock
    BY <2>1, <2>2, RecsAre
  <2> QED BY <2>3, FilesGrow DEF Rec
<1>6. /\ m >= r /\ m - r <= Lag /\ (\E c \in Landed : c.at = m)
      /\ \A c \in Landed : c.at >= r => c.at >= m
  <2>1. \E k \in charged(at, InOrder(Landed)) : InOrder(Landed)[k].at = m
    BY <1>2
  <2>2. Rec(at).at \in Nat
    BY <1>5
  <2> HIDE DEF m
  <2> QED BY <1>2, <2>1, <2>2, ChargedIs
<1>7. m \in Nat /\ m <= clock
  BY <1>2, <1>6
<1> HIDE DEF m
<1>8. /\ (\E c \in Landed' : c.at = m)
      /\ \A c \in Landed' : c.at >= r => c.at >= m
  <2>1. \A c \in Landed' \ Landed : c.at >= m
    BY <1>1, <1>4, <1>7
  <2> QED BY <1>4, <1>6, <2>1
<1>9. \E j \in charged(at, InOrder(Landed')) : InOrder(Landed')[j].at = m
  <2>1. Rec(at).at \in Nat
    BY <1>5
  <2> QED BY <1>3, <1>6, <1>8, <2>1, ChargedIs
<1>10. charged(at, git_commits)' = charged(at, InOrder(Landed'))
  BY <1>3, <1>5 DEF charged
<1> QED BY <1>3, <1>9, <1>10 DEF m

\* Whatever is written, committed and lost in which order, a request stays charged
\* to a commit of the moment it was charged to: work that lands later takes no
\* request from work that landed before it.
THEOREM ChargesAreFinal == RecordsSpec => ChargesStay
<1>1. RecordsInit => LedgerInv /\ Logged
  BY InitAccounted, InitLogged DEF RecordsInit
<1>2. LedgerInv /\ Logged /\ [RecordsNext]_<<vars, shelf>> => (LedgerInv /\ Logged)'
  BY LedgerKeeps, LoggedKeeps DEF RecordsNext
<1>3. LedgerInv /\ Logged /\ [RecordsNext]_<<vars, shelf>> =>
        [\A at \in Answers(Fleet) : \A i \in charged(at, git_commits) :
           \E j \in charged(at, git_commits)' : git_commits'[j].at = git_commits[i].at]_vars
  BY ChargesKept DEF RecordsNext
<1> QED BY <1>1, <1>2, <1>3, PTL DEF RecordsSpec, ChargesStay

----------------------------------------------------------------------------
(* Sums over finite sets.                                                  *)

\* T says of each part of D what f adds up to.
IsTotal(T, f, D) ==
  /\ T \in [SUBSET D -> Nat] /\ T[{}] = 0
  /\ \A S \in SUBSET D : \A x \in S : T[S] = f[x] + T[S \ {x}]
Total(f, D) == CHOOSE T : IsTotal(T, f, D)

\* There is such a T.
LEMMA TotalExists ==
  ASSUME NEW D, IsFiniteSet(D), NEW f \in [D -> Nat]
  PROVE  IsTotal(Total(f, D), f, D)
<1> DEFINE Good(n) == \A E : IsFiniteSet(E) /\ Cardinality(E) = n =>
                        \A g \in [E -> Nat] : \E T : IsTotal(T, g, E)
           B == {n \in Nat : ~Good(n)}
<1>1. Good(0)
  <2> SUFFICES ASSUME NEW E, IsFiniteSet(E), Cardinality(E) = 0, NEW g \in [E -> Nat]
               PROVE  \E T : IsTotal(T, g, E)
    OBVIOUS
  <2>1. E = {}
    BY FS_EmptySet
  <2> DEFINE T == [S \in SUBSET E |-> 0]
  <2>2. IsTotal(T, g, E)
    BY <2>1 DEF IsTotal
  <2> QED BY <2>2
<1>2. ASSUME NEW n \in Nat, Good(n) PROVE Good(n + 1)
  <2> SUFFICES ASSUME NEW E, IsFiniteSet(E), Cardinality(E) = n + 1, NEW g \in [E -> Nat]
               PROVE  \E T : IsTotal(T, g, E)
    OBVIOUS
  <2>1. E # {}
    BY FS_EmptySet
  <2>2. PICK x \in E : TRUE
    BY <2>1
  <2> DEFINE F == E \ {x}  h == [y \in F |-> g[y]]
  <2>3. IsFiniteSet(F) /\ Cardinality(F) = n
    <3>1. IsFiniteSet(F) /\ Cardinality(F) = Cardinality(E) - 1
      BY <2>2, FS_RemoveElement
    <3>2. (n + 1) - 1 = n
      OBVIOUS
    <3> HIDE DEF F
    <3> QED BY <3>1, <3>2
  <2>4. h \in [F -> Nat]
    <3>1. \A y \in F : g[y] \in Nat
      OBVIOUS
    <3> HIDE DEF F
    <3> QED BY <3>1
  <2>5. PICK U : IsTotal(U, h, F)
    <3> HIDE DEF h, F
    <3> QED BY <1>2, <2>3, <2>4
  <2>6. /\ U \in [SUBSET F -> Nat] /\ U[{}] = 0
        /\ \A S \in SUBSET F : \A y \in S : U[S] = h[y] + U[S \ {y}]
    BY <2>5 DEF IsTotal
  <2>7. \A y \in F : h[y] = g[y] /\ g[y] \in Nat
    <3>1. \A y \in F : g[y] \in Nat
      OBVIOUS
    <3> HIDE DEF F
    <3> QED BY <3>1
  <2> DEFINE T == [S \in SUBSET E |-> IF x \in S THEN g[x] + U[S \ {x}] ELSE U[S]]
  <2>8. \A S \in SUBSET E : S \ {x} \in SUBSET F /\ (x \notin S => S \in SUBSET F)
    OBVIOUS
  <2> HIDE DEF h, F
  <2>9. T \in [SUBSET E -> Nat]
    <3>1. g[x] \in Nat
      BY <2>2
    <3>2. ASSUME NEW S \in SUBSET E PROVE (IF x \in S THEN g[x] + U[S \ {x}] ELSE U[S]) \in Nat
      <4>1. CASE x \in S
        <5>1. U[S \ {x}] \in Nat
          BY <2>6, <2>8
        <5> QED BY <3>1, <4>1, <5>1
      <4>2. CASE x \notin S
        BY <2>6, <2>8, <4>2
      <4> QED BY <4>1, <4>2
    <3> QED BY <3>2
  <2>10. T[{}] = 0
    BY <2>6
  <2>11. ASSUME NEW S \in SUBSET E, NEW y \in S PROVE T[S] = g[y] + T[S \ {y}]
    <3>0. S \ {y} \in SUBSET E
      OBVIOUS
    <3>1. CASE y = x
      <4>1. T[S] = g[x] + U[S \ {x}] /\ T[S \ {x}] = U[S \ {x}]
        BY <3>0, <3>1
      <4> HIDE DEF T
      <4> QED BY <3>1, <4>1
    <3>2. CASE y # x /\ x \in S
      <4>1. T[S] = g[x] + U[S \ {x}] /\ T[S \ {y}] = g[x] + U[(S \ {y}) \ {x}]
        BY <3>0, <3>2
      <4>2. y \in F /\ y \in S \ {x} /\ S \ {x} \in SUBSET F
        BY <2>8, <3>2 DEF F
      <4>3. U[S \ {x}] = g[y] + U[(S \ {x}) \ {y}]
        BY <2>6, <2>7, <4>2
      <4>4. (S \ {x}) \ {y} = (S \ {y}) \ {x}
        OBVIOUS
      <4>5. U[(S \ {y}) \ {x}] \in Nat /\ g[x] \in Nat /\ g[y] \in Nat
        BY <2>2, <2>6, <2>7, <2>8, <3>0, <4>2
      <4> DEFINE V == U[(S \ {y}) \ {x}]
      <4>6. T[S] = g[x] + U[S \ {x}] /\ T[S \ {y}] = g[x] + V /\ V \in Nat
        BY <4>1, <4>5, Zenon
      <4>7. U[S \ {x}] = g[y] + V
        BY <4>3, <4>4, Zenon
      <4> HIDE DEF T, V
      <4> QED BY <4>5, <4>6, <4>7
    <3>3. CASE x \notin S
      <4>1. T[S] = U[S] /\ T[S \ {y}] = U[S \ {y}]
        BY <3>0, <3>3
      <4>2. y \in F /\ S \in SUBSET F
        BY <2>8, <3>3 DEF F
      <4>3. U[S] = g[y] + U[S \ {y}]
        BY <2>6, <2>7, <4>2
      <4> HIDE DEF T
      <4> QED BY <4>1, <4>3
    <3> QED BY <3>1, <3>2, <3>3
  <2>12. IsTotal(T, g, E)
    <3> HIDE DEF T
    <3> QED BY <2>9, <2>10, <2>11 DEF IsTotal
  <2> QED BY <2>12
<1>3. \A n \in Nat : Good(n)
  <2> SUFFICES ASSUME B # {} PROVE FALSE
    OBVIOUS
  <2>1. B \in SUBSET Nat
    OBVIOUS
  <2>2. PICK m \in B : \A y \in B : m <= y
    <3> HIDE DEF B
    <3> QED BY <2>1, LeastOf
  <2>3. m \in Nat /\ ~Good(m)
    BY <2>2
  <2>4. m # 0
    BY <1>1, <2>3
  <2>5. m - 1 \in Nat /\ ~(m <= m - 1) /\ (m - 1) + 1 = m
    BY <2>3, <2>4
  <2>6. Good(m - 1)
    <3> HIDE DEF Good
    <3> QED BY <2>2, <2>5
  <2>7. Good((m - 1) + 1)
    <3> HIDE DEF Good
    <3> QED BY <1>2, <2>5, <2>6
  <2> HIDE DEF Good
  <2> QED BY <2>3, <2>5, <2>7
<1>4. \E T : IsTotal(T, f, D)
  BY <1>3, FS_CardinalityType
<1> QED BY <1>4 DEF Total

\* U is computed by taking away one member after another.
Recounts(U, f, D) ==
  U[{}] = 0 /\ \A S \in SUBSET D : S # {} => \E x \in S : U[S] = f[x] + U[S \ {x}]

\* In whatever order the members are taken away the sum is one.
LEMMA TotalsAgree ==
  ASSUME NEW D, IsFiniteSet(D), NEW f, NEW T, IsTotal(T, f, D), NEW U, Recounts(U, f, D)
  PROVE  U[D] = T[D]
<1> DEFINE B == {Cardinality(S) : S \in {R \in SUBSET D : U[R] # T[R]}}
<1> SUFFICES ASSUME U[D] # T[D] PROVE FALSE
  OBVIOUS
<1>0. B # {}
  OBVIOUS
<1>1. \A S \in SUBSET D : IsFiniteSet(S) /\ Cardinality(S) \in Nat
  BY FS_Subset, FS_CardinalityType
<1>2. B \in SUBSET Nat
  BY <1>1
<1>3. PICK m \in B : \A y \in B : m <= y
  <2> HIDE DEF B
  <2> QED BY <1>0, <1>2, LeastOf
<1>4. PICK S \in SUBSET D : U[S] # T[S] /\ m = Cardinality(S)
  BY <1>3
<1>5. S # {}
  BY <1>4 DEF IsTotal, Recounts
<1>6. PICK x \in S : U[S] = f[x] + U[S \ {x}]
  BY <1>5 DEF Recounts
<1>7. T[S] = f[x] + T[S \ {x}]
  BY <1>6 DEF IsTotal
<1>8. S \ {x} \in SUBSET D /\ Cardinality(S \ {x}) = m - 1 /\ m \in Nat
  BY <1>1, <1>4, <1>6, FS_RemoveElement
<1>9. U[S \ {x}] # T[S \ {x}]
  BY <1>4, <1>6, <1>7
<1>10. m - 1 \in B
  BY <1>8, <1>9
<1> HIDE DEF B
<1>11. m <= m - 1
  BY <1>3, <1>10
<1> QED BY <1>8, <1>11

\* What is added up over a part does not depend on the rest.
LEMMA TotalOfPart ==
  ASSUME NEW D, IsFiniteSet(D), NEW f \in [D -> Nat], NEW E \in SUBSET D
  PROVE  Total([x \in E |-> f[x]], E)[E] = Total(f, D)[E]
<1> DEFINE g == [x \in E |-> f[x]]
           T == Total(f, D)
           G == Total(g, E)
           U == [S \in SUBSET E |-> T[S]]
<1>1. IsFiniteSet(E) /\ g \in [E -> Nat]
  BY FS_Subset
<1>2. IsTotal(T, f, D)
  BY TotalExists
<1>3. IsTotal(G, g, E)
  <2> HIDE DEF g
  <2> QED BY <1>1, TotalExists
<1>4. ASSUME NEW S \in SUBSET E, S # {} PROVE \E x \in S : U[S] = g[x] + U[S \ {x}]
  <2>1. PICK x \in S : TRUE
    BY <1>4
  <2>2. S \in SUBSET D /\ S \ {x} \in SUBSET E /\ x \in E
    OBVIOUS
  <2>3. T[S] = f[x] + T[S \ {x}]
    BY <1>2, <2>2 DEF IsTotal
  <2>4. U[S] = T[S] /\ U[S \ {x}] = T[S \ {x}] /\ g[x] = f[x]
    BY <2>2
  <2> HIDE DEF T, U, g
  <2> QED BY <2>3, <2>4
<1>5. U[{}] = 0
  BY <1>2 DEF IsTotal
<1> HIDE DEF T, U, g, G
<1>6. Recounts(U, g, E)
  BY <1>4, <1>5 DEF Recounts
<1>7. U[E] = G[E]
  BY <1>1, <1>3, <1>6, TotalsAgree, Zenon
<1>8. U[E] = T[E]
  BY DEF U
<1> QED BY <1>7, <1>8 DEF T, G, g

\* Two parts that share nothing add up.
LEMMA TotalAdds ==
  ASSUME NEW D, IsFiniteSet(D), NEW f \in [D -> Nat], NEW A \in SUBSET D, NEW B \in SUBSET D, A \cap B = {}
  PROVE  /\ Total(f, D)[A \cup B] = Total(f, D)[A] + Total(f, D)[B]
         /\ Total(f, D)[A] \in Nat /\ Total(f, D)[B] \in Nat
<1> DEFINE g == [x \in A |-> f[x]]
           T == Total(f, D)
           G == Total(g, A)
           U == [S \in SUBSET A |-> T[S \cup B] - T[B]]
<1>1. IsFiniteSet(A) /\ g \in [A -> Nat]
  BY FS_Subset
<1>2. IsTotal(T, f, D)
  BY TotalExists
<1>3. IsTotal(G, g, A)
  <2> HIDE DEF g
  <2> QED BY <1>1, TotalExists
<1>0. \A S \in SUBSET D : T[S] \in Nat
  BY <1>2 DEF IsTotal
<1>4. ASSUME NEW S \in SUBSET A, S # {} PROVE \E x \in S : U[S] = g[x] + U[S \ {x}]
  <2>1. PICK x \in S : TRUE
    BY <1>4
  <2>2. /\ S \cup B \in SUBSET D /\ S \ {x} \in SUBSET A /\ x \in A /\ x \in S \cup B
        /\ (S \cup B) \ {x} = (S \ {x}) \cup B /\ (S \ {x}) \cup B \in SUBSET D
    OBVIOUS
  <2>3. T[S \cup B] = f[x] + T[(S \ {x}) \cup B]
    BY <1>2, <2>2 DEF IsTotal
  <2>4. U[S] = T[S \cup B] - T[B] /\ U[S \ {x}] = T[(S \ {x}) \cup B] - T[B] /\ g[x] = f[x] /\ f[x] \in Nat
    BY <2>2
  <2>5. T[B] \in Nat /\ T[(S \ {x}) \cup B] \in Nat
    BY <1>0, <2>2
  <2> HIDE DEF T, U, g
  <2>6. U[S] = g[x] + U[S \ {x}]
    BY <2>3, <2>4, <2>5
  <2> QED BY <2>6
<1>5. U[{}] = 0
  <2>1. {} \cup B = B /\ T[B] \in Nat
    BY <1>0
  <2>2. U[{}] = T[{} \cup B] - T[B]
    OBVIOUS
  <2> HIDE DEF T, U
  <2> QED BY <2>1, <2>2
<1>6. G[A] = T[A]
  BY TotalOfPart
<1>7. U[A] = T[A \cup B] - T[B]
  OBVIOUS
<1>8. T[A] \in Nat /\ T[B] \in Nat /\ T[A \cup B] \in Nat
  BY <1>0
<1> HIDE DEF T, U, g, G
<1>9. Recounts(U, g, A)
  BY <1>4, <1>5 DEF Recounts
<1>10. U[A] = G[A]
  BY <1>1, <1>3, <1>9, TotalsAgree, Zenon
<1>11. T[A \cup B] = T[A] + T[B]
  BY <1>6, <1>7, <1>8, <1>10
<1> QED BY <1>8, <1>11 DEF T

\* A larger part adds up to more.
LEMMA TotalGrows ==
  ASSUME NEW D, IsFiniteSet(D), NEW f \in [D -> Nat], NEW B \in SUBSET D, NEW A \in SUBSET B
  PROVE  Total(f, D)[A] <= Total(f, D)[B]
<1>1. A \in SUBSET D /\ B \ A \in SUBSET D /\ A \cap (B \ A) = {} /\ A \cup (B \ A) = B
  OBVIOUS
<1>2. /\ Total(f, D)[A \cup (B \ A)] = Total(f, D)[A] + Total(f, D)[B \ A]
      /\ Total(f, D)[A] \in Nat /\ Total(f, D)[B \ A] \in Nat
  BY <1>1, TotalAdds
<1> DEFINE T == Total(f, D)
<1> HIDE DEF T
<1>3. T[B] = T[A] + T[B \ A] /\ T[A] \in Nat /\ T[B \ A] \in Nat
  BY <1>1, <1>2, Zenon DEF T
<1>4. T[A] <= T[B]
  BY <1>3
<1> QED BY <1>4 DEF T

\* What g says of the name of a thing f says of the thing.
Renames(name, f, g, D) ==
  (\A x \in D : g[name[x]] = f[x]) /\ \A x, y \in D : name[x] = name[y] => x = y

\* A sum may be taken over other names of the same things.
LEMMA TotalRenamed ==
  ASSUME NEW D, IsFiniteSet(D), NEW f \in [D -> Nat], NEW Q, IsFiniteSet(Q), NEW g \in [Q -> Nat],
         NEW name \in [D -> Q], Renames(name, f, g, D)
  PROVE  Total(f, D)[D] = Total(g, Q)[{name[x] : x \in D}]
<1> DEFINE all(S) == {name[x] : x \in S}
           F == Total(f, D)
           G == Total(g, Q)
           U == [S \in SUBSET D |-> G[all(S)]]
<1>1. IsTotal(F, f, D) /\ IsTotal(G, g, Q)
  BY TotalExists
<1>2. \A S \in SUBSET D : all(S) \in SUBSET Q
  OBVIOUS
<1>3. ASSUME NEW S \in SUBSET D, S # {} PROVE \E x \in S : U[S] = f[x] + U[S \ {x}]
  <2>1. PICK x \in S : TRUE
    BY <1>3
  <2>2. S \ {x} \in SUBSET D /\ x \in D
    OBVIOUS
  <2>3. name[x] \in all(S) /\ all(S \ {x}) = all(S) \ {name[x]}
    <3>1. \A y \in S : name[y] = name[x] => y = x
      BY DEF Renames
    <3> QED BY <3>1
  <2>4. U[S] = G[all(S)] /\ U[S \ {x}] = G[all(S \ {x})]
    BY <2>2
  <2>5. all(S) \in SUBSET Q
    BY <1>2
  <2> HIDE DEF all, U, F, G
  <2>6. G[all(S)] = g[name[x]] + G[all(S) \ {name[x]}]
    BY <1>1, <2>3, <2>5 DEF IsTotal
  <2> QED BY <2>2, <2>3, <2>4, <2>6 DEF Renames
<1>4. U[{}] = 0
  <2>1. all({}) = {} /\ U[{}] = G[all({})]
    OBVIOUS
  <2> HIDE DEF all, U, F, G
  <2> QED BY <1>1, <2>1 DEF IsTotal
<1>5. U[D] = G[all(D)]
  OBVIOUS
<1> HIDE DEF all, U, F, G
<1>6. Recounts(U, f, D)
  BY <1>3, <1>4 DEF Recounts
<1>7. U[D] = F[D]
  BY <1>1, <1>6, TotalsAgree
<1> QED BY <1>5, <1>7 DEF F, G, all

\* What h says of a key f says of the things with the key together.
Sums(h, K, f, D, key) == \A k \in K : h[k] = Total(f, D)[{x \in D : key[x] = k}]

\* A sum is the sum of the sums by a key.
LEMMA TotalByKey ==
  ASSUME NEW D, IsFiniteSet(D), NEW f \in [D -> Nat], NEW K, IsFiniteSet(K), NEW key \in [D -> K],
         NEW h \in [K -> Nat], Sums(h, K, f, D, key)
  PROVE  Total(h, K)[K] = Total(f, D)[D]
<1> DEFINE of(S) == {x \in D : key[x] \in S}
           F == Total(f, D)
           H == Total(h, K)
           U == [S \in SUBSET K |-> F[of(S)]]
<1>1. IsTotal(F, f, D) /\ IsTotal(H, h, K)
  BY TotalExists
<1>0. \A A, B \in SUBSET D : A \cap B = {} => F[A \cup B] = F[A] + F[B]
  BY TotalAdds
<1>2. ASSUME NEW S \in SUBSET K, S # {} PROVE \E k \in S : U[S] = h[k] + U[S \ {k}]
  <2>1. PICK k \in S : TRUE
    BY <1>2
  <2> DEFINE one == {x \in D : key[x] = k}
  <2>2. /\ of(S) = one \cup of(S \ {k}) /\ one \cap of(S \ {k}) = {}
        /\ one \in SUBSET D /\ of(S \ {k}) \in SUBSET D
    OBVIOUS
  <2>3. U[S] = F[of(S)] /\ U[S \ {k}] = F[of(S \ {k})] /\ h[k] = F[one]
    BY DEF Sums
  <2> HIDE DEF of, one, U
  <2>4. F[one \cup of(S \ {k})] = F[one] + F[of(S \ {k})]
    <3> HIDE DEF F
    <3>1. one \in SUBSET D
      BY <2>2
    <3>2. of(S \ {k}) \in SUBSET D
      BY <2>2
    <3>3. one \cap of(S \ {k}) = {}
      BY <2>2
    <3> QED BY <3>1, <3>2, <3>3, <1>0, Zenon
  <2> HIDE DEF F
  <2> QED BY <2>2, <2>3, <2>4
<1>3. U[{}] = 0
  <2>1. of({}) = {} /\ U[{}] = F[of({})]
    OBVIOUS
  <2> HIDE DEF of, U, F, H
  <2> QED BY <1>1, <2>1 DEF IsTotal
<1>4. U[K] = F[of(K)] /\ of(K) = D
  OBVIOUS
<1> HIDE DEF of, U, F, H
<1>5. Recounts(U, h, K)
  BY <1>2, <1>3 DEF Recounts
<1>6. U[K] = H[K]
  BY <1>1, <1>5, TotalsAgree
<1> QED BY <1>4, <1>6 DEF F, H

----------------------------------------------------------------------------
(* Requests.                                                               *)

\* A record of the answer to a request.
Answering(r) == r.type = "assistant" /\ ~r.synthetic

\* A step that asks for something, and one that writes no answer.
Asks == \E f \in DOMAIN Transcripts, id \in Nat : Answer(f, id)
WritesNoAnswer ==
  \/ files' = files
  \/ \E f \in DOMAIN Transcripts, rec \in Record :
       ~Answering(rec) /\ files' = [files EXCEPT ![f] = Append(files[f], rec)]

\* What a step does to the requests and to the hole in the record.
LEMMA MeterMoves ==
  ASSUME LedgerInv, [Next]_vars
  PROVE  /\ UNCHANGED <<recording, hole>> \/ (UNCHANGED <<files, requests>> /\ (Lose \/ Resume))
         /\ Asks \/ (requests' = requests /\ WritesNoAnswer)
<1> DEFINE Held == UNCHANGED <<recording, hole>>
           Goal == Held /\ requests' = requests /\ WritesNoAnswer
<1>0. ASSUME NEW f \in DOMAIN Transcripts, NEW rec \in Record, rec.type # "assistant" \/ rec.synthetic, Write(f, rec)
      PROVE  WritesNoAnswer
  <2>1. ~Answering(rec)
    BY <1>0 DEF Answering
  <2> QED BY <1>0, <2>1, Zenon DEF Write, WritesNoAnswer
<1>r. ASSUME NEW s \in Seats, NEW text \in Texts, NEW machine, Reach(s, text, machine) PROVE WritesNoAnswer
  <2>1. Main(s) \in DOMAIN Transcripts
    BY MainIs
  <2>2. HumanRecord("typed", text) \in Record /\ HumanRecord("typed", text).type = "user"
    BY TypedPasses
  <2>3. CASE s \in busy
    <3> DEFINE r == [Blank EXCEPT !.type = "enqueue", !.text = text]
    <3>1. r \in Record /\ r.type = "enqueue"
      BY BlankIs DEF Record
    <3>2. Write(Main(s), r)
      BY <1>r, <2>3, Zenon DEF Reach
    <3> HIDE DEF r
    <3>3. r.type # "assistant"
      BY <3>1
    <3> QED BY <1>0, <2>1, <3>1, <3>2, <3>3, Zenon
  <2>4. CASE s \notin busy
    <3>1. Write(Main(s), HumanRecord("typed", text))
      BY <1>r, <2>4, Zenon DEF Reach
    <3>2. HumanRecord("typed", text).type # "assistant"
      BY <2>2
    <3> QED BY <1>0, <2>1, <2>2, <3>1, <3>2, Zenon
  <2> QED BY <2>3, <2>4
<1>w. files' = files => WritesNoAnswer
  BY DEF WritesNoAnswer
<1>1. ASSUME UNCHANGED vars \/ Tick PROVE Goal
  BY <1>1, <1>w, Zenon DEF vars, Tick, session, truth
<1>2. Lose \/ Resume => UNCHANGED <<files, requests>>
  BY Zenon DEF Lose, Resume, session, truth
<1>3. ASSUME NEW s \in Seats, Finish(s) PROVE Goal
  BY <1>3, <1>w, Zenon DEF Finish, truth
<1>4. ASSUME NEW s \in Seats, Dequeue(s) PROVE Goal
  <2> DEFINE item == Head(queued[s])
  <2>2. queued \in [Seats -> Seq(Item)] /\ queued[s] # <<>>
    BY <1>4 DEF LedgerInv, Queues, Dequeue
  <2>3. item \in Item
    BY <2>2, Split
  <2>4. Write(Main(s), HumanRecord("typed", item.text)) /\ Held /\ requests' = requests
    BY <1>4, Zenon DEF Dequeue
  <2> HIDE DEF item
  <2>5. item.text \in Texts
    BY <2>3 DEF Item
  <2>6. HumanRecord("typed", item.text) \in Record /\ HumanRecord("typed", item.text).type = "user"
    BY <2>5, TypedPasses
  <2>7. HumanRecord("typed", item.text).type # "assistant" /\ Main(s) \in DOMAIN Transcripts
    BY <2>6, MainIs
  <2>8. WritesNoAnswer
    BY <1>0, <2>4, <2>6, <2>7, Zenon
  <2> QED BY <2>4, <2>8
<1>5. ASSUME NEW s, Start(s) PROVE Goal
  BY <1>5, <1>w, Zenon DEF Start, truth
<1>6. ASSUME NEW s \in menu.seats, NEW text \in menu.texts, Type(s, text) PROVE Goal
  <2>1. s \in Seats /\ text \in Texts
    BY MenuIs
  <2>2. Reach(s, text, FALSE) /\ Held /\ requests' = requests
    BY <1>6, Zenon DEF Type
  <2> QED BY <1>r, <2>1, <2>2
<1>7. ASSUME NEW s \in menu.seats, NEW kind \in menu.touches, Touch(s, kind) PROVE Goal
  <2> DEFINE r == HumanRecord(kind, "none")
  <2>1. Main(s) \in DOMAIN Transcripts
    BY MenuIs, MainIs
  <2>2. r \in Record /\ r.type = "user"
    BY TouchIs
  <2>3. Write(Main(s), r) /\ Held /\ requests' = requests
    BY <1>7, Zenon DEF Touch
  <2> HIDE DEF r
  <2>4. r.type # "assistant"
    BY <2>2
  <2> QED BY <1>0, <2>1, <2>2, <2>3, <2>4
<1>8. ASSUME NEW s \in menu.seats, NEW kind \in menu.injects, NEW text \in menu.texts, Inject(s, kind, text) PROVE Goal
  <2> DEFINE r == InjectedRecord(kind, text)
  <2>1. Main(s) \in DOMAIN Transcripts
    BY MenuIs, MainIs
  <2>2. r \in Record /\ r.type = "user"
    BY MenuIs, InjectedRecordIs
  <2>3. Write(Main(s), r) /\ Held /\ requests' = requests
    BY <1>8, Zenon DEF Inject, truth
  <2> HIDE DEF r
  <2>4. r.type # "assistant"
    BY <2>2
  <2> QED BY <1>0, <2>1, <2>2, <2>3, <2>4
<1>9. ASSUME NEW s, NEW form, Post(s, form) PROVE Goal
  BY <1>9, <1>w, Zenon DEF Post, truth
<1>10. ASSUME NEW f \in DOMAIN Transcripts, Commit(f) \/ Fail(f) PROVE Goal
  <2> DEFINE b == [Blank EXCEPT !.type = "assistant", !.synthetic = TRUE]
  <2>1. b \in Record /\ b.synthetic
    BY BlankIs DEF Record
  <2>2. Write(f, b) /\ Held /\ requests' = requests
    BY <1>10, Zenon DEF Commit, Fail, truth
  <2> HIDE DEF b
  <2> QED BY <1>0, <2>1, <2>2
<1>11. ASSUME NEW f \in DOMAIN Transcripts, NEW id \in 1..menu.steps, Answer(f, id) PROVE Held /\ Asks
  <2>1. id \in Nat
    BY MenuIs
  <2> QED BY <1>11, <2>1, Zenon DEF Answer, Asks
<1>12. ASSUME NEW s \in menu.targets, NEW text \in menu.payloads, Deliver(s, text) PROVE Goal
  <2>1. s \in Seats /\ text \in Texts
    BY MenuIs
  <2>2. Reach(s, text, TRUE) /\ Held /\ requests' = requests
    BY <1>12, Zenon DEF Deliver
  <2> QED BY <1>r, <2>1, <2>2
<1>13. ASSUME NEW s \in menu.targets, NEW text \in menu.payloads, NEW f \in menu.senders, Send(f, s, text) PROVE Goal
  <2> DEFINE r == [Blank EXCEPT !.type = "send", !.text = text]
  <2>1. text \in Texts /\ f \in DOMAIN Transcripts
    BY MenuIs
  <2>2. r \in Record /\ r.type = "send"
    BY <2>1, BlankIs DEF Record
  <2>3. Write(f, r) /\ Held /\ requests' = requests
    BY <1>13, Zenon DEF Send
  <2> HIDE DEF r
  <2>4. r.type # "assistant"
    BY <2>2
  <2> QED BY <1>0, <2>1, <2>2, <2>3, <2>4
<1>14. ASSUME NEW b, NEW cat, Tag(b, cat) PROVE Goal
  BY <1>14, <1>w, Zenon DEF Tag, truth
<1>15. CASE Lose \/ Resume
  BY <1>2, <1>15, <1>w, Zenon
<1> QED BY <1>1, <1>3, <1>4, <1>5, <1>6, <1>7, <1>8, <1>9, <1>10, <1>11, <1>12, <1>13, <1>14, <1>15 DEF Next

\* Each request has a number of its own and is of one transcript; an answer says
\* which request it is part of.  While the record is whole every request has an
\* answer in it, and a subagent's transcript one of its seat beside it.
Metered ==
  /\ recording \in BOOLEAN /\ hole \in [from : Nat, to : Nat]
  /\ requests \subseteq [id : Nat, file : DOMAIN Transcripts] /\ IsFiniteSet(requests)
  /\ \A q, r \in requests : q.id = r.id => q = r
  /\ \A f \in DOMAIN Transcripts : \A r \in ToSet(files[f]) :
       Answering(r) => r.tokens = 10 * r.request /\ [id |-> r.request, file |-> f] \in requests
  /\ Whole => /\ recording
              /\ \A q \in requests : /\ \E r \in ToSet(files[q.file]) : Answering(r) /\ r.request = q.id
                                     /\ Alive(q.file)

\* Nothing was asked for at the start.
LEMMA InitMetered == Init => Metered
<1> SUFFICES ASSUME Init PROVE Metered
  OBVIOUS
<1>1. recording \in BOOLEAN /\ hole \in [from : Nat, to : Nat] /\ requests = {} /\ recording
  BY DEF Init
<1>2. \A f \in DOMAIN Transcripts : ToSet(files[f]) = {}
  BY DEF Init, ToSet
<1>3. IsFiniteSet(requests)
  BY <1>1, FS_EmptySet
<1> QED BY <1>1, <1>2, <1>3 DEF Metered

\* The records of a transcript that one was written to.
LEMMA AddedIs ==
  ASSUME LedgerInv, NEW f \in DOMAIN Transcripts, NEW rec \in Record, files' = [files EXCEPT ![f] = Append(files[f], rec)],
         NEW g \in DOMAIN Transcripts
  PROVE  ToSet(files'[g]) = ToSet(files[g]) \cup (IF g = f THEN {rec} ELSE {})
<1>1. files \in [DOMAIN Transcripts -> Seq(Record)]
  BY DEF LedgerInv, Written
<1>2. files'[g] = IF g = f THEN Append(files[f], rec) ELSE files[g]
  BY <1>1
<1>3. CASE g # f
  BY <1>2, <1>3
<1>4. CASE g = f
  <2> DEFINE new == Append(files[f], rec)
  <2>1. /\ DOMAIN new = DOMAIN files[f] \cup {Len(files[f]) + 1}
        /\ \A i \in DOMAIN files[f] : new[i] = files[f][i]
        /\ new[Len(files[f]) + 1] = rec
    BY <1>1, Appended
  <2> HIDE DEF new
  <2>2. files'[g] = new
    BY <1>2, <1>4 DEF new
  <2>3. ToSet(new) = ToSet(files[f]) \cup {rec}
    BY <2>1 DEF ToSet
  <2> QED BY <1>4, <2>2, <2>3
<1> QED BY <1>3, <1>4

\* Every step keeps the requests and their answers together.
LEMMA MeteredKeeps ==
  ASSUME LedgerInv, Metered, [Next]_vars
  PROVE  Metered'
<1>0. clock \in Nat /\ clock >= 1
  BY DEF LedgerInv
<1>1. /\ recording' \in BOOLEAN /\ hole' \in [from : Nat, to : Nat] /\ (Whole' => Whole /\ (recording => recording'))
      /\ ~(UNCHANGED <<recording, hole>>) => UNCHANGED <<files, requests>>
  <2>1. CASE UNCHANGED <<recording, hole>>
    BY <2>1 DEF Metered, Whole
  <2>2. CASE UNCHANGED <<files, requests>> /\ Lose
    <3>1. recording' = FALSE /\ hole' = [hole EXCEPT !.from = clock] /\ UNCHANGED <<files, requests>>
      BY <2>2, Zenon DEF Lose
    <3>2. hole'.from = clock /\ hole' \in [from : Nat, to : Nat]
      BY <1>0, <3>1 DEF Metered
    <3>3. ~Whole'
      BY <1>0, <3>2 DEF Whole
    <3> QED BY <3>1, <3>2, <3>3
  <2>3. CASE UNCHANGED <<files, requests>> /\ Resume
    <3>1. recording' = TRUE /\ hole' = [hole EXCEPT !.to = clock] /\ UNCHANGED <<files, requests>>
      BY <2>3, Zenon DEF Resume
    <3>2. hole'.from = hole.from /\ hole' \in [from : Nat, to : Nat]
      BY <1>0, <3>1 DEF Metered
    <3>3. Whole' => Whole
      BY <3>2 DEF Whole
    <3> QED BY <3>1, <3>2, <3>3
  <2> QED BY <2>1, <2>2, <2>3, MeterMoves
<1>2. ASSUME requests' = requests, WritesNoAnswer PROVE Metered'
  <2>1. \A f \in DOMAIN Transcripts : \A r \in ToSet(files'[f]) : Answering(r) => r \in ToSet(files[f])
    <3>1. CASE files' = files
      BY <3>1
    <3>2. ASSUME NEW f \in DOMAIN Transcripts, NEW rec \in Record, ~Answering(rec),
                 files' = [files EXCEPT ![f] = Append(files[f], rec)]
          PROVE  \A g \in DOMAIN Transcripts : \A r \in ToSet(files'[g]) : Answering(r) => r \in ToSet(files[g])
      <4>1. \A g \in DOMAIN Transcripts : ToSet(files'[g]) = ToSet(files[g]) \cup (IF g = f THEN {rec} ELSE {})
        BY <3>2, AddedIs
      <4> QED BY <3>2, <4>1
    <3> QED BY <1>2, <3>1, <3>2 DEF WritesNoAnswer
  <2>2. \A f \in DOMAIN Transcripts : ToSet(files[f]) \subseteq ToSet(files'[f]) /\ (Alive(f) => Alive(f)')
    <3>1. ASSUME NEW f \in DOMAIN Transcripts PROVE Alive(f) => Alive(f)'
      <4>1. Main(Transcripts[f].seat) \in DOMAIN Transcripts
        BY MainIs DEF Seats
      <4> QED BY <4>1, FilesGrow DEF Alive
    <3> QED BY <3>1, FilesGrow
  <2>3. /\ requests' \subseteq [id : Nat, file : DOMAIN Transcripts] /\ IsFiniteSet(requests')
        /\ \A q, r \in requests' : q.id = r.id => q = r
    BY <1>2 DEF Metered
  <2>4. \A f \in DOMAIN Transcripts : \A r \in ToSet(files'[f]) :
          Answering(r) => r.tokens = 10 * r.request /\ [id |-> r.request, file |-> f] \in requests'
    BY <1>2, <2>1 DEF Metered
  <2>5. ASSUME Whole' PROVE recording' /\ \A q \in requests' : /\ \E r \in ToSet(files'[q.file]) : Answering(r) /\ r.request = q.id
                                                               /\ Alive(q.file)'
    <3>1. /\ recording' /\ \A q \in requests : /\ q.file \in DOMAIN Transcripts /\ Alive(q.file)
                                               /\ \E r \in ToSet(files[q.file]) : Answering(r) /\ r.request = q.id
      BY <1>1, <2>5 DEF Metered
    <3> QED BY <1>2, <2>2, <3>1
  <2> QED BY <1>1, <2>3, <2>4, <2>5 DEF Metered
<1>3. ASSUME NEW f \in DOMAIN Transcripts, NEW id \in Nat, Answer(f, id) PROVE Metered'
  <2> DEFINE a == [Blank EXCEPT !.type = "assistant", !.request = id, !.tokens = 10 * id]
             new == [id |-> id, file |-> f]
  <2>1. a \in Record /\ a.type = "assistant" /\ a.request = id /\ a.tokens = 10 * id /\ a.synthetic = FALSE
    <3>1. 10 * id \in Nat
      OBVIOUS
    <3>2. Blank.synthetic = FALSE
      BY DEF Blank
    <3> QED BY <3>1, <3>2, BlankIs DEF Record
  <2>2. /\ Alive(f) /\ (\A q \in requests : q.id = id => q.file = f) /\ Write(f, a) /\ requests' = requests \cup {new}
        /\ UNCHANGED <<recording, hole>>
    BY <1>3, Zenon DEF Answer
  <2> HIDE DEF a
  <2>3. Answering(a)
    BY <2>1 DEF Answering
  <2>4. \A g \in DOMAIN Transcripts : ToSet(files[g]) \subseteq ToSet(files'[g]) /\ (Alive(g) => Alive(g)')
    <3>1. ASSUME NEW g \in DOMAIN Transcripts PROVE Alive(g) => Alive(g)'
      <4>1. Main(Transcripts[g].seat) \in DOMAIN Transcripts
        BY MainIs DEF Seats
      <4> QED BY <4>1, FilesGrow DEF Alive
    <3> QED BY <3>1, FilesGrow
  <2>5. /\ \A g \in DOMAIN Transcripts : \A r \in ToSet(files'[g]) : r \in ToSet(files[g]) \/ (g = f /\ r = a)
        /\ recording => a \in ToSet(files'[f])
    <3>1. CASE recording
      <4>1. files' = [files EXCEPT ![f] = Append(files[f], a)]
        BY <2>2, <3>1 DEF Write
      <4>2. \A g \in DOMAIN Transcripts : ToSet(files'[g]) = ToSet(files[g]) \cup (IF g = f THEN {a} ELSE {})
        BY <2>1, <4>1, AddedIs
      <4> QED BY <4>2
    <3>2. CASE ~recording
      <4>1. files' = files
        BY <2>2, <3>2 DEF Write
      <4> QED BY <3>2, <4>1
    <3> QED BY <3>1, <3>2
  <2>6. new \in [id : Nat, file : DOMAIN Transcripts] /\ new.id = id /\ new.file = f
    OBVIOUS
  <2>7. /\ requests \subseteq [id : Nat, file : DOMAIN Transcripts] /\ IsFiniteSet(requests)
        /\ \A q, r \in requests : q.id = r.id => q = r
    BY DEF Metered
  <2>8. \A q \in requests : q.id = id => q = new
    BY <2>2, <2>7
  <2> HIDE DEF new
  <2>9. /\ requests' \subseteq [id : Nat, file : DOMAIN Transcripts] /\ IsFiniteSet(requests')
        /\ \A q, r \in requests' : q.id = r.id => q = r
    <3>1. IsFiniteSet(requests \cup {new})
      BY <2>7, FS_AddElement
    <3> QED BY <2>2, <2>6, <2>7, <2>8, <3>1
  <2>10. ASSUME NEW g \in DOMAIN Transcripts, NEW r \in ToSet(files'[g]), Answering(r)
         PROVE  r.tokens = 10 * r.request /\ [id |-> r.request, file |-> g] \in requests'
    <3>1. CASE r \in ToSet(files[g])
      BY <2>2, <2>10, <3>1 DEF Metered
    <3>2. CASE g = f /\ r = a
      BY <2>1, <2>2, <3>2 DEF new
    <3> QED BY <2>5, <3>1, <3>2
  <2>11. ASSUME Whole' PROVE recording' /\ \A q \in requests' : /\ \E r \in ToSet(files'[q.file]) : Answering(r) /\ r.request = q.id
                                                                /\ Alive(q.file)'
    <3>1. /\ recording /\ recording' /\ \A q \in requests : /\ q.file \in DOMAIN Transcripts /\ Alive(q.file)
                                               /\ \E r \in ToSet(files[q.file]) : Answering(r) /\ r.request = q.id
      BY <1>1, <2>11 DEF Metered
    <3>2. /\ \E r \in ToSet(files'[new.file]) : Answering(r) /\ r.request = new.id
          /\ Alive(new.file)'
      BY <2>1, <2>2, <2>3, <2>4, <2>5, <2>6, <3>1
    <3>3. \A q \in requests : /\ \E r \in ToSet(files'[q.file]) : Answering(r) /\ r.request = q.id
                              /\ Alive(q.file)'
      BY <2>4, <3>1
    <3> QED BY <2>2, <3>1, <3>2, <3>3
  <2> QED BY <1>1, <2>9, <2>10, <2>11 DEF Metered
<1> QED BY <1>2, <1>3, MeterMoves DEF Asks

\* The requests of the personal seats, and the one that an answer is of.
AskedOf == {q \in requests : Transcripts[q.file].seat \in Personal}
RequestOf(at) == [id |-> Rec(at).request, file |-> at[1]]

\* The fleet is the personal seats that have written.
LEMMA FleetIs ==
  /\ Fleet = {s \in Personal : session_files({s}) # {}}
  /\ Personal \subseteq Seats
  /\ session_files(Fleet) \subseteq DOMAIN Transcripts /\ subagent_files(Fleet) \subseteq DOMAIN Transcripts
  /\ \A f \in session_files(Fleet) \cup subagent_files(Fleet) : Transcripts[f].seat \in Personal
<1>1. \A s \in Seats : Lane[s] \in {"personal", "employer", "unlisted", "scratchpad"}
  BY LanesAssumption
<1>2. Fleet = {s \in Personal : session_files({s}) # {}}
  BY <1>1 DEF Fleet, discover_personal_projects, lane_refusal, Personal
<1>3. session_files(Fleet) \subseteq DOMAIN Transcripts /\ subagent_files(Fleet) \subseteq DOMAIN Transcripts
  BY DEF session_files, subagent_files
<1>4. \A f \in session_files(Fleet) \cup subagent_files(Fleet) : Transcripts[f].seat \in Fleet
  BY DEF session_files, subagent_files
<1> QED BY <1>2, <1>3, <1>4 DEF Personal

\* What was asked for in a personal seat is in a transcript of the fleet.
LEMMA AskedInFleet ==
  ASSUME LedgerInv, Metered, Whole, NEW q \in requests, Transcripts[q.file].seat \in Personal
  PROVE  q.file \in session_files(Fleet) \cup subagent_files(Fleet)
<1> DEFINE f == q.file  s == Transcripts[f].seat
<1>1. f \in DOMAIN Transcripts /\ Alive(f) /\ ToSet(files[f]) # {}
  BY DEF Metered
<1>2. s \in Seats /\ s \in Personal
  BY <1>1 DEF Seats
<1>3. files[f] # <<>>
  BY <1>1 DEF ToSet
<1>4. \E g \in DOMAIN Transcripts : Transcripts[g].seat = s /\ ~Transcripts[g].sub /\ files[g] # <<>>
  <2>1. CASE Transcripts[f].sub
    BY <1>1, <1>2, <2>1, MainIs DEF Alive
  <2>2. CASE ~Transcripts[f].sub
    BY <1>1, <1>3, <2>2
  <2> QED BY <2>1, <2>2
<1>5. s \in Fleet
  BY <1>2, <1>4, FleetIs DEF session_files
<1>6. CASE Transcripts[f].sub
  BY <1>1, <1>5, <1>6 DEF subagent_files
<1>7. CASE ~Transcripts[f].sub
  BY <1>1, <1>3, <1>5, <1>7 DEF session_files
<1> QED BY <1>6, <1>7

\* The answers are records of requests.
LEMMA AnswersAre ==
  ASSUME LedgerInv, Metered, NEW at \in Answers(Fleet)
  PROVE  /\ at = <<at[1], at[2]>> /\ at[1] \in session_files(Fleet) \cup subagent_files(Fleet)
         /\ at[1] \in DOMAIN Transcripts /\ Transcripts[at[1]].seat \in Personal
         /\ at[2] \in DOMAIN files[at[1]] /\ at[2] \in Nat /\ Rec(at) \in Record
         /\ Rec(at).tokens = 10 * Rec(at).request /\ RequestOf(at) \in requests
<1> DEFINE fs == session_files(Fleet) \cup subagent_files(Fleet)
<1>1. at \in Recs(fs) /\ fs \in SUBSET DOMAIN Transcripts /\ Answering(Rec(at))
  BY FleetIs DEF Answers, Answering
<1>2. /\ at = <<at[1], at[2]>> /\ at[1] \in fs /\ at[2] \in DOMAIN files[at[1]]
      /\ Rec(at) \in Record /\ Rec(at) \in ToSet(files[at[1]])
  BY <1>1, RecsAre
<1>3. files[at[1]] \in Seq(Record)
  BY <1>1, <1>2 DEF LedgerInv, Written
<1>4. at[2] \in Nat
  BY <1>2, <1>3
<1>5. Rec(at).tokens = 10 * Rec(at).request /\ RequestOf(at) \in requests
  BY <1>1, <1>2 DEF Metered, RequestOf
<1>6. Transcripts[at[1]].seat \in Personal
  BY <1>2, FleetIs
<1> QED BY <1>1, <1>2, <1>4, <1>5, <1>6

\* Each request of a personal seat is one event, and each event one of them.
LEMMA EventsAre ==
  ASSUME LedgerInv, Metered, Whole
  PROVE  /\ \A at \in usage_events(Fleet) : RequestOf(at) \in AskedOf
         /\ \A at, b \in usage_events(Fleet) : RequestOf(at) = RequestOf(b) => at = b
         /\ \A q \in AskedOf : \E at \in usage_events(Fleet) : RequestOf(at) = q
<1> DEFINE E == usage_events(Fleet)
<1>1. \A at \in E : at \in Answers(Fleet)
  BY DEF usage_events
<1>2. ASSUME NEW at \in E PROVE RequestOf(at) \in AskedOf
  <2>1. RequestOf(at) \in requests /\ Transcripts[at[1]].seat \in Personal
    BY <1>1, AnswersAre
  <2>2. RequestOf(at).file = at[1]
    BY DEF RequestOf
  <2> QED BY <2>1, <2>2 DEF AskedOf
<1>3. ASSUME NEW at \in E, NEW b \in E, RequestOf(at) = RequestOf(b) PROVE at = b
  <2>1. /\ at \in Answers(Fleet) /\ b \in Answers(Fleet)
        /\ at = <<at[1], at[2]>> /\ b = <<b[1], b[2]>> /\ at[2] \in Nat /\ b[2] \in Nat
    BY <1>1, AnswersAre
  <2>2. at[1] = b[1] /\ Rec(at).request = Rec(b).request
    BY <1>3 DEF RequestOf
  <2>3. ~Before(at, b) /\ ~Before(b, at)
    BY <1>3, <2>1, <2>2 DEF usage_events
  <2>4. at[2] = b[2]
    BY <2>1, <2>2, <2>3 DEF Before
  <2> QED BY <2>1, <2>2, <2>4
<1>4. ASSUME NEW q \in AskedOf PROVE \E at \in E : RequestOf(at) = q
  <2> DEFINE f == q.file
             T == {i \in DOMAIN files[f] : Answering(files[f][i]) /\ files[f][i].request = q.id}
  <2>1. q \in requests /\ Transcripts[f].seat \in Personal /\ q \in [id : Nat, file : DOMAIN Transcripts]
    BY DEF AskedOf, Metered
  <2>2. f \in session_files(Fleet) \cup subagent_files(Fleet) /\ f \in DOMAIN Transcripts
    BY <2>1, AskedInFleet
  <2>3. files[f] \in Seq(Record)
    BY <2>2 DEF LedgerInv, Written
  <2>4. T \in SUBSET Nat /\ T # {}
    <3>1. PICK r \in ToSet(files[f]) : Answering(r) /\ r.request = q.id
      BY <2>1 DEF Metered
    <3>2. PICK i \in DOMAIN files[f] : r = files[f][i]
      BY <3>1 DEF ToSet
    <3>3. DOMAIN files[f] \subseteq Nat
      BY <2>3
    <3> QED BY <3>1, <3>2, <3>3
  <2>5. PICK i \in T : \A j \in T : i <= j
    <3> HIDE DEF T
    <3> QED BY <2>4, LeastOf
  <2> DEFINE at == <<f, i>>
  <2>6. i \in DOMAIN files[f] /\ Answering(Rec(at)) /\ Rec(at).request = q.id
    BY <2>5 DEF Rec
  <2>7. at \in Answers(Fleet)
    BY <2>2, <2>6 DEF Answers, Recs, Answering
  <2>8. ASSUME NEW p \in Answers(Fleet), Before(p, at), Rec(p).request = q.id PROVE FALSE
    <3>1. /\ p = <<p[1], p[2]>> /\ p[1] \in DOMAIN Transcripts /\ p[2] \in DOMAIN files[p[1]] /\ p[2] \in Nat
          /\ RequestOf(p) \in requests
      BY AnswersAre
    <3>2. RequestOf(p).id = q.id /\ RequestOf(p).file = p[1]
      BY <2>8 DEF RequestOf
    <3>3. RequestOf(p) = q
      BY <2>1, <3>1, <3>2 DEF Metered
    <3>4. p[1] = f
      BY <3>2, <3>3
    <3>5. Answering(Rec(p)) /\ Rec(p) = files[f][p[2]]
      BY <3>4 DEF Answers, Answering, Rec
    <3>6. p[2] \in T
      BY <2>8, <3>1, <3>4, <3>5
    <3>7. i <= p[2] /\ i \in Nat
      BY <2>4, <2>5, <3>6
    <3>8. p[1] < f \/ p[2] < i
      BY <2>8 DEF Before
    <3>9. f \in Nat
      BY <2>2, LanesAssumption
    <3> QED BY <3>1, <3>4, <3>7, <3>8, <3>9
  <2>9. at \in E
    BY <2>6, <2>7, <2>8 DEF usage_events
  <2>10. RequestOf(at) = q
    BY <2>1, <2>6 DEF RequestOf
  <2> QED BY <2>9, <2>10
<1> QED BY <1>2, <1>3, <1>4

\* What a table adds up.
LEMMA TableIs ==
  ASSUME NEW E, IsFiniteSet(E), \A at \in E : Rec(at).tokens \in Nat, NEW here
  PROVE  table(E, here) = Total([x \in {y \in E : here[y]} |-> Rec(x).tokens], {y \in E : here[y]})[{y \in E : here[y]}]
<1> DEFINE D == {y \in E : here[y]}
           f == [x \in D |-> Rec(x).tokens]
           any(S) == CHOOSE x \in S : TRUE
           P(g) == g = [S \in SUBSET D |-> IF S = {} THEN 0 ELSE Rec(any(S)).tokens + g[S \ {any(S)}]]
           it == CHOOSE g : P(g)
           T == Total(f, D)
<1> SUFFICES it[D] = T[D]
  BY DEF table, MapThenSumSet, MapThenFoldSet
<1>1. IsFiniteSet(D) /\ f \in [D -> Nat]
  BY FS_Subset
<1>2. IsTotal(T, f, D)
  <2> HIDE DEF f, D
  <2> QED BY <1>1, TotalExists
<1>3. \A S \in SUBSET D : S # {} => any(S) \in S /\ f[any(S)] = Rec(any(S)).tokens
  <2> HIDE DEF D
  <2> QED OBVIOUS
<1> HIDE DEF any, f, D
<1>4. P(T)
  <2>1. T = [S \in SUBSET D |-> T[S]]
    BY <1>2 DEF IsTotal
  <2>2. ASSUME NEW S \in SUBSET D
        PROVE  T[S] = IF S = {} THEN 0 ELSE Rec(any(S)).tokens + T[S \ {any(S)}]
    BY <1>2, <1>3 DEF IsTotal
  <2> HIDE DEF T
  <2> QED BY <2>1, <2>2
<1> HIDE DEF T
<1>5. P(it)
  <2> HIDE DEF P
  <2> QED BY <1>4
<1> HIDE DEF it
<1>6. it[{}] = 0
  BY <1>5
<1>7. \A S \in SUBSET D : S # {} => \E x \in S : it[S] = f[x] + it[S \ {x}]
  <2> SUFFICES ASSUME NEW S \in SUBSET D, S # {}
               PROVE  any(S) \in S /\ it[S] = f[any(S)] + it[S \ {any(S)}]
    OBVIOUS
  <2> QED BY <1>3, <1>5
<1> HIDE DEF P
<1>8. Recounts(it, f, D)
  BY <1>6, <1>7 DEF Recounts
<1> QED BY <1>1, <1>2, <1>8, TotalsAgree, Zenon

\* What the requests of a set cost.
LEMMA AskedIs ==
  ASSUME NEW S0, IsFiniteSet(S0), \A q \in S0 : q.id \in Nat
  PROVE  Asked(S0) = Total([x \in S0 |-> 10 * x.id], S0)[S0]
<1> DEFINE D == S0
           f == [x \in D |-> 10 * x.id]
           any(S) == CHOOSE x \in S : TRUE
           P(g) == g = [S \in SUBSET D |-> IF S = {} THEN 0 ELSE 10 * any(S).id + g[S \ {any(S)}]]
           it == CHOOSE g : P(g)
           T == Total(f, D)
<1> SUFFICES it[D] = T[D]
  BY DEF Asked, MapThenSumSet, MapThenFoldSet
<1>1. IsFiniteSet(D) /\ f \in [D -> Nat]
  OBVIOUS
<1>2. IsTotal(T, f, D)
  <2> HIDE DEF f, D
  <2> QED BY <1>1, TotalExists
<1>3. \A S \in SUBSET D : S # {} => any(S) \in S /\ f[any(S)] = 10 * any(S).id
  <2> HIDE DEF D
  <2> QED OBVIOUS
<1> HIDE DEF any, f, D
<1>4. P(T)
  <2>1. T = [S \in SUBSET D |-> T[S]]
    BY <1>2 DEF IsTotal
  <2>2. ASSUME NEW S \in SUBSET D
        PROVE  T[S] = IF S = {} THEN 0 ELSE 10 * any(S).id + T[S \ {any(S)}]
    BY <1>2, <1>3 DEF IsTotal
  <2> HIDE DEF T
  <2> QED BY <2>1, <2>2
<1> HIDE DEF T
<1>5. P(it)
  <2> HIDE DEF P
  <2> QED BY <1>4
<1> HIDE DEF it
<1>6. it[{}] = 0
  BY <1>5
<1>7. \A S \in SUBSET D : S # {} => \E x \in S : it[S] = f[x] + it[S \ {x}]
  <2> SUFFICES ASSUME NEW S \in SUBSET D, S # {}
               PROVE  any(S) \in S /\ it[S] = f[any(S)] + it[S \ {any(S)}]
    OBVIOUS
  <2> QED BY <1>3, <1>5
<1> HIDE DEF P
<1>8. Recounts(it, f, D)
  BY <1>6, <1>7 DEF Recounts
<1> QED BY <1>1, <1>2, <1>8, TotalsAgree, Zenon

\* What the rows of a report add up to.
LEMMA TableSumIs ==
  ASSUME NEW t, IsFiniteSet(DOMAIN t), \A k \in DOMAIN t : t[k].output \in Nat
  PROVE  TableSum(t) = Total([x \in DOMAIN t |-> t[x].output], DOMAIN t)[DOMAIN t]
<1> DEFINE D == DOMAIN t
           f == [x \in D |-> t[x].output]
           any(S) == CHOOSE x \in S : TRUE
           P(g) == g = [S \in SUBSET D |-> IF S = {} THEN 0 ELSE t[any(S)].output + g[S \ {any(S)}]]
           it == CHOOSE g : P(g)
           T == Total(f, D)
<1> SUFFICES it[D] = T[D]
  BY DEF TableSum, MapThenSumSet, MapThenFoldSet
<1>1. IsFiniteSet(D) /\ f \in [D -> Nat]
  OBVIOUS
<1>2. IsTotal(T, f, D)
  <2> HIDE DEF f, D
  <2> QED BY <1>1, TotalExists
<1>3. \A S \in SUBSET D : S # {} => any(S) \in S /\ f[any(S)] = t[any(S)].output
  <2> HIDE DEF D
  <2> QED OBVIOUS
<1> HIDE DEF any, f, D
<1>4. P(T)
  <2>1. T = [S \in SUBSET D |-> T[S]]
    BY <1>2 DEF IsTotal
  <2>2. ASSUME NEW S \in SUBSET D
        PROVE  T[S] = IF S = {} THEN 0 ELSE t[any(S)].output + T[S \ {any(S)}]
    BY <1>2, <1>3 DEF IsTotal
  <2> HIDE DEF T
  <2> QED BY <2>1, <2>2
<1> HIDE DEF T
<1>5. P(it)
  <2> HIDE DEF P
  <2> QED BY <1>4
<1> HIDE DEF it
<1>6. it[{}] = 0
  BY <1>5
<1>7. \A S \in SUBSET D : S # {} => \E x \in S : it[S] = f[x] + it[S \ {x}]
  <2> SUFFICES ASSUME NEW S \in SUBSET D, S # {}
               PROVE  any(S) \in S /\ it[S] = f[any(S)] + it[S \ {any(S)}]
    OBVIOUS
  <2> QED BY <1>3, <1>5
<1> HIDE DEF P
<1>8. Recounts(it, f, D)
  BY <1>6, <1>7 DEF Recounts
<1> QED BY <1>1, <1>2, <1>8, TotalsAgree, Zenon

\* A report of the events D by key, and the requests that a set of events is of.
RowsOf(D, key) ==
  [k \in {key[at] : at \in D} |->
     [requests |-> Count({at \in D : key[at] = k}),
      output   |-> table(D, [at \in D |-> key[at] = k])]]
RequestsOf(D) == {RequestOf(at) : at \in D}
Asks10 == [q \in AskedOf |-> 10 * q.id]

\* What a set of requests costs is part of what all of them cost.
LEMMA AskedPart ==
  ASSUME Metered, NEW S \in SUBSET AskedOf
  PROVE  /\ IsFiniteSet(S) /\ Asked(S) = Total(Asks10, AskedOf)[S] /\ Asked(S) \in Nat
         /\ IsFiniteSet(AskedOf) /\ Asks10 \in [AskedOf -> Nat]
<1>1. IsFiniteSet(AskedOf) /\ IsFiniteSet(S)
  BY FS_Subset DEF Metered, AskedOf
<1>2. \A q \in AskedOf : q.id \in Nat /\ 10 * q.id \in Nat
  <2>1. \A q \in AskedOf : q.id \in Nat
    BY DEF Metered, AskedOf
  <2> QED BY <2>1
<1>3. Asks10 \in [AskedOf -> Nat]
  BY <1>2 DEF Asks10
<1>4. Asked(S) = Total([x \in S |-> 10 * x.id], S)[S]
  BY <1>1, <1>2, AskedIs
<1>5. [x \in S |-> 10 * x.id] = [x \in S |-> Asks10[x]]
  BY DEF Asks10
<1>6. Total([x \in S |-> Asks10[x]], S)[S] = Total(Asks10, AskedOf)[S]
  BY <1>1, <1>3, TotalOfPart
<1>7. Total(Asks10, AskedOf)[S] \in Nat
  <2>1. IsTotal(Total(Asks10, AskedOf), Asks10, AskedOf)
    BY <1>1, <1>3, TotalExists
  <2> QED BY <2>1, Zenon DEF IsTotal
<1>8. Asked(S) = Total(Asks10, AskedOf)[S]
  BY <1>4, <1>5, <1>6, Zenon
<1> QED BY <1>1, <1>3, <1>7, <1>8, Zenon

\* Events are counted, and add up, as their requests do.
LEMMA EventsCount ==
  ASSUME LedgerInv, Metered, Whole, NEW D \in SUBSET usage_events(Fleet)
  PROVE  /\ IsFiniteSet(D) /\ RequestsOf(D) \in SUBSET AskedOf /\ Count(D) = Count(RequestsOf(D))
         /\ \A at \in D : Rec(at).tokens \in Nat
         /\ Total([at \in D |-> Rec(at).tokens], D)[D] = Asked(RequestsOf(D))
<1> DEFINE name == [at \in D |-> RequestOf(at)]
           tokens == [at \in D |-> Rec(at).tokens]
<1>1. /\ \A at \in D : RequestOf(at) \in AskedOf
      /\ \A at, b \in D : RequestOf(at) = RequestOf(b) => at = b
  BY EventsAre
<1>2. RequestsOf(D) \in SUBSET AskedOf
  BY <1>1 DEF RequestsOf
<1>3. IsFiniteSet(RequestsOf(D))
  BY <1>2, AskedPart
<1>4. name \in Injection(D, RequestsOf(D)) /\ name \in Surjection(D, RequestsOf(D))
  <2>1. name \in [D -> RequestsOf(D)] /\ \A at \in D : name[at] = RequestOf(at)
    BY DEF RequestsOf
  <2>2. \A q \in RequestsOf(D) : \E at \in D : name[at] = q
    BY <2>1 DEF RequestsOf
  <2> HIDE DEF name
  <2>3. \A at, b \in D : name[at] = name[b] => at = b
    BY <1>1, <2>1
  <2> QED BY <2>1, <2>2, <2>3 DEF Injection, Surjection, IsInjective
<1>5. IsFiniteSet(D) /\ Count(D) = Count(RequestsOf(D))
  <2> HIDE DEF name
  <2>1. IsFiniteSet(D)
    BY <1>3, <1>4, FS_Injection
  <2>2. Cardinality(RequestsOf(D)) = Cardinality(D)
    BY <1>4, <2>1, FS_Surjection
  <2> QED BY <2>1, <2>2 DEF Count
<1>6. \A at \in D : Rec(at).tokens = 10 * RequestOf(at).id /\ RequestOf(at).id \in Nat
  <2>1. \A at \in D : at \in Answers(Fleet)
    BY DEF usage_events
  <2>2. \A at \in D : Rec(at).tokens = 10 * Rec(at).request /\ Rec(at) \in Record
    BY <2>1, AnswersAre
  <2>3. \A at \in D : RequestOf(at).id = Rec(at).request
    BY DEF RequestOf
  <2> QED BY <2>2, <2>3 DEF Record
<1>7. /\ \A at \in D : tokens[at] \in Nat /\ Rec(at).tokens \in Nat
      /\ \A at \in D : Asks10[name[at]] = tokens[at]
  BY <1>1, <1>6 DEF Asks10
<1>8. tokens \in [D -> Nat] /\ name \in [D -> AskedOf]
  BY <1>1, <1>7
<1>9. \A at, b \in D : name[at] = name[b] => at = b
  BY <1>1
<1>10. {name[at] : at \in D} = RequestsOf(D)
  BY DEF RequestsOf
<1> HIDE DEF name, tokens
<1>11. Total(tokens, D)[D] = Total(Asks10, AskedOf)[{name[at] : at \in D}]
  <2>1. IsFiniteSet(AskedOf) /\ Asks10 \in [AskedOf -> Nat]
    BY <1>2, AskedPart
  <2>2. Renames(name, tokens, Asks10, D)
    BY <1>7, <1>9 DEF Renames
  <2> QED BY <1>5, <1>8, <2>1, <2>2, TotalRenamed, SMTT(60)
<1>12. Total(tokens, D)[D] = Asked(RequestsOf(D))
  BY <1>2, <1>10, <1>11, AskedPart
<1> QED BY <1>2, <1>5, <1>7, <1>12 DEF tokens

\* What a report by key should say: of each key, and of all together.
RowsTrue(D, key) ==
  LET t == RowsOf(D, key)
      of(k) == RequestsOf({at \in D : key[at] = k})
  IN  /\ \A k : (IF k \in DOMAIN t THEN t[k] ELSE [requests |-> 0, output |-> 0])
                = [requests |-> Count(of(k)), output |-> Asked(of(k))]
      /\ TableSum(t) = Asked(RequestsOf(D))

\* The row of a key is that of the requests with the key, and the rows add up to all.
LEMMA RowsAre ==
  ASSUME LedgerInv, Metered, Whole, NEW D \in SUBSET usage_events(Fleet), NEW Keys, NEW key \in [D -> Keys]
  PROVE  RowsTrue(D, key)
<1> DEFINE K == {key[at] : at \in D}
           with(k) == {at \in D : key[at] = k}
           tokens == [at \in D |-> Rec(at).tokens]
           t == RowsOf(D, key)
           h == [k \in K |-> t[k].output]
<1>1. /\ IsFiniteSet(D) /\ \A at \in D : Rec(at).tokens \in Nat
      /\ Total([at \in D |-> Rec(at).tokens], D)[D] = Asked(RequestsOf(D))
  BY EventsCount
<1>2. \A k : /\ Total([at \in with(k) |-> Rec(at).tokens], with(k))[with(k)] = Asked(RequestsOf(with(k)))
             /\ Count(with(k)) = Count(RequestsOf(with(k)))
  <2> TAKE k
  <2>1. with(k) \in SUBSET usage_events(Fleet)
    OBVIOUS
  <2> HIDE DEF with
  <2> QED BY <2>1, EventsCount
<1>3. \A k : table(D, [at \in D |-> key[at] = k]) = Asked(RequestsOf(with(k)))
  <2> TAKE k
  <2> DEFINE here == [at \in D |-> key[at] = k]
  <2>1. {at \in D : here[at]} = with(k)
    OBVIOUS
  <2> HIDE DEF here, with
  <2>2. table(D, here) = Total([x \in {y \in D : here[y]} |-> Rec(x).tokens], {y \in D : here[y]})[{y \in D : here[y]}]
    BY <1>1, TableIs
  <2>3. table(D, here) = Asked(RequestsOf(with(k)))
    BY <1>2, <2>1, <2>2
  <2> QED BY <2>3 DEF here
<1>4. DOMAIN t = K /\ \A k \in K : t[k] = [requests |-> Count(RequestsOf(with(k))), output |-> Asked(RequestsOf(with(k)))]
  <2>1. \A k \in K : t[k] = [requests |-> Count(with(k)), output |-> table(D, [at \in D |-> key[at] = k])]
    BY DEF RowsOf
  <2>2. DOMAIN t = K
    BY DEF RowsOf
  <2> HIDE DEF t, K, with
  <2> QED BY <1>2, <1>3, <2>1, <2>2
<1>5. \A k : k \notin K => Count(RequestsOf(with(k))) = 0 /\ Asked(RequestsOf(with(k))) = 0
  <2> TAKE k
  <2> SUFFICES ASSUME k \notin K PROVE Count(RequestsOf(with(k))) = 0 /\ Asked(RequestsOf(with(k))) = 0
    OBVIOUS
  <2>1. with(k) = {}
    OBVIOUS
  <2> HIDE DEF with
  <2>2. RequestsOf(with(k)) = {}
    BY <2>1 DEF RequestsOf
  <2>3. {} \in SUBSET AskedOf
    OBVIOUS
  <2>4. IsFiniteSet(AskedOf) /\ Asks10 \in [AskedOf -> Nat] /\ Asked({}) = Total(Asks10, AskedOf)[{}]
    BY <2>3, AskedPart
  <2>5. Asked({}) = 0
    BY <2>4, TotalExists DEF IsTotal
  <2>6. Count({}) = 0
    BY FS_EmptySet DEF Count
  <2> QED BY <2>2, <2>5, <2>6
<1>6. TableSum(t) = Asked(RequestsOf(D))
  <2>1. IsFiniteSet(K)
    <3>1. key \in Surjection(D, K)
      <4>1. key \in [D -> K] /\ \A k \in K : \E at \in D : key[at] = k
        OBVIOUS
      <4> QED BY <4>1 DEF Surjection
    <3> HIDE DEF K
    <3> QED BY <1>1, <3>1, FS_Surjection
  <2>2. \A k \in K : t[k].output \in Nat
    <3>1. \A k \in K : RequestsOf(with(k)) \in SUBSET AskedOf
      <4> TAKE k \in K
      <4>1. with(k) \in SUBSET usage_events(Fleet)
        OBVIOUS
      <4> HIDE DEF with
      <4> QED BY <4>1, EventsCount
    <3>2. \A k \in K : Asked(RequestsOf(with(k))) \in Nat
      <4> HIDE DEF with, K
      <4> QED BY <3>1, AskedPart
    <3> HIDE DEF t, K, with
    <3> QED BY <1>4, <3>2
  <2>3. TableSum(t) = Total([x \in DOMAIN t |-> t[x].output], DOMAIN t)[DOMAIN t]
    <3> HIDE DEF t, K
    <3> QED BY <1>4, <2>1, <2>2, TableSumIs
  <2>4. TableSum(t) = Total(h, K)[K]
    <3> HIDE DEF t, K
    <3> QED BY <1>4, <2>3
  <2>5. \A k \in K : h[k] = Total(tokens, D)[with(k)]
    <3> TAKE k \in K
    <3>1. with(k) \in SUBSET D
      OBVIOUS
    <3>2. tokens \in [D -> Nat]
      BY <1>1
    <3>3. Total([at \in with(k) |-> tokens[at]], with(k))[with(k)] = Total(tokens, D)[with(k)]
      <4> HIDE DEF tokens, with
      <4> QED BY <1>1, <3>1, <3>2, TotalOfPart
    <3>4. [at \in with(k) |-> tokens[at]] = [at \in with(k) |-> Rec(at).tokens]
      BY <3>1
    <3>5. h[k] = Asked(RequestsOf(with(k)))
      <4>1. t[k].output = Asked(RequestsOf(with(k)))
        <5> HIDE DEF t, K, with
        <5> QED BY <1>4
      <4>2. h[k] = t[k].output
        <5> HIDE DEF t, K
        <5> QED OBVIOUS
      <4> QED BY <4>1, <4>2
    <3> HIDE DEF h, with, tokens, t
    <3> QED BY <1>2, <3>3, <3>4, <3>5
  <2>6. Total(h, K)[K] = Total(tokens, D)[D]
    <3>1. tokens \in [D -> Nat]
      BY <1>1
    <3>2. h \in [K -> Nat]
      <4> HIDE DEF t, K
      <4> QED BY <2>2
    <3>3. key \in [D -> K]
      OBVIOUS
    <3>4. Sums(h, K, tokens, D, key)
      <4> HIDE DEF h, K, tokens, t
      <4> QED BY <2>5 DEF Sums, with
    <3> HIDE DEF h, K, tokens, t
    <3> QED BY <1>1, <2>1, <3>1, <3>2, <3>3, <3>4, TotalByKey, SMTT(60)
  <2>7. Total(tokens, D)[D] = Asked(RequestsOf(D))
    BY <1>1
  <2> HIDE DEF h, t, K, tokens
  <2> QED BY <2>4, <2>6, <2>7
<1> HIDE DEF t, K, with, h
<1>7. /\ \A k \in DOMAIN t : t[k] = [requests |-> Count(RequestsOf(with(k))), output |-> Asked(RequestsOf(with(k)))]
      /\ \A k : k \notin DOMAIN t => Count(RequestsOf(with(k))) = 0 /\ Asked(RequestsOf(with(k))) = 0
  BY <1>4, <1>5
<1>8. \A k : (IF k \in DOMAIN t THEN t[k] ELSE [requests |-> 0, output |-> 0])
                = [requests |-> Count(RequestsOf(with(k))), output |-> Asked(RequestsOf(with(k)))]
  BY <1>7
<1> QED BY <1>6, <1>8, Zenon DEF t, with, RowsTrue

\* What the meter reports is what was asked.
LEMMA MeterIs ==
  ASSUME LedgerInv, Metered
  PROVE  MeterCountsRequestsOnce
<1> SUFFICES ASSUME Whole PROVE MeterCountsRequestsOnce
  BY DEF MeterCountsRequestsOnce
<1> DEFINE E == usage_events(Fleet)
           joined == {at \in E : Transcripts[at[1]].seat = Repo}
           lost == {at \in joined : charged(at, git_commits) = {}}
           charging == joined \ lost
           seat == [at \in E |-> Transcripts[at[1]].seat]
           sub == [at \in E |-> Transcripts[at[1]].sub]
           day == [at \in E |-> day_local(Rec(at).at)]
           wave == [at \in charging |-> CHOOSE i \in charged(at, git_commits) : TRUE]
           none == [at \in lost |-> "none"]
           of(S) == RequestsOf(S)
           asked == {q \in requests : Transcripts[q.file].seat \in Personal}
           Keyed(D, key) == D \in SUBSET E /\ key \in [D -> {key[at] : at \in D}]
           row(t, k) == IF k \in DOMAIN t THEN t[k] ELSE [requests |-> 0, output |-> 0]
<1>1. token_report(Fleet).byProject = RowsOf(E, seat)
  <2> DEFINE with(k) == {at \in E : Transcripts[at[1]].seat = k}
             here(k) == [at \in E |-> Transcripts[at[1]].seat = k]
             keys == {Transcripts[at[1]].seat : at \in E}
  <2>1. token_report(Fleet).byProject = [k \in keys |-> [requests |-> Count(with(k)), output |-> table(E, here(k))]]
    BY Zenon DEF token_report, rows
  <2> HIDE DEF E
  <2>2. keys = {seat[at] : at \in E}
    OBVIOUS
  <2>3. \A k : with(k) = {at \in E : seat[at] = k} /\ here(k) = [at \in E |-> seat[at] = k]
    OBVIOUS
  <2> HIDE DEF seat, with, here, keys
  <2>4. RowsOf(E, seat) = [k \in keys |-> [requests |-> Count(with(k)), output |-> table(E, here(k))]]
    BY <2>2, <2>3, Zenon DEF RowsOf
  <2> QED BY <2>1, <2>4
<1>2. token_report(Fleet).byWhere = RowsOf(E, sub)
  <2> DEFINE with(k) == {at \in E : Transcripts[at[1]].sub = k}
             here(k) == [at \in E |-> Transcripts[at[1]].sub = k]
             keys == {Transcripts[at[1]].sub : at \in E}
  <2>1. token_report(Fleet).byWhere = [k \in keys |-> [requests |-> Count(with(k)), output |-> table(E, here(k))]]
    BY Zenon DEF token_report, rows
  <2> HIDE DEF E
  <2>2. keys = {sub[at] : at \in E}
    OBVIOUS
  <2>3. \A k : with(k) = {at \in E : sub[at] = k} /\ here(k) = [at \in E |-> sub[at] = k]
    OBVIOUS
  <2> HIDE DEF sub, with, here, keys
  <2>4. RowsOf(E, sub) = [k \in keys |-> [requests |-> Count(with(k)), output |-> table(E, here(k))]]
    BY <2>2, <2>3, Zenon DEF RowsOf
  <2> QED BY <2>1, <2>4
<1>3. token_report(Fleet).byDay = RowsOf(E, day)
  <2> DEFINE with(k) == {at \in E : day_local(Rec(at).at) = k}
             here(k) == [at \in E |-> day_local(Rec(at).at) = k]
             keys == {day_local(Rec(at).at) : at \in E}
  <2>1. token_report(Fleet).byDay = [k \in keys |-> [requests |-> Count(with(k)), output |-> table(E, here(k))]]
    BY Zenon DEF token_report, rows
  <2> HIDE DEF E
  <2>2. keys = {day[at] : at \in E}
    OBVIOUS
  <2>3. \A k : with(k) = {at \in E : day[at] = k} /\ here(k) = [at \in E |-> day[at] = k]
    OBVIOUS
  <2> HIDE DEF day, with, here, keys
  <2>4. RowsOf(E, day) = [k \in keys |-> [requests |-> Count(with(k)), output |-> table(E, here(k))]]
    BY <2>2, <2>3, Zenon DEF RowsOf
  <2> QED BY <2>1, <2>4
<1>4. token_report(Fleet).byWave = RowsOf(charging, wave)
  <2> DEFINE with(k) == {at \in charging : (CHOOSE i \in charged(at, git_commits) : TRUE) = k}
             here(k) == [at \in charging |-> (CHOOSE i \in charged(at, git_commits) : TRUE) = k]
             keys == {(CHOOSE i \in charged(at, git_commits) : TRUE) : at \in charging}
  <2>1. token_report(Fleet).byWave = [k \in keys |-> [requests |-> Count(with(k)), output |-> table(charging, here(k))]]
    BY Zenon DEF token_report, rows
  <2> HIDE DEF E, joined, lost, charging
  <2>2. keys = {wave[at] : at \in charging}
    OBVIOUS
  <2>3. \A k : with(k) = {at \in charging : wave[at] = k} /\ here(k) = [at \in charging |-> wave[at] = k]
    OBVIOUS
  <2> HIDE DEF wave, with, here, keys
  <2>4. RowsOf(charging, wave) = [k \in keys |-> [requests |-> Count(with(k)), output |-> table(charging, here(k))]]
    BY <2>2, <2>3, Zenon DEF RowsOf
  <2> QED BY <2>1, <2>4
<1>5. token_report(Fleet).unattributed = RowsOf(lost, none)
  <2> DEFINE with(k) == {at \in lost : "none" = k}
             here(k) == [at \in lost |-> "none" = k]
             keys == {"none" : at \in lost}
  <2>1. token_report(Fleet).unattributed = [k \in keys |-> [requests |-> Count(with(k)), output |-> table(lost, here(k))]]
    BY Zenon DEF token_report, rows
  <2> HIDE DEF E, joined, lost, charging
  <2>2. keys = {none[at] : at \in lost}
    OBVIOUS
  <2>3. \A k : with(k) = {at \in lost : none[at] = k} /\ here(k) = [at \in lost |-> none[at] = k]
    OBVIOUS
  <2> HIDE DEF none, with, here, keys
  <2>4. RowsOf(lost, none) = [k \in keys |-> [requests |-> Count(with(k)), output |-> table(lost, here(k))]]
    BY <2>2, <2>3, Zenon DEF RowsOf
  <2> QED BY <2>1, <2>4
<1>6. /\ charging \in SUBSET E /\ lost \in SUBSET E /\ charging \cap lost = {} /\ charging \cup lost = joined
      /\ E \in SUBSET usage_events(Fleet)
  OBVIOUS
<1>7. /\ \A at \in E : RequestOf(at) \in AskedOf
      /\ \A at, b \in E : RequestOf(at) = RequestOf(b) => at = b
      /\ \A q \in AskedOf : \E at \in E : RequestOf(at) = q
      /\ asked = AskedOf
  BY EventsAre DEF AskedOf
<1>8. \A at \in E : RequestOf(at).file = at[1]
  BY DEF RequestOf
<1>9. \A D, key : Keyed(D, key) => RowsTrue(D, key)
  <2> SUFFICES ASSUME NEW D \in SUBSET usage_events(Fleet), NEW key, key \in [D -> {key[at] : at \in D}]
               PROVE  RowsTrue(D, key)
    OBVIOUS
  <2> DEFINE keys == {key[at] : at \in D}
  <2> HIDE DEF E, keys
  <2>1. key \in [D -> keys]
    BY DEF keys
  <2> QED BY <2>1, RowsAre
<1>10. \A s : of({at \in E : seat[at] = s}) = {q \in asked : Transcripts[q.file].seat = s}
  <2>1. \A at \in E : seat[at] = Transcripts[RequestOf(at).file].seat
    BY <1>8
  <2> HIDE DEF E, seat, asked
  <2> QED BY <1>7, <2>1 DEF RequestsOf
<1>11. \A b : of({at \in E : sub[at] = b}) = {q \in asked : Transcripts[q.file].sub = b}
  <2>1. \A at \in E : sub[at] = Transcripts[RequestOf(at).file].sub
    BY <1>8
  <2> HIDE DEF E, sub, asked
  <2> QED BY <1>7, <2>1 DEF RequestsOf
<1>12. of(E) = asked
  <2> HIDE DEF E, asked
  <2> QED BY <1>7 DEF RequestsOf
<1>13. /\ of(joined) = {q \in asked : Transcripts[q.file].seat = Repo}
       /\ of(joined) = of(charging) \cup of(lost) /\ of(charging) \cap of(lost) = {}
       /\ of(charging) \in SUBSET AskedOf /\ of(lost) \in SUBSET AskedOf
  <2>1. of(joined) = {q \in asked : Transcripts[q.file].seat = Repo}
    <3> HIDE DEF E, asked
    <3> QED BY <1>7, <1>8 DEF RequestsOf
  <2>2. of(joined) = of(charging) \cup of(lost) /\ of(charging) \cap of(lost) = {}
    <3> HIDE DEF E, lost, joined, charging
    <3> QED BY <1>6, <1>7 DEF RequestsOf
  <2>3. of(charging) \in SUBSET AskedOf /\ of(lost) \in SUBSET AskedOf
    <3> HIDE DEF E, lost, charging
    <3> QED BY <1>6, <1>7 DEF RequestsOf
  <2> QED BY <2>1, <2>2, <2>3
<1>14. Keyed(E, seat) /\ Keyed(E, sub) /\ Keyed(E, day) /\ Keyed(charging, wave) /\ Keyed(lost, none)
  <2>1. charging \in SUBSET E /\ lost \in SUBSET E
    BY <1>6
  <2> HIDE DEF E, charging, lost
  <2> QED BY <2>1
<1>15. Asked(of(joined)) = Asked(of(charging)) + Asked(of(lost))
  <2> HIDE DEF charging, lost, joined
  <2>1. /\ IsFiniteSet(AskedOf) /\ Asks10 \in [AskedOf -> Nat]
        /\ Asked(of(charging)) = Total(Asks10, AskedOf)[of(charging)]
        /\ Asked(of(lost)) = Total(Asks10, AskedOf)[of(lost)]
    BY <1>13, AskedPart
  <2>2. of(charging) \cup of(lost) \in SUBSET AskedOf
    BY <1>13
  <2>3. Asked(of(charging) \cup of(lost)) = Total(Asks10, AskedOf)[of(charging) \cup of(lost)]
    BY <2>2, AskedPart
  <2>4. Total(Asks10, AskedOf)[of(charging) \cup of(lost)]
          = Total(Asks10, AskedOf)[of(charging)] + Total(Asks10, AskedOf)[of(lost)]
    BY <1>13, <2>1, TotalAdds
  <2> QED BY <1>13, <2>1, <2>3, <2>4
<1> HIDE DEF Keyed, E, joined, lost, charging, seat, sub, day, wave, none, of
<1>16. \A s : row(token_report(Fleet).byProject, s)
              = [requests |-> Count({q \in asked : Transcripts[q.file].seat = s}), output |-> Asked({q \in asked : Transcripts[q.file].seat = s})]
  <2> DEFINE with(k) == {at \in E : seat[at] = k}
             whose(k) == {q \in asked : Transcripts[q.file].seat = k}
  <2>1. RowsTrue(E, seat)
    BY <1>9, <1>14, Zenon
  <2>2. \A k : row(RowsOf(E, seat), k) = [requests |-> Count(RequestsOf(with(k))), output |-> Asked(RequestsOf(with(k)))]
    BY <2>1, Zenon DEF RowsTrue
  <2>3. \A k : RequestsOf(with(k)) = whose(k)
    BY <1>10 DEF of
  <2> HIDE DEF row, with, whose
  <2>4. \A k : row(RowsOf(E, seat), k) = [requests |-> Count(whose(k)), output |-> Asked(whose(k))]
    BY <2>2, <2>3
  <2> QED BY <1>1, <2>4, Zenon DEF whose
<1>17. \A b : row(token_report(Fleet).byWhere, b)
              = [requests |-> Count({q \in asked : Transcripts[q.file].sub = b}), output |-> Asked({q \in asked : Transcripts[q.file].sub = b})]
  <2> DEFINE with(k) == {at \in E : sub[at] = k}
             whose(k) == {q \in asked : Transcripts[q.file].sub = k}
  <2>1. RowsTrue(E, sub)
    BY <1>9, <1>14, Zenon
  <2>2. \A k : row(RowsOf(E, sub), k) = [requests |-> Count(RequestsOf(with(k))), output |-> Asked(RequestsOf(with(k)))]
    BY <2>1, Zenon DEF RowsTrue
  <2>3. \A k : RequestsOf(with(k)) = whose(k)
    BY <1>11 DEF of
  <2> HIDE DEF row, with, whose
  <2>4. \A k : row(RowsOf(E, sub), k) = [requests |-> Count(whose(k)), output |-> Asked(whose(k))]
    BY <2>2, <2>3
  <2> QED BY <1>2, <2>4, Zenon DEF whose
<1>18. TableSum(token_report(Fleet).byDay) = Asked(asked)
  <2> HIDE DEF row, asked
  <2>1. RowsTrue(E, day)
    BY <1>9, <1>14, Zenon
  <2>2. TableSum(RowsOf(E, day)) = Asked(RequestsOf(E))
    BY <2>1, Zenon DEF RowsTrue
  <2> QED BY <1>3, <1>12, <2>2 DEF of
<1>19. TableSum(token_report(Fleet).byWave) + TableSum(token_report(Fleet).unattributed)
         = Asked({q \in asked : Transcripts[q.file].seat = Repo})
  <2> HIDE DEF row, asked
  <2>1. TableSum(token_report(Fleet).byWave) = Asked(of(charging))
    <3>1. RowsTrue(charging, wave)
      BY <1>9, <1>14, Zenon
    <3>2. TableSum(RowsOf(charging, wave)) = Asked(RequestsOf(charging))
      BY <3>1, Zenon DEF RowsTrue
    <3> QED BY <1>4, <3>2 DEF of
  <2>2. TableSum(token_report(Fleet).unattributed) = Asked(of(lost))
    <3>1. RowsTrue(lost, none)
      BY <1>9, <1>14, Zenon
    <3>2. TableSum(RowsOf(lost, none)) = Asked(RequestsOf(lost))
      BY <3>1, Zenon DEF RowsTrue
    <3> QED BY <1>5, <3>2 DEF of
  <2> QED BY <1>13, <1>15, <2>1, <2>2
<1> QED BY <1>16, <1>17, <1>18, <1>19, Zenon DEF MeterCountsRequestsOnce

\* While the record is whole the meter counts each request of a personal seat once.
THEOREM MeterIsExact == RecordsSpec => []MeterCountsRequestsOnce
<1>1. RecordsInit => LedgerInv /\ Metered
  BY InitAccounted, InitMetered DEF RecordsInit
<1>2. LedgerInv /\ Metered /\ [RecordsNext]_<<vars, shelf>> => (LedgerInv /\ Metered)'
  <2>1. LedgerInv /\ Metered /\ [Next]_vars => (LedgerInv /\ Metered)'
    BY LedgerKeeps, MeteredKeeps
  <2> QED BY <2>1 DEF RecordsNext
<1>3. LedgerInv /\ Metered => MeterCountsRequestsOnce
  BY MeterIs
<1> QED BY <1>1, <1>2, <1>3, PTL DEF RecordsSpec

----------------------------------------------------------------------------
(* Blocks of human time.                                                   *)

\* A number of ticks is some whole minutes and a part of one.
LEMMA DivIs ==
  ASSUME NEW m \in Nat, m > 0, NEW t \in Nat
  PROVE  /\ t \div m \in Nat /\ t % m \in 0..(m - 1) /\ t = m * (t \div m) + (t % m)
OBVIOUS

\* What starts in a later minute starts a minute later.
LEMMA TimesGrow ==
  ASSUME NEW m \in Nat, m > 0, NEW a \in Nat, NEW b \in Nat, a < b
  PROVE  m * a + m <= m * b /\ m * a \in Nat /\ m * b \in Nat
<1>1. PICK c \in Nat : b = a + 1 + c
  <2>1. b - a - 1 \in Nat /\ b = a + 1 + (b - a - 1)
    OBVIOUS
  <2> QED BY <2>1
<1>2. m * b = m * a + m + m * c
  BY <1>1
<1>3. m * c \in Nat /\ m * a \in Nat
  OBVIOUS
<1> QED BY <1>2, <1>3

\* A minute truncated is at or before the moment, and in order.
LEMMA TruncatedIs ==
  /\ \A t \in Nat : Truncated(t) \in Nat /\ Truncated(t) <= t /\ t - Truncated(t) <= Gap
  /\ \A t, u \in Nat : t <= u => Truncated(t) <= Truncated(u)
<1>0. Minute \in Nat /\ Minute > 0 /\ Gap \in Nat /\ Minute <= Gap + 1
  BY SettingsAssumption
<1>1. \A t \in Nat : t \div Minute \in Nat /\ t % Minute \in 0..(Minute - 1) /\ t = Minute * (t \div Minute) + (t % Minute)
  BY <1>0, DivIs
<1>2. \A t \in Nat : Minute * (t \div Minute) \in Nat
  BY <1>0, <1>1
<1>3. \A t \in Nat : Truncated(t) = Minute * (t \div Minute)
  <2> TAKE t \in Nat
  <2> DEFINE a == Minute * (t \div Minute)  b == t % Minute
  <2>1. t = a + b /\ a \in Nat /\ b \in Nat
    BY <1>0, <1>1, <1>2
  <2>2. Truncated(t) = t - b
    BY DEF Truncated
  <2> HIDE DEF a, b
  <2>3. t - b = a
    BY <2>1
  <2> QED BY <2>2, <2>3 DEF a
<1>4. ASSUME NEW t \in Nat PROVE Truncated(t) \in Nat /\ Truncated(t) <= t /\ t - Truncated(t) <= Gap
  <2> DEFINE a == Minute * (t \div Minute)  b == t % Minute
  <2>1. t = a + b /\ a \in Nat /\ b \in 0..(Minute - 1) /\ Truncated(t) = a
    BY <1>1, <1>2, <1>3
  <2> HIDE DEF a, b
  <2> QED BY <1>0, <2>1
<1>5. ASSUME NEW t \in Nat, NEW u \in Nat, t <= u PROVE Truncated(t) <= Truncated(u)
  <2> DEFINE p == t \div Minute  q == u \div Minute
             a == Minute * p  b == t % Minute  c == Minute * q  d == u % Minute
  <2>1. t = a + b /\ a \in Nat /\ b \in 0..(Minute - 1) /\ Truncated(t) = a /\ p \in Nat
    BY <1>1, <1>2, <1>3
  <2>2. u = c + d /\ c \in Nat /\ d \in 0..(Minute - 1) /\ Truncated(u) = c /\ q \in Nat
    BY <1>1, <1>2, <1>3
  <2> HIDE DEF p, q, b, d
  <2>3. CASE q < p
    <3>1. c + Minute <= a
      BY <1>0, <2>1, <2>2, <2>3, TimesGrow
    <3> HIDE DEF a, c
    <3> QED BY <1>0, <1>5, <2>1, <2>2, <3>1
  <2>4. CASE p < q
    <3>1. a + Minute <= c
      BY <1>0, <2>1, <2>2, <2>4, TimesGrow
    <3> HIDE DEF a, c
    <3> QED BY <1>0, <2>1, <2>2, <3>1
  <2>5. CASE p = q
    BY <2>1, <2>2, <2>5
  <2> QED BY <2>1, <2>2, <2>3, <2>4, <2>5
<1> QED BY <1>4, <1>5

\* The blocks of the times X: `blocks' reads nothing else of the touches.
Opens(X, t) == \A u \in X : u < t => t - u > Gap
Joins(X, t) == {u \in X : u >= t /\ \A v \in X : (t < v /\ v <= u) => ~Opens(X, v)}
BlocksOf(X) == {[lo |-> t, hi |-> Max(Joins(X, t))] : t \in {u \in X : Opens(X, u)}}

\* The blocks of human time are those of the moments of the touches.
LEMMA BlocksAre ==
  ASSUME NEW touches
  PROVE  blocks(touches) = BlocksOf(Times(touches))
BY Zenon DEF blocks, BlocksOf, Opens, Joins

\* A block starts and ends with a touch; it is over for longer than the gap when the
\* next starts, and each touch is in one.
LEMMA BlockIs ==
  ASSUME NEW n \in Nat, NEW X \in SUBSET (1..n)
  PROVE  /\ \A b \in BlocksOf(X) : /\ b.lo \in X /\ b.hi \in X /\ b.lo \in Nat /\ b.hi \in Nat
                                   /\ 1 <= b.lo /\ b.lo <= b.hi /\ b.hi <= n
                                   /\ b = [lo |-> b.lo, hi |-> b.hi]
         /\ \A b, c \in BlocksOf(X) : b.lo < c.lo => c.lo - b.hi > Gap
         /\ \A b, c \in BlocksOf(X) : b.lo = c.lo => b = c
         /\ \A t \in X : \E b \in BlocksOf(X) : b.lo <= t /\ t <= b.hi
<1>0. Gap \in Nat
  BY SettingsAssumption
<1>1. \A t \in X : t \in Nat /\ 1 <= t /\ t <= n
  OBVIOUS
<1>2. ASSUME NEW t \in X
      PROVE  Max(Joins(X, t)) \in Joins(X, t) /\ \A u \in Joins(X, t) : Max(Joins(X, t)) >= u
  <2>1. t \in Joins(X, t)
    BY <1>1 DEF Joins
  <2>2. Joins(X, t) \in SUBSET (1..n)
    BY DEF Joins
  <2> DEFINE J == Joins(X, t)
  <2> HIDE DEF J
  <2>3. J \in SUBSET (1..n) /\ J # {}
    BY <2>1, <2>2 DEF J
  <2>4. Latest(J, 0) \in J /\ \A u \in J : Latest(J, 0) >= u
    BY <2>3, LatestIs
  <2>5. Latest(J, 0) = Max(J)
    BY <2>3 DEF Latest
  <2> QED BY <2>4, <2>5 DEF J
<1>3. ASSUME NEW b \in BlocksOf(X)
      PROVE  /\ b.lo \in X /\ Opens(X, b.lo) /\ b.hi = Max(Joins(X, b.lo)) /\ b.hi \in Joins(X, b.lo)
             /\ b = [lo |-> b.lo, hi |-> b.hi]
  <2>1. PICK t \in X : Opens(X, t) /\ b = [lo |-> t, hi |-> Max(Joins(X, t))]
    BY DEF BlocksOf
  <2>2. b.lo = t /\ b.hi = Max(Joins(X, t))
    BY <2>1
  <2> QED BY <1>2, <2>1, <2>2
<1>4. \A b \in BlocksOf(X) : /\ b.lo \in X /\ b.hi \in X /\ b.lo \in Nat /\ b.hi \in Nat
                              /\ 1 <= b.lo /\ b.lo <= b.hi /\ b.hi <= n
                              /\ b = [lo |-> b.lo, hi |-> b.hi]
  BY <1>1, <1>3 DEF Joins
<1>5. ASSUME NEW b \in BlocksOf(X), NEW c \in BlocksOf(X), b.lo < c.lo PROVE c.lo - b.hi > Gap
  <2>1. b.hi < c.lo
    <3>1. SUFFICES ASSUME c.lo <= b.hi PROVE FALSE
      BY <1>4
    <3>2. b.hi \in Joins(X, b.lo) /\ c.lo \in X /\ Opens(X, c.lo)
      BY <1>3
    <3> QED BY <1>5, <3>1, <3>2 DEF Joins
  <2>2. Opens(X, c.lo) /\ b.hi \in X
    BY <1>3, <1>4
  <2> QED BY <2>1, <2>2 DEF Opens
<1>6. \A b, c \in BlocksOf(X) : b.lo = c.lo => b = c
  BY <1>3
<1>7. ASSUME NEW t \in X PROVE \E b \in BlocksOf(X) : b.lo <= t /\ t <= b.hi
  <2> DEFINE O == {v \in X : v <= t /\ Opens(X, v)}
  <2>1. O # {}
    <3> DEFINE m == Earliest(X, 0)
    <3>1. m \in X /\ \A y \in X : m <= y
      BY LatestIs
    <3> HIDE DEF m
    <3>2. Opens(X, m)
      BY <1>1, <3>1 DEF Opens
    <3> QED BY <3>1, <3>2
  <2>2. O \in SUBSET (1..n)
    OBVIOUS
  <2> DEFINE s == Latest(O, 0)
  <2>3. s \in O /\ \A y \in O : s >= y
    <3> HIDE DEF O
    <3> QED BY <2>1, <2>2, LatestIs
  <2> HIDE DEF s
  <2>4. s \in X /\ s <= t /\ Opens(X, s)
    BY <2>3
  <2>5. t \in Joins(X, s)
    <3>1. SUFFICES ASSUME NEW v \in X, s < v, v <= t, Opens(X, v) PROVE FALSE
      BY <1>1, <2>4 DEF Joins
    <3>2. v \in O
      BY <3>1
    <3>3. s >= v
      BY <2>3, <3>2
    <3> QED BY <1>1, <2>4, <3>1, <3>3
  <2> DEFINE b == [lo |-> s, hi |-> Max(Joins(X, s))]
  <2>6. b \in BlocksOf(X)
    BY <2>4 DEF BlocksOf
  <2>7. b.lo <= t /\ t <= b.hi
    <3>1. Max(Joins(X, s)) >= t /\ Max(Joins(X, s)) \in Joins(X, s)
      BY <1>2, <2>4, <2>5
    <3>2. Max(Joins(X, s)) \in Nat
      BY <1>1, <3>1 DEF Joins
    <3> QED BY <1>1, <2>4, <3>1, <3>2
  <2> QED BY <2>6, <2>7
<1> QED BY <1>4, <1>5, <1>6, <1>7

\* A tag whose minute is that of a touch is of one block.
LEMMA TaggedOnce ==
  ASSUME NEW n \in Nat, NEW X \in SUBSET (1..n), NEW t \in X, NEW tag, tag.id = Truncated(t)
  PROVE  \E b \in BlocksOf(X) : tagged(tag, b) /\ \A c \in BlocksOf(X) : tagged(tag, c) => c = b
<1>0. Gap \in Nat /\ t \in Nat
  BY SettingsAssumption
<1>1. PICK b \in BlocksOf(X) : b.lo <= t /\ t <= b.hi
  BY BlockIs
<1>2. \A c \in BlocksOf(X) : c.lo \in Nat /\ c.hi \in Nat /\ Truncated(c.lo) \in Nat /\ c.lo - Truncated(c.lo) <= Gap
  BY BlockIs, TruncatedIs
<1>3. Truncated(t) \in Nat /\ Truncated(t) <= t /\ Truncated(b.lo) <= Truncated(t)
  BY <1>0, <1>1, <1>2, TruncatedIs
<1>4. tagged(tag, b)
  BY <1>0, <1>1, <1>2, <1>3 DEF tagged
<1>5. ASSUME NEW c \in BlocksOf(X), NEW d \in BlocksOf(X), c.lo < d.lo, tagged(tag, c), tagged(tag, d) PROVE FALSE
  <2>1. d.lo - c.hi > Gap
    BY <1>5, BlockIs
  <2>2. Truncated(d.lo) <= tag.id /\ tag.id <= c.hi /\ tag.id \in Nat
    BY <1>3, <1>5 DEF tagged
  <2> QED BY <1>0, <1>2, <2>1, <2>2
<1>6. ASSUME NEW c \in BlocksOf(X), tagged(tag, c) PROVE c = b
  <2>1. c.lo = b.lo
    BY <1>2, <1>4, <1>5, <1>6
  <2> QED BY <2>1, BlockIs
<1> QED BY <1>4, <1>6

\* The time of a set of blocks.
TimeOf(S) == MapThenSumSet(dur, S)

\* It is the sum of their lengths, each with the floor.
LEMMA TimeIs ==
  ASSUME NEW S0, IsFiniteSet(S0), \A b \in S0 : dur(b) \in Nat
  PROVE  TimeOf(S0) = Total([x \in S0 |-> dur(x)], S0)[S0]
<1> DEFINE D == S0
           f == [x \in D |-> dur(x)]
           any(S) == CHOOSE x \in S : TRUE
           P(g) == g = [S \in SUBSET D |-> IF S = {} THEN 0 ELSE dur(any(S)) + g[S \ {any(S)}]]
           it == CHOOSE g : P(g)
           T == Total(f, D)
<1> SUFFICES it[D] = T[D]
  BY DEF TimeOf, MapThenSumSet, MapThenFoldSet
<1>1. IsFiniteSet(D) /\ f \in [D -> Nat]
  OBVIOUS
<1>2. IsTotal(T, f, D)
  <2> HIDE DEF f, D
  <2> QED BY <1>1, TotalExists
<1>3. \A S \in SUBSET D : S # {} => any(S) \in S /\ f[any(S)] = dur(any(S))
  <2> HIDE DEF D
  <2> QED OBVIOUS
<1> HIDE DEF any, f, D
<1>4. P(T)
  <2>1. T = [S \in SUBSET D |-> T[S]]
    BY <1>2 DEF IsTotal
  <2>2. ASSUME NEW S \in SUBSET D
        PROVE  T[S] = IF S = {} THEN 0 ELSE dur(any(S)) + T[S \ {any(S)}]
    BY <1>2, <1>3 DEF IsTotal
  <2> HIDE DEF T
  <2> QED BY <2>1, <2>2
<1> HIDE DEF T
<1>5. P(it)
  <2> HIDE DEF P
  <2> QED BY <1>4
<1> HIDE DEF it
<1>6. it[{}] = 0
  BY <1>5
<1>7. \A S \in SUBSET D : S # {} => \E x \in S : it[S] = f[x] + it[S \ {x}]
  <2> SUFFICES ASSUME NEW S \in SUBSET D, S # {}
               PROVE  any(S) \in S /\ it[S] = f[any(S)] + it[S \ {any(S)}]
    OBVIOUS
  <2> QED BY <1>3, <1>5
<1> HIDE DEF P
<1>8. Recounts(it, f, D)
  BY <1>6, <1>7 DEF Recounts
<1> QED BY <1>1, <1>2, <1>8, TotalsAgree, Zenon

\* No more than the time that passed, and the floor of the last block.
LEMMA TimePasses ==
  ASSUME NEW n \in Nat, n >= 1, NEW X \in SUBSET (1..n)
  PROVE  /\ \A S \in SUBSET BlocksOf(X) : TimeOf(S) \in Nat /\ TimeOf(S) <= TimeOf(BlocksOf(X))
         /\ TimeOf(BlocksOf(X)) <= n - 1 + Floor
<1> DEFINE B == BlocksOf(X)
           f == [b \in B |-> dur(b)]
           T == Total(f, B)
           below(b) == {c \in B : c.lo < b.lo}
<1>0. Gap \in Nat /\ Floor \in Nat /\ Floor <= Gap + 1
  BY SettingsAssumption
<1>1. \A b \in B : /\ b.lo \in Nat /\ b.hi \in Nat /\ 1 <= b.lo /\ b.lo <= b.hi /\ b.hi <= n
  BY BlockIs
<1>2. \A b, c \in B : (b.lo < c.lo => c.lo - b.hi > Gap) /\ (b.lo = c.lo => b = c)
  BY BlockIs
<1> HIDE DEF B
<1>3. \A b \in B : dur(b) \in Nat /\ (dur(b) = b.hi - b.lo \/ dur(b) = Floor)
  <2> TAKE b \in B
  <2> DEFINE d == b.hi - b.lo
  <2>1. d \in Nat
    BY <1>1
  <2> HIDE DEF d
  <2>2. Max({d, Floor}) \in {d, Floor}
    <3>1. \E x \in {d, Floor} : \A y \in {d, Floor} : x >= y
      BY <1>0, <2>1
    <3> QED BY <3>1 DEF Max
  <2>3. dur(b) = Max({d, Floor})
    BY DEF dur, d
  <2>4. dur(b) = d \/ dur(b) = Floor
    BY <2>2, <2>3
  <2> QED BY <1>0, <2>1, <2>4 DEF d
<1>4. IsFiniteSet(B)
  <2> DEFINE lo == [b \in B |-> b.lo]
  <2>1. lo \in [B -> 1..n] /\ \A b, c \in B : lo[b] = lo[c] => b = c
    BY <1>1, <1>2
  <2> HIDE DEF lo
  <2>2. lo \in Injection(B, 1..n)
    BY <2>1 DEF Injection, IsInjective
  <2>3. IsFiniteSet(1..n)
    BY FS_Interval
  <2> QED BY <2>2, <2>3, FS_Injection
<1>5. f \in [B -> Nat] /\ \A b \in B : f[b] = dur(b)
  BY <1>3
<1> HIDE DEF f
<1>6. IsTotal(T, f, B) /\ \A S \in SUBSET B : T[S] \in Nat
  <2>1. IsTotal(T, f, B)
    BY <1>4, <1>5, TotalExists
  <2> QED BY <2>1 DEF IsTotal
<1>7. \A S \in SUBSET B : TimeOf(S) = T[S]
  <2> TAKE S \in SUBSET B
  <2>1. IsFiniteSet(S) /\ \A b \in S : dur(b) \in Nat
    BY <1>3, <1>4, FS_Subset
  <2>2. TimeOf(S) = Total([x \in S |-> dur(x)], S)[S]
    BY <2>1, TimeIs
  <2>3. [x \in S |-> dur(x)] = [x \in S |-> f[x]]
    BY <1>5
  <2>4. Total([x \in S |-> f[x]], S)[S] = T[S]
    BY <1>4, <1>5, TotalOfPart
  <2> HIDE DEF T
  <2> QED BY <2>2, <2>3, <2>4
<1>8. \A S \in SUBSET B : T[S] <= T[B]
  <2>1. B \in SUBSET B
    OBVIOUS
  <2> QED BY <1>4, <1>5, <2>1, TotalGrows
<1>9. \A S, R \in SUBSET B : S \cap R = {} => T[S \cup R] = T[S] + T[R]
  <2>1. f \in [B -> Nat]
    BY <1>5
  <2> TAKE S \in SUBSET B, R \in SUBSET B
  <2> HAVE S \cap R = {}
  <2> QED BY <1>4, <2>1, TotalAdds
<1>10. T[{}] = 0 /\ \A c \in B : T[{c}] = dur(c)
  <2>1. T[{}] = 0
    BY <1>6 DEF IsTotal
  <2>2. ASSUME NEW c \in B PROVE T[{c}] = dur(c)
    <3>1. {c} \in SUBSET B /\ c \in {c} /\ {c} \ {c} = {}
      OBVIOUS
    <3>2. T[{c}] = f[c] + T[{c} \ {c}]
      BY <1>6, <3>1 DEF IsTotal
    <3> HIDE DEF T
    <3>3. f[c] = dur(c) /\ dur(c) \in Nat
      BY <1>3, <1>5
    <3>4. T[{c} \ {c}] = 0
      BY <2>1, <3>1
    <3> QED BY <3>2, <3>3, <3>4
  <2> QED BY <2>1, <2>2
<1> HIDE DEF T
<1>11. ASSUME NEW S \in SUBSET B, S # {}
       PROVE  \E c \in S : \A d \in S : d.lo <= c.lo
  <2> DEFINE L == {c.lo : c \in S}
  <2>1. L \in SUBSET (1..n) /\ L # {}
    BY <1>1, <1>11
  <2> HIDE DEF L
  <2>2. Latest(L, 0) \in L /\ \A y \in L : Latest(L, 0) >= y
    BY <2>1, LatestIs
  <2>3. PICK c \in S : c.lo = Latest(L, 0)
    BY <2>2 DEF L
  <2>4. \A d \in S : d.lo \in L
    BY DEF L
  <2>5. \A d \in S : d.lo <= c.lo
    <3> TAKE d \in S
    <3>1. c.lo >= d.lo /\ c.lo \in Nat /\ d.lo \in Nat
      BY <1>1, <2>2, <2>3, <2>4
    <3> QED BY <3>1
  <2> QED BY <2>5
\* Up to the last of the blocks S that come before the rest.
<1>12. ASSUME NEW S \in SUBSET B, NEW c \in S, \A d \in S : d.lo <= c.lo, \A d \in B : d.lo < c.lo => d \in S
       PROVE  T[S] = T[below(c)] + dur(c) /\ T[below(c)] \in Nat
  <2>1. S = below(c) \cup {c} /\ below(c) \cap {c} = {} /\ below(c) \in SUBSET B /\ {c} \in SUBSET B
    BY <1>1, <1>2, <1>12
  <2> HIDE DEF below
  <2>2. T[below(c) \cup {c}] = T[below(c)] + T[{c}]
    BY <1>9, <2>1
  <2> QED BY <1>6, <1>10, <2>1, <2>2
<1>13. ASSUME NEW b \in B PROVE T[below(b)] <= b.lo - 1
  <2> DEFINE Bad == {k \in Nat : \E c \in B : c.lo = k /\ ~(T[below(c)] <= c.lo - 1)}
  <2> SUFFICES ASSUME Bad # {} PROVE FALSE
    BY <1>1
  <2>1. Bad \in SUBSET Nat
    OBVIOUS
  <2>2. PICK k \in Bad : \A j \in Bad : k <= j
    <3> HIDE DEF Bad
    <3> QED BY <2>1, LeastOf
  <2>3. PICK e \in B : e.lo = k /\ ~(T[below(e)] <= e.lo - 1)
    BY <2>2
  <2>4. below(e) \in SUBSET B
    OBVIOUS
  <2>5. below(e) # {}
    <3>1. SUFFICES ASSUME below(e) = {} PROVE FALSE
      OBVIOUS
    <3>2. T[below(e)] = 0
      BY <1>10, <3>1
    <3> HIDE DEF below
    <3> QED BY <1>1, <2>3, <3>2
  <2>6. PICK c \in below(e) : \A d \in below(e) : d.lo <= c.lo
    <3> HIDE DEF below
    <3> QED BY <1>11, <2>4, <2>5
  <2>7. c \in B /\ c.lo < e.lo /\ \A d \in B : d.lo < c.lo => d \in below(e)
    BY <1>1, <2>6
  <2>8. T[below(e)] = T[below(c)] + dur(c) /\ T[below(c)] \in Nat
    <3> HIDE DEF below
    <3> QED BY <1>12, <2>4, <2>6, <2>7
  <2>9. T[below(c)] <= c.lo - 1
    <3>1. SUFFICES ASSUME ~(T[below(c)] <= c.lo - 1) PROVE FALSE
      OBVIOUS
    <3>2. c.lo \in Bad
      BY <1>1, <2>7, <3>1
    <3>3. k <= c.lo
      <4> HIDE DEF Bad
      <4> QED BY <2>2, <3>2
    <3> QED BY <1>1, <2>3, <2>7, <3>3
  <2>10. e.lo - c.hi > Gap
    BY <1>2, <2>7
  <2> HIDE DEF below
  <2>11. /\ c.lo \in Nat /\ c.hi \in Nat /\ e.lo \in Nat /\ c.lo <= c.hi /\ dur(c) \in Nat
         /\ dur(c) = c.hi - c.lo \/ dur(c) = Floor
    BY <1>1, <1>3, <2>7
  <2> QED BY <1>0, <2>3, <2>8, <2>9, <2>10, <2>11
<1>14. T[B] <= n - 1 + Floor
  <2>1. CASE B = {}
    BY <1>0, <1>10, <2>1
  <2>2. CASE B # {}
    <3>0. B \in SUBSET B
      OBVIOUS
    <3>1. PICK c \in B : \A d \in B : d.lo <= c.lo
      BY <1>11, <2>2, <3>0
    <3>2. T[B] = T[below(c)] + dur(c) /\ T[below(c)] \in Nat
      <4> HIDE DEF below
      <4> QED BY <1>12, <3>0, <3>1
    <3>3. T[below(c)] <= c.lo - 1
      BY <1>13
    <3> HIDE DEF below
    <3>4. /\ c.lo \in Nat /\ c.hi \in Nat /\ c.lo <= c.hi /\ c.hi <= n /\ dur(c) \in Nat
          /\ dur(c) = c.hi - c.lo \/ dur(c) = Floor
      BY <1>1, <1>3
    <3> QED BY <1>0, <3>2, <3>3, <3>4
  <2> QED BY <2>1, <2>2
<1>15. \A S \in SUBSET B : TimeOf(S) \in Nat /\ TimeOf(S) <= TimeOf(B)
  BY <1>6, <1>7, <1>8
<1>16. TimeOf(B) <= n - 1 + Floor
  BY <1>7, <1>14
<1> QED BY <1>15, <1>16 DEF B

----------------------------------------------------------------------------
(* The human time.                                                         *)

\* The texts that are with a seat, not on their way to it.
Arrived == typed \ wire
\* A human's record, or one of the queue, is in the seat's own transcript, of a text it had.
Traced(had, f, r) ==
  r.type = "enqueue" \/ Human(r) =>
    /\ f = Main(Transcripts[f].seat)
    /\ r.type = "enqueue" => r.text # "none"
    /\ r.text # "none" => <<Transcripts[f].seat, r.text>> \in had
Waits(had, qs) == \A s \in Seats : \A i \in DOMAIN qs[s] : qs[s][i].text \in Sayings /\ <<s, qs[s][i].text>> \in had
\* When no text is typed twice into a seat, none reaches it twice.
Once ==
  menu.distinct =>
    /\ wire \subseteq typed /\ Waits(Arrived, queued)
    /\ \A f \in DOMAIN Transcripts : \A r \in ToSet(files[f]) : Traced(Arrived, f, r)

\* Nothing was typed at the start.
LEMMA InitOnce == Init => Once
<1> SUFFICES ASSUME Init PROVE Once
  OBVIOUS
<1>1. wire = {} /\ \A s \in Seats : queued[s] = <<>>
  BY DEF Init
<1>2. \A f \in DOMAIN Transcripts : ToSet(files[f]) = {}
  BY DEF Init, ToSet
<1> QED BY <1>1, <1>2 DEF Once, Waits

\* What a seat had it has.
LEMMA HadKeeps ==
  ASSUME LedgerInv, menu.distinct, Once, [Next]_vars
  PROVE  wire' \subseteq typed' /\ Arrived \subseteq Arrived'
<1> DEFINE Goal == wire' \subseteq typed' /\ Arrived \subseteq Arrived'
<1>0. wire \subseteq typed
  BY DEF Once
<1>1. ASSUME UNCHANGED <<wire, typed>> PROVE Goal
  BY <1>0, <1>1 DEF Arrived
<1>2. CASE Idles
  BY <1>1, <1>2, Zenon DEF Idles
<1>3. CASE WritesPlain
  BY <1>1, <1>3, Zenon DEF WritesPlain
<1>4. CASE Touches
  BY <1>1, <1>4, Zenon DEF Touches
<1>5. CASE Dequeues
  BY <1>1, <1>5, Zenon DEF Dequeues
<1>6. CASE Types
  <2>1. PICK s \in Seats, text \in Sayings : typed' = typed \cup {<<s, text>>} /\ wire' = wire
    BY <1>6, Zenon DEF Types
  <2> QED BY <1>0, <2>1 DEF Arrived
<1>7. CASE Sends
  <2>1. PICK s \in Seats, text \in Sayings :
          Fresh(s, text) /\ wire' = wire \cup {<<s, text>>} /\ typed' = typed \cup {<<s, text>>}
    BY <1>7, Zenon DEF Sends
  <2>2. <<s, text>> \notin typed
    BY <2>1 DEF Fresh
  <2> QED BY <1>0, <2>1, <2>2 DEF Arrived
<1>8. CASE Delivers
  <2>1. PICK s \in Seats, text \in Sayings : wire' = wire \ {<<s, text>>} /\ typed' = typed
    BY <1>8, Zenon DEF Delivers
  <2> QED BY <1>0, <2>1 DEF Arrived
<1> QED BY <1>2, <1>3, <1>4, <1>5, <1>6, <1>7, <1>8, MovesAre

\* A record that was traced is.
LEMMA StillTraced ==
  ASSUME LedgerInv, menu.distinct, Once, [Next]_vars, NEW f \in DOMAIN Transcripts, NEW r, Traced(Arrived, f, r)
  PROVE  Traced(Arrived', f, r)
<1>1. Arrived \subseteq Arrived'
  BY HadKeeps
<1> QED BY <1>1 DEF Traced

\* A step that writes such a record.
LEMMA OnceWith ==
  ASSUME LedgerInv, menu.distinct, Once, [Next]_vars, Waits(Arrived', queued'),
         NEW f \in DOMAIN Transcripts, NEW rec \in Record, Write(f, rec), Traced(Arrived', f, rec)
  PROVE  Once'
<1>1. wire' \subseteq typed'
  BY HadKeeps
<1>2. ASSUME NEW g \in DOMAIN Transcripts, NEW r \in ToSet(files'[g]) PROVE Traced(Arrived', g, r)
  <2>1. r \in ToSet(files[g]) \/ (g = f /\ r = rec)
    <3>1. CASE ~recording
      BY <3>1 DEF Write
    <3>2. CASE recording
      <4>1. files' = [files EXCEPT ![f] = Append(files[f], rec)]
        BY <3>2 DEF Write
      <4>2. ToSet(files'[g]) = ToSet(files[g]) \cup (IF g = f THEN {rec} ELSE {})
        BY <4>1, AddedIs
      <4> QED BY <4>2
    <3> QED BY <3>1, <3>2
  <2>2. CASE r \in ToSet(files[g])
    <3>1. Traced(Arrived, g, r)
      BY <2>2 DEF Once
    <3> QED BY <3>1, StillTraced
  <2>3. CASE g = f /\ r = rec
    BY <2>3
  <2> QED BY <2>1, <2>2, <2>3
<1> QED BY <1>1, <1>2 DEF Once

\* The queues are what they were.
LEMMA StillWaits ==
  ASSUME LedgerInv, menu.distinct, Once, [Next]_vars, queued' = queued
  PROVE  Waits(Arrived', queued')
<1>1. \A s \in Seats : \A i \in DOMAIN queued[s] : queued[s][i].text \in Sayings /\ <<s, queued[s][i].text>> \in Arrived
  BY DEF Once, Waits
<1>2. \A s \in Seats : \A i \in DOMAIN queued[s] : queued[s][i].text \in Sayings /\ <<s, queued[s][i].text>> \in Arrived'
  BY <1>1, HadKeeps
<1> QED BY <1>2 DEF Waits

\* A text reaches a seat.
LEMMA ReachOnce ==
  ASSUME LedgerInv, menu.distinct, Once, [Next]_vars, NEW s \in Seats, NEW text \in Sayings, NEW machine \in BOOLEAN,
         Reach(s, text, machine), <<s, text>> \in Arrived'
  PROVE  Once'
<1>1. Main(s) \in DOMAIN Transcripts /\ Transcripts[Main(s)].seat = s /\ text \in Texts /\ text # "none"
  BY MainIs DEF Sayings
<1>2. CASE s \in busy
  <2> DEFINE rec == [Blank EXCEPT !.type = "enqueue", !.text = text]
             item == [text |-> text, at |-> clock, machine |-> machine]
  <2>1. Write(Main(s), rec) /\ queued' = [queued EXCEPT ![s] = Append(queued[s], item)]
    BY <1>2 DEF Reach
  <2>2. rec \in Record /\ rec.text = text
    BY <1>1, BlankIs DEF Record
  <2>3. item \in Item /\ item.text = text
    BY <1>1, MenuIs DEF Item
  <2> HIDE DEF rec, item
  <2>4. Traced(Arrived', Main(s), rec)
    BY <1>1, <2>2 DEF Traced
  <2>5. Waits(Arrived', queued')
    <3> DEFINE new == Append(queued[s], item)
    <3>1. queued \in [Seats -> Seq(Item)]
      BY DEF LedgerInv, Queues
    <3>2. /\ DOMAIN new = DOMAIN queued[s] \cup {Len(queued[s]) + 1}
          /\ \A i \in DOMAIN queued[s] : new[i] = queued[s][i]
          /\ new[Len(queued[s]) + 1] = item
      BY <2>3, <3>1, Appended
    <3> HIDE DEF new
    <3>3. \A t \in Seats : queued'[t] = IF t = s THEN new ELSE queued[t]
      BY <2>1, <3>1 DEF new
    <3>4. \A t \in Seats : \A i \in DOMAIN queued[t] : queued[t][i].text \in Sayings /\ <<t, queued[t][i].text>> \in Arrived'
      BY HadKeeps DEF Once, Waits
    <3>5. \A i \in DOMAIN new : new[i].text \in Sayings /\ <<s, new[i].text>> \in Arrived'
      BY <2>3, <3>2, <3>4
    <3> QED BY <3>3, <3>4, <3>5 DEF Waits
  <2> QED BY <1>1, <2>1, <2>2, <2>4, <2>5, OnceWith
<1>3. CASE s \notin busy
  <2> DEFINE rec == HumanRecord("typed", text)
  <2>1. Write(Main(s), rec) /\ queued' = queued
    BY <1>3 DEF Reach
  <2>2. rec \in Record /\ rec.text = text /\ rec.type = "user"
    BY <1>1, TypedPasses
  <2> HIDE DEF rec
  <2>3. Traced(Arrived', Main(s), rec)
    BY <1>1, <2>2 DEF Traced
  <2>4. Waits(Arrived', queued')
    BY <2>1, StillWaits
  <2> QED BY <1>1, <2>1, <2>2, <2>3, <2>4, OnceWith
<1> QED BY <1>2, <1>3

\* Every step keeps it.
LEMMA OnceKeeps ==
  ASSUME LedgerInv, Once, [Next]_vars
  PROVE  Once'
<1>0. SUFFICES ASSUME menu.distinct PROVE Once'
  <2>1. menu' = menu
    BY MovesAre
  <2> QED BY <2>1 DEF Once
<1>1. CASE Idles
  <2>1. files' = files /\ queued' = queued
    BY <1>1, Zenon DEF Idles
  <2>2. wire' \subseteq typed' /\ Waits(Arrived', queued')
    BY <1>0, <2>1, HadKeeps, StillWaits
  <2>3. \A f \in DOMAIN Transcripts : \A r \in ToSet(files[f]) : Traced(Arrived', f, r)
    BY <1>0, StillTraced DEF Once
  <2> QED BY <2>1, <2>2, <2>3 DEF Once
<1>2. ASSUME NEW f \in DOMAIN Transcripts, NEW rec \in Record, Mechanical(rec), Write(f, rec), queued' = queued PROVE Once'
  <2>1. Traced(Arrived', f, rec)
    BY <1>2 DEF Traced, Mechanical
  <2>2. Waits(Arrived', queued')
    BY <1>0, <1>2, StillWaits
  <2> QED BY <1>0, <1>2, <2>1, <2>2, OnceWith
<1>3. CASE WritesPlain
  BY <1>2, <1>3, Zenon DEF WritesPlain
<1>4. CASE Sends
  BY <1>2, <1>4, Zenon DEF Sends
<1>5. CASE Touches
  <2>1. PICK s \in Seats, rec \in Record : rec.text = "none" /\ rec.type = "user" /\ Write(Main(s), rec) /\ queued' = queued
    BY <1>5, Zenon DEF Touches
  <2>2. Main(s) \in DOMAIN Transcripts /\ Transcripts[Main(s)].seat = s
    BY MainIs
  <2>3. Traced(Arrived', Main(s), rec)
    BY <2>1, <2>2 DEF Traced
  <2>4. Waits(Arrived', queued')
    BY <1>0, <2>1, StillWaits
  <2> QED BY <1>0, <2>1, <2>2, <2>3, <2>4, OnceWith
<1>6. CASE Types
  <2>1. PICK s \in Seats, text \in Sayings :
          Fresh(s, text) /\ Reach(s, text, FALSE) /\ typed' = typed \cup {<<s, text>>} /\ wire' = wire
    BY <1>6, Zenon DEF Types
  <2>2. <<s, text>> \in Arrived'
    BY <1>0, <2>1 DEF Fresh, Arrived, Once
  <2> QED BY <1>0, <2>1, <2>2, ReachOnce
<1>7. CASE Delivers
  <2>1. PICK s \in Seats, text \in Sayings :
          <<s, text>> \in wire /\ wire' = wire \ {<<s, text>>} /\ Reach(s, text, TRUE) /\ typed' = typed
    BY <1>7, Zenon DEF Delivers
  <2>2. <<s, text>> \in Arrived'
    BY <1>0, <2>1 DEF Arrived, Once
  <2> QED BY <1>0, <2>1, <2>2, ReachOnce
<1>8. CASE Dequeues
  <2>1. PICK s \in Seats : Dequeue(s)
    BY <1>8 DEF Dequeues
  <2> DEFINE item == Head(queued[s])
             rec == HumanRecord("typed", item.text)
  <2>2. /\ queued[s] # <<>> /\ Write(Main(s), rec) /\ queued' = [queued EXCEPT ![s] = Tail(queued[s])]
    BY <2>1, Zenon DEF Dequeue
  <2>3. queued \in [Seats -> Seq(Item)]
    BY DEF LedgerInv, Queues
  <2>4. /\ item = queued[s][1] /\ 1 \in DOMAIN queued[s]
        /\ \A i \in DOMAIN Tail(queued[s]) : i + 1 \in DOMAIN queued[s] /\ Tail(queued[s])[i] = queued[s][i + 1]
    BY <2>2, <2>3, Split
  <2>5. \A t \in Seats : \A i \in DOMAIN queued[t] : queued[t][i].text \in Sayings /\ <<t, queued[t][i].text>> \in Arrived'
    BY <1>0, HadKeeps DEF Once, Waits
  <2>6. item.text \in Sayings /\ item.text \in Texts /\ item.text # "none" /\ <<s, item.text>> \in Arrived'
    BY <2>4, <2>5 DEF Sayings
  <2>7. rec \in Record /\ rec.text = item.text /\ rec.type = "user"
    BY <2>6, TypedPasses
  <2>8. Main(s) \in DOMAIN Transcripts /\ Transcripts[Main(s)].seat = s
    BY MainIs
  <2> HIDE DEF rec, item
  <2>9. Traced(Arrived', Main(s), rec)
    BY <2>6, <2>7, <2>8 DEF Traced
  <2>10. Waits(Arrived', queued')
    <3>1. \A t \in Seats : queued'[t] = IF t = s THEN Tail(queued[s]) ELSE queued[t]
      BY <2>2, <2>3
    <3>2. \A i \in DOMAIN Tail(queued[s]) : Tail(queued[s])[i].text \in Sayings /\ <<s, Tail(queued[s])[i].text>> \in Arrived'
      BY <2>4, <2>5
    <3> QED BY <2>5, <3>1, <3>2 DEF Waits
  <2> QED BY <1>0, <2>2, <2>7, <2>8, <2>9, <2>10, OnceWith
<1> QED BY <1>1, <1>3, <1>4, <1>5, <1>6, <1>7, <1>8, MovesAre

\* What a record written to a transcript adds.
LEMMA WriteAdds ==
  ASSUME LedgerInv, NEW f \in DOMAIN Transcripts, NEW rec \in Record, Write(f, rec), NEW g \in DOMAIN Transcripts
  PROVE  ToSet(files'[g]) \subseteq ToSet(files[g]) \cup (IF g = f THEN {rec} ELSE {})
<1>1. CASE ~recording
  BY <1>1 DEF Write
<1>2. CASE recording
  <2>1. files' = [files EXCEPT ![f] = Append(files[f], rec)]
    BY <1>2 DEF Write
  <2> QED BY <2>1, AddedIs
<1> QED BY <1>1, <1>2

\* A text that enters the queue had not arrived.
LEMMA QueuedIsNew ==
  ASSUME LedgerInv, menu.distinct, Once, [Next]_vars, NEW f \in DOMAIN Transcripts,
         NEW r \in ToSet(files'[f]), r \notin ToSet(files[f]), r.type = "enqueue"
  PROVE  r.text # "none" /\ <<Transcripts[f].seat, r.text>> \notin Arrived
<1> DEFINE Goal == r.text # "none" /\ <<Transcripts[f].seat, r.text>> \notin Arrived
<1>1. ASSUME NEW g \in DOMAIN Transcripts, NEW rec \in Record, Write(g, rec) PROVE f = g /\ r = rec
  <2>1. ToSet(files'[f]) \subseteq ToSet(files[f]) \cup (IF f = g THEN {rec} ELSE {})
    BY <1>1, WriteAdds
  <2> QED BY <2>1
<1>2. ASSUME NEW g \in DOMAIN Transcripts, NEW rec \in Record, Write(g, rec), rec.type # "enqueue" PROVE FALSE
  BY <1>1, <1>2
<1>3. ~Idles
  BY Zenon DEF Idles
<1>4. ~WritesPlain /\ ~Sends
  <2>1. ~\E g \in DOMAIN Transcripts, rec \in Record : Mechanical(rec) /\ Write(g, rec)
    BY <1>2 DEF Mechanical
  <2> QED BY <2>1, Zenon DEF WritesPlain, Sends
<1>5. ~Touches
  <2>1. ~\E s \in Seats, rec \in Record : rec.type = "user" /\ Write(Main(s), rec)
    BY <1>2, MainIs
  <2> QED BY <2>1, Zenon DEF Touches
<1>6. ASSUME NEW s \in Seats, NEW text \in Sayings, Reach(s, text, FALSE) \/ Reach(s, text, TRUE), <<s, text>> \notin Arrived
      PROVE  Goal
  <2>1. text \in Texts /\ text # "none" /\ Main(s) \in DOMAIN Transcripts /\ Transcripts[Main(s)].seat = s
    BY MainIs DEF Sayings
  <2>2. CASE s \in busy
    <3> DEFINE rec == [Blank EXCEPT !.type = "enqueue", !.text = text]
    <3>1. Write(Main(s), rec)
      BY <1>6, <2>2, Zenon DEF Reach
    <3>2. rec \in Record /\ rec.text = text
      BY <2>1, BlankIs DEF Record
    <3> HIDE DEF rec
    <3>3. f = Main(s) /\ r = rec
      BY <1>1, <2>1, <3>1, <3>2
    <3> QED BY <1>6, <2>1, <3>2, <3>3
  <2>3. CASE s \notin busy
    <3> DEFINE rec == HumanRecord("typed", text)
    <3>1. Write(Main(s), rec)
      BY <1>6, <2>3, Zenon DEF Reach
    <3>2. rec \in Record /\ rec.type = "user"
      BY <2>1, TypedPasses
    <3> HIDE DEF rec
    <3> QED BY <1>2, <2>1, <3>1, <3>2
  <2> QED BY <2>2, <2>3
<1> HIDE DEF Goal
<1>7. ASSUME Types PROVE Goal
  <2>1. PICK s \in Seats, text \in Sayings : Fresh(s, text) /\ Reach(s, text, FALSE)
    BY <1>7, Zenon DEF Types
  <2>2. <<s, text>> \notin Arrived
    BY <2>1 DEF Fresh, Arrived
  <2> QED BY <1>6, <2>1, <2>2
<1>8. ASSUME Delivers PROVE Goal
  <2>1. PICK s \in Seats, text \in Sayings : <<s, text>> \in wire /\ Reach(s, text, TRUE)
    BY <1>8, Zenon DEF Delivers
  <2>2. <<s, text>> \notin Arrived
    BY <2>1 DEF Arrived
  <2> QED BY <1>6, <2>1, <2>2
<1>9. ASSUME Dequeues PROVE Goal
  <2>1. PICK s \in Seats : Dequeue(s)
    BY <1>9 DEF Dequeues
  <2> DEFINE item == Head(queued[s])
             rec == HumanRecord("typed", item.text)
  <2>2. queued[s] # <<>> /\ Write(Main(s), rec)
    BY <2>1, Zenon DEF Dequeue
  <2>3. queued \in [Seats -> Seq(Item)]
    BY DEF LedgerInv, Queues
  <2>4. item \in Item
    BY <2>2, <2>3, Split
  <2>5. item.text \in Texts
    BY <2>4 DEF Item
  <2>6. rec \in Record /\ rec.type = "user"
    BY <2>5, TypedPasses
  <2> HIDE DEF rec, item
  <2> QED BY <1>2, <2>2, <2>6, MainIs
<1> QED BY <1>3, <1>4, <1>5, <1>7, <1>8, <1>9, MovesAre DEF Goal

\* The moment of a record of the moment `at', of which the moments E are queued.
WhenOf(E, at) ==
  LET far(t) == IF t > at THEN t - at ELSE at - t
      best == CHOOSE t \in E : \A u \in E : far(t) < far(u) \/ (far(t) = far(u) /\ t <= u)
  IN  IF E # {} /\ best < at /\ at - best < MaxShift THEN best ELSE at

\* It is what touch_when says.
LEMMA TouchWhenIs ==
  ASSUME NEW f, NEW r
  PROVE  touch_when(f, r) = WhenOf(enqueues(f, r.text), r.at)
BY Zenon DEF touch_when, WhenOf

\* It is that moment, or one of those queued before it.
LEMMA WhenIs ==
  ASSUME NEW E \in SUBSET Nat, NEW at \in Nat
  PROVE  WhenOf(E, at) = at \/ (WhenOf(E, at) \in E /\ WhenOf(E, at) < at /\ at - WhenOf(E, at) < MaxShift)
<1> DEFINE far(t) == IF t > at THEN t - at ELSE at - t
           best == CHOOSE t \in E : \A u \in E : far(t) < far(u) \/ (far(t) = far(u) /\ t <= u)
<1>1. WhenOf(E, at) = IF E # {} /\ best < at /\ at - best < MaxShift THEN best ELSE at
  BY Zenon DEF WhenOf
<1>2. ASSUME E # {} PROVE best \in E
  <2> DEFINE D == {far(t) : t \in E}
  <2>1. \A t \in E : far(t) \in Nat
    OBVIOUS
  <2> HIDE DEF far
  <2>2. D \in SUBSET Nat /\ D # {}
    BY <1>2, <2>1
  <2>3. PICK d \in D : \A e \in D : d <= e
    <3> HIDE DEF D
    <3> QED BY <2>2, LeastOf
  <2> DEFINE N == {t \in E : far(t) = d}
  <2>4. N \in SUBSET Nat /\ N # {}
    BY <2>3
  <2>5. PICK t \in N : \A u \in N : t <= u
    <3> HIDE DEF N
    <3> QED BY <2>4, LeastOf
  <2>6. t \in E /\ far(t) = d
    BY <2>5
  <2>7. ASSUME NEW u \in E PROVE far(t) < far(u) \/ (far(t) = far(u) /\ t <= u)
    <3>1. far(u) \in D /\ far(u) \in Nat /\ d \in Nat
      BY <2>1, <2>2, <2>3
    <3>2. d <= far(u)
      <4> HIDE DEF D
      <4> QED BY <2>3, <3>1
    <3>3. far(u) = d => t <= u
      BY <2>5
    <3> HIDE DEF D, N
    <3> QED BY <2>6, <3>1, <3>2, <3>3
  <2>8. \E x \in E : \A u \in E : far(x) < far(u) \/ (far(x) = far(u) /\ x <= u)
    BY <2>6, <2>7
  <2> QED BY <2>8
<1> HIDE DEF best
<1> QED BY <1>1, <1>2

\* The moments of a text in the queue are up to now.
LEMMA EnqueuesAre ==
  ASSUME LedgerInv, NEW f \in DOMAIN Transcripts, NEW text
  PROVE  enqueues(f, text) \in SUBSET (1..clock)
<1>1. \A r \in ToSet(files[f]) : r.at \in 1..clock
  <2> TAKE r \in ToSet(files[f])
  <2>1. PICK i \in DOMAIN files[f] : r = files[f][i]
    BY DEF ToSet
  <2>2. Accounted(menu, clock, nudged, f, i, r)
    BY <2>1 DEF LedgerInv, Written
  <2> QED BY <2>2 DEF Accounted, Record, LedgerInv
<1> QED BY <1>1 DEF enqueues

\* The moment of a human's record does not move.
LEMMA TouchStays ==
  ASSUME LedgerInv, menu.distinct, Once, [Next]_vars, NEW f \in DOMAIN Transcripts, NEW r \in ToSet(files[f]), Human(r)
  PROVE  touch_when(f, r)' = touch_when(f, r)
<1>1. r.text = "none" \/ <<Transcripts[f].seat, r.text>> \in Arrived
  BY DEF Once, Traced
<1>2. \A q \in ToSet(files'[f]) : q.type = "enqueue" /\ q.text = r.text => q \in ToSet(files[f])
  BY <1>1, QueuedIsNew
<1>3. \A q \in ToSet(files[f]) : q \in ToSet(files'[f])
  BY FilesGrow
<1>4. enqueues(f, r.text)' = enqueues(f, r.text)
  BY <1>2, <1>3 DEF enqueues
<1>5. touch_when(f, r)' = WhenOf(enqueues(f, r.text)', r.at)
  BY Zenon DEF touch_when, WhenOf
<1> QED BY <1>4, <1>5, TouchWhenIs

\* The moments of human presence.
Presence == Times(human_touches(Fleet))

\* The sessions of the fleet are the main transcripts of the personal seats.
LEMMA SessionsAre ==
  session_files(Fleet) = {f \in DOMAIN Transcripts : Transcripts[f].seat \in Personal /\ ~Transcripts[f].sub /\ files[f] # <<>>}
<1>1. ASSUME NEW f \in DOMAIN Transcripts, ~Transcripts[f].sub, files[f] # <<>>
      PROVE  Transcripts[f].seat \in Fleet <=> Transcripts[f].seat \in Personal
  <2>1. f \in session_files({Transcripts[f].seat})
    BY <1>1 DEF session_files
  <2> QED BY <2>1, FleetIs
<1> QED BY <1>1 DEF session_files

\* The moments of the touches of some seats are those of their humans' records.
TouchesOf(seats) == Times(human_touches(seats))
\* They are found transcript by transcript.
LEMMA TouchesAre ==
  ASSUME NEW seats
  PROVE  TouchesOf(seats) = UNION {{touch_when(f, r) : r \in {q \in ToSet(files[f]) : Human(q)}} : f \in session_files(seats)}
<1> DEFINE U == UNION {{touch_when(f, r) : r \in {q \in ToSet(files[f]) : Human(q)}} : f \in session_files(seats)}
           S == session_files(seats)
           P == {p \in Recs(S) : Human(Rec(p))}
<1>1. TouchesOf(seats) = {touch_when(p[1], Rec(p)) : p \in P}
  <2> DEFINE touch(p) == [when |-> touch_when(p[1], Rec(p)), seat |-> Transcripts[p[1]].seat, rec |-> p]
  <2>1. human_touches(seats) = {touch(p) : p \in P}
    BY Zenon DEF human_touches
  <2>2. \A p : touch(p).when = touch_when(p[1], Rec(p))
    OBVIOUS
  <2> HIDE DEF touch, P
  <2> QED BY <2>1, <2>2 DEF TouchesOf, Times
<1>2. ASSUME NEW p \in P PROVE touch_when(p[1], Rec(p)) \in U
  <2>1. PICK f \in S : p \in {<<f, i>> : i \in DOMAIN files[f]}
    BY DEF Recs
  <2>2. PICK i \in DOMAIN files[f] : p = <<f, i>>
    BY <2>1
  <2>3. p[1] = f /\ Rec(p) = files[f][i] /\ Human(Rec(p))
    BY <2>2 DEF Rec
  <2>4. Rec(p) \in ToSet(files[f])
    BY <2>3 DEF ToSet
  <2> QED BY <2>3, <2>4
<1>3. ASSUME NEW f \in S, NEW r \in ToSet(files[f]), Human(r) PROVE \E p \in P : touch_when(f, r) = touch_when(p[1], Rec(p))
  <2>1. PICK i \in DOMAIN files[f] : r = files[f][i]
    BY DEF ToSet
  <2> DEFINE p == <<f, i>>
  <2>2. p[1] = f /\ Rec(p) = r
    BY <2>1 DEF Rec
  <2>3. p \in Recs(S)
    BY DEF Recs
  <2> HIDE DEF p, S
  <2> QED BY <1>3, <2>2, <2>3
<1> HIDE DEF P, S
<1>4. \A x \in TouchesOf(seats) : x \in U
  BY <1>1, <1>2
<1>5. \A x \in U : x \in TouchesOf(seats)
  <2> TAKE x \in U
  <2>1. PICK f \in S : x \in {touch_when(f, r) : r \in {q \in ToSet(files[f]) : Human(q)}}
    BY DEF S
  <2>2. PICK r \in ToSet(files[f]) : Human(r) /\ x = touch_when(f, r)
    BY <2>1
  <2> QED BY <1>1, <1>3, <2>2
<1> QED BY <1>4, <1>5

\* They are those of the fleet's.
LEMMA PresenceIs ==
  Presence = UNION {{touch_when(f, r) : r \in {q \in ToSet(files[f]) : Human(q)}} : f \in session_files(Fleet)}
BY TouchesAre DEF Presence, TouchesOf

\* They are not later than now.
LEMMA PresenceUpTo ==
  ASSUME LedgerInv
  PROVE  Presence \in SUBSET (1..clock)
<1>1. ASSUME NEW f \in session_files(Fleet), NEW r \in ToSet(files[f]) PROVE touch_when(f, r) \in 1..clock
  <2>0. f \in DOMAIN Transcripts
    BY FleetIs
  <2>1. PICK i \in DOMAIN files[f] : r = files[f][i]
    BY DEF ToSet
  <2>2. Accounted(menu, clock, nudged, f, i, r)
    BY <2>0, <2>1 DEF LedgerInv, Written
  <2>3. r.at \in 1..clock /\ r.at \in Nat /\ clock \in Nat
    BY <2>2 DEF Accounted, Record, LedgerInv
  <2>4. enqueues(f, r.text) \in SUBSET (1..clock)
    BY <2>0, EnqueuesAre
  <2>5. enqueues(f, r.text) \in SUBSET Nat
    BY <2>4
  <2>6. WhenOf(enqueues(f, r.text), r.at) = r.at \/ WhenOf(enqueues(f, r.text), r.at) \in enqueues(f, r.text)
    BY <2>3, <2>5, WhenIs
  <2> QED BY <2>3, <2>4, <2>6, TouchWhenIs
<1> QED BY <1>1, PresenceIs

\* What was human presence stays it.
LEMMA PresenceGrows ==
  ASSUME LedgerInv, menu.distinct, Once, [Next]_vars
  PROVE  Presence \subseteq Presence'
<1>1. (Presence = UNION {{touch_when(f, r) : r \in {q \in ToSet(files[f]) : Human(q)}} : f \in session_files(Fleet)})'
  BY PresenceIs, PTL
<1>2. \A f \in session_files(Fleet) : f \in session_files(Fleet)'
  <2>1. session_files(Fleet)' = {f \in DOMAIN Transcripts : Transcripts[f].seat \in Personal /\ ~Transcripts[f].sub /\ files'[f] # <<>>}
    <3>1. (session_files(Fleet) = {f \in DOMAIN Transcripts : Transcripts[f].seat \in Personal /\ ~Transcripts[f].sub /\ files[f] # <<>>})'
      BY SessionsAre, PTL
    <3> QED BY <3>1 DEF Personal
  <2> QED BY <2>1, FilesGrow, SessionsAre
<1>3. ASSUME NEW x \in Presence PROVE x \in Presence'
  <2>1. PICK f \in session_files(Fleet) : x \in {touch_when(f, r) : r \in {q \in ToSet(files[f]) : Human(q)}}
    BY PresenceIs
  <2>2. PICK r \in ToSet(files[f]) : Human(r) /\ x = touch_when(f, r)
    BY <2>1
  <2>3. f \in DOMAIN Transcripts
    BY FleetIs
  <2>4. touch_when(f, r)' = x /\ r \in ToSet(files'[f]) /\ f \in session_files(Fleet)'
    BY <1>2, <2>2, <2>3, TouchStays, FilesGrow
  <2>5. touch_when(f, r)' \in {touch_when(f, q)' : q \in {u \in ToSet(files'[f]) : Human(u)}}
    BY <2>2, <2>4
  <2> QED BY <1>1, <2>4, <2>5
<1> QED BY <1>3

\* A tag is given to the minute of a human touch, under one of the two names.
Categories == {"DIRECTING", "WATCHING"}
Anchored == menu.distinct => \A tag \in tags : tag.cat \in Categories /\ \E t \in Presence : tag.id = Truncated(t)

\* What a step does to the tags.
LEMMA TagMoves ==
  ASSUME [Next]_vars
  PROVE  \/ tags' = tags
         \/ \E b \in blocks(human_touches(Fleet)), cat \in Categories :
              tags' = {t \in tags : t.id # block_id(b)} \cup {[id |-> block_id(b), cat |-> cat]}
<1> DEFINE Tags == \E b \in blocks(human_touches(Fleet)), cat \in Categories :
                     tags' = {t \in tags : t.id # block_id(b)} \cup {[id |-> block_id(b), cat |-> cat]}
<1>1. ASSUME UNCHANGED vars \/ Tick \/ Lose \/ Resume PROVE tags' = tags
  BY <1>1, Zenon DEF vars, Tick, Lose, Resume
<1>2. ASSUME NEW s, Dequeue(s) \/ Finish(s) PROVE tags' = tags
  BY <1>2, Zenon DEF Dequeue, Finish
<1>3. ASSUME NEW s, Start(s) PROVE tags' = tags
  BY <1>3, Zenon DEF Start
<1>4. ASSUME NEW s, NEW text, Type(s, text) \/ Deliver(s, text) PROVE tags' = tags
  BY <1>4, Zenon DEF Type, Deliver
<1>5. ASSUME NEW s, NEW kind, NEW text, Touch(s, kind) \/ Inject(s, kind, text) \/ Post(s, kind) PROVE tags' = tags
  BY <1>5, Zenon DEF Touch, Inject, Post
<1>6. ASSUME NEW f, NEW id, Commit(f) \/ Fail(f) \/ Answer(f, id) PROVE tags' = tags
  BY <1>6, Zenon DEF Commit, Fail, Answer
<1>7. ASSUME NEW f, NEW s, NEW text, Send(f, s, text) PROVE tags' = tags
  BY <1>7, Zenon DEF Send
<1>8. ASSUME NEW b \in blocks(human_touches(Fleet)), NEW cat \in {"DIRECTING", "WATCHING"}, Tag(b, cat) PROVE Tags
  BY <1>8, Zenon DEF Tag, Categories
<1> HIDE DEF Tags
<1>9. tags' = tags \/ Tags
  <2>1. CASE UNCHANGED vars \/ Tick \/ Lose \/ Resume
    BY <1>1, <2>1, Zenon
  <2>2. CASE \E s \in Seats : Dequeue(s) \/ Finish(s)
    BY <1>2, <2>2
  <2>3. CASE \E s \in menu.seats \cup menu.targets : Start(s)
    BY <1>3, <2>3
  <2>4. CASE \E s \in menu.seats :
               \/ \E text \in menu.texts : Type(s, text)
               \/ \E kind \in menu.touches : Touch(s, kind)
               \/ \E kind \in menu.injects, text \in menu.texts : Inject(s, kind, text)
               \/ \E form \in {"bracket", "annotated", "dash"} : Post(s, form)
               \/ \E f \in {g \in DOMAIN Transcripts : Transcripts[g].seat = s} :
                    \/ Commit(f) \/ Fail(f) \/ \E id \in 1..menu.steps : Answer(f, id)
    BY <1>4, <1>5, <1>6, <2>4, Zenon
  <2>5. CASE \E s \in menu.targets, text \in menu.payloads :
               Deliver(s, text) \/ \E f \in menu.senders : Send(f, s, text)
    BY <1>4, <1>7, <2>5, Zenon
  <2>6. CASE \E b \in blocks(human_touches(Fleet)), cat \in {"DIRECTING", "WATCHING"} : Tag(b, cat)
    BY <1>8, <2>6, Zenon
  <2> QED BY <2>1, <2>2, <2>3, <2>4, <2>5, <2>6 DEF Next
<1> QED BY <1>9 DEF Tags

\* There are no tags at the start.
LEMMA InitAnchored == Init => Anchored
BY DEF Init, Anchored

\* A tag is given to a block, which starts with a touch.
LEMMA AnchoredKeeps ==
  ASSUME LedgerInv, Once, Anchored, [Next]_vars
  PROVE  Anchored'
<1>1. menu' = menu
  BY MovesAre
<1>2. SUFFICES ASSUME menu.distinct PROVE Anchored'
  BY <1>1 DEF Anchored
<1>3. Presence \subseteq Presence'
  BY <1>2, PresenceGrows
<1>4. \A tag \in tags : tag.cat \in Categories /\ \E t \in Presence : tag.id = Truncated(t)
  BY <1>2 DEF Anchored
<1>5. ASSUME NEW tag \in tags' PROVE tag.cat \in Categories /\ \E t \in Presence : tag.id = Truncated(t)
  <2>1. CASE tag \in tags
    BY <1>4, <2>1
  <2>2. CASE tag \notin tags
    <3>1. PICK b \in blocks(human_touches(Fleet)), cat \in Categories : tag = [id |-> block_id(b), cat |-> cat]
      BY <1>5, <2>2, TagMoves
    <3>2. b \in BlocksOf(Presence)
      BY BlocksAre DEF Presence
    <3>3. b.lo \in Presence
      BY <3>2, PresenceUpTo, BlockIs DEF LedgerInv
    <3> QED BY <3>1, <3>3 DEF block_id
  <2> QED BY <2>1, <2>2
<1>6. \A tag \in tags' : tag.cat \in Categories /\ \E t \in Presence' : tag.id = Truncated(t)
  BY <1>3, <1>5
<1> QED BY <1>6 DEF Anchored, Truncated, Categories

\* The categories of a block's tags, when it is claimed.
LEMMA ClaimedIs ==
  ASSUME NEW b, categories(b) \subseteq Categories, category_of(b) \in CLAIM_CATEGORIES
  PROVE  "WATCHING" \notin categories(b)
<1> DEFINE C == categories(b)
<1>1. C # {} /\ ~(Cardinality(C) > 1) /\ (CHOOSE cat \in C : TRUE) \in CLAIM_CATEGORIES
  BY DEF category_of, CLAIM_CATEGORIES
<1> HIDE DEF C
<1>2. SUFFICES ASSUME "WATCHING" \in C PROVE FALSE
  BY DEF C
<1>3. C = {"WATCHING"} \/ C = {"WATCHING", "DIRECTING"}
  BY <1>2 DEF C, Categories
<1>4. CASE C = {"WATCHING"}
  <2>1. (CHOOSE cat \in C : TRUE) \in C
    BY <1>2
  <2> QED BY <1>1, <1>4, <2>1 DEF CLAIM_CATEGORIES
<1>5. CASE C = {"WATCHING", "DIRECTING"}
  <2>1. IsFiniteSet({"WATCHING"}) /\ Cardinality({"WATCHING"}) = 1
    BY FS_Singleton
  <2>2. Cardinality({"WATCHING"} \cup {"DIRECTING"}) = 1 + 1
    BY <2>1, FS_AddElement
  <2>3. C = {"WATCHING"} \cup {"DIRECTING"}
    BY <1>5
  <2> QED BY <1>1, <2>2, <2>3
<1> QED BY <1>3, <1>4, <1>5

\* Where the tags are at the minutes of touches, the report is right about them.
LEMMA TagsAre ==
  ASSUME LedgerInv, Anchored
  PROVE  TagsKept
<1> DEFINE r == human_report(Fleet)
           B == BlocksOf(Presence)
           time(S) == MapThenSumSet(dur, S)
<1>1. /\ r.blocks = blocks(human_touches(Fleet)) /\ r.orphaned = orphaned(blocks(human_touches(Fleet)))
      /\ r.claimed = {b \in blocks(human_touches(Fleet)) : category_of(b) \in CLAIM_CATEGORIES}
      /\ r.total = time(blocks(human_touches(Fleet))) /\ r.claim = time(r.claimed)
  BY DEF human_report, MapThenSumSet, MapThenFoldSet
<1>2. blocks(human_touches(Fleet)) = B
  BY BlocksAre DEF Presence
<1>3. \A S : time(S) = TimeOf(S)
  BY DEF TimeOf, MapThenSumSet, MapThenFoldSet
<1> HIDE DEF time, r
<1>4. /\ r.blocks = B /\ r.orphaned = orphaned(B) /\ r.claimed = {b \in B : category_of(b) \in CLAIM_CATEGORIES}
      /\ r.total = TimeOf(B) /\ r.claim = TimeOf(r.claimed)
  BY <1>1, <1>2, <1>3
<1>5. Presence \in SUBSET (1..clock) /\ clock \in Nat /\ clock >= 1
  BY PresenceUpTo DEF LedgerInv
<1>6. SUFFICES ASSUME menu.distinct
               PROVE  /\ r.orphaned = {}
                      /\ \A tag \in tags : Cardinality({b \in r.blocks : tagged(tag, b)}) = 1
                      /\ \A b \in r.claimed : \A tag \in tags : tagged(tag, b) => tag.cat # "WATCHING"
                      /\ r.claim <= r.total /\ r.total <= clock - 1 + Floor
  BY DEF TagsKept, r
<1>7. \A tag \in tags : tag.cat \in Categories /\ \E t \in Presence : tag.id = Truncated(t)
  BY <1>6 DEF Anchored
<1>8. ASSUME NEW tag \in tags
      PROVE  \E b \in B : tagged(tag, b) /\ \A c \in B : tagged(tag, c) => c = b
  <2>1. PICK t \in Presence : tag.id = Truncated(t)
    BY <1>7
  <2> QED BY <1>5, <2>1, TaggedOnce
<1>9. r.orphaned = {}
  BY <1>4, <1>8 DEF orphaned
<1>10. ASSUME NEW tag \in tags PROVE Cardinality({b \in r.blocks : tagged(tag, b)}) = 1
  <2>1. PICK b \in B : tagged(tag, b) /\ \A c \in B : tagged(tag, c) => c = b
    BY <1>8
  <2>2. {c \in r.blocks : tagged(tag, c)} = {b}
    BY <1>4, <2>1
  <2> QED BY <2>2, FS_Singleton
<1>11. ASSUME NEW b \in r.claimed, NEW tag \in tags, tagged(tag, b) PROVE tag.cat # "WATCHING"
  <2>1. categories(b) \subseteq Categories /\ tag.cat \in categories(b) /\ category_of(b) \in CLAIM_CATEGORIES
    BY <1>4, <1>7, <1>11 DEF categories
  <2> QED BY <2>1, ClaimedIs
<1>12. r.claim <= r.total /\ r.total <= clock - 1 + Floor
  <2>1. r.claimed \in SUBSET B
    BY <1>4
  <2> QED BY <1>4, <1>5, <2>1, TimePasses
<1> QED BY <1>9, <1>10, <1>11, <1>12

\* With no text typed twice, a tag given to a block of human time keeps one block and
\* only one, though a message dequeued later starts it earlier or joins it to another;
\* no block called WATCHING is claimed, and no time is claimed that did not pass.
THEOREM TagsStay == RecordsSpec => []TagsKept
<1>1. RecordsInit => LedgerInv /\ Once /\ Anchored
  BY InitAccounted, InitOnce, InitAnchored DEF RecordsInit
<1>2. LedgerInv /\ Once /\ Anchored /\ [RecordsNext]_<<vars, shelf>> => (LedgerInv /\ Once /\ Anchored)'
  BY LedgerKeeps, OnceKeeps, AnchoredKeeps DEF RecordsNext
<1>3. LedgerInv /\ Once /\ Anchored => TagsKept
  BY TagsAre
<1> QED BY <1>1, <1>2, <1>3, PTL DEF RecordsSpec

----------------------------------------------------------------------------
(* The holes of the record.                                                *)

\* A moment outside the hole.
Recorded(t) == t <= hole.from \/ (recording /\ hole.to <= t)
\* A commit made while the record was kept is written of, one that was not is in the
\* hole, and no record is.
Held ==
  /\ clock = 1 \/ clock <= menu.last
  /\ hole.from <= clock /\ (recording /\ ~Whole => hole.from <= hole.to /\ hole.to <= clock)
  /\ \A c \in Landed :
       IF c.kept THEN \E f \in DOMAIN Transcripts : /\ Transcripts[f].seat = c.seat /\ Alive(f)
                                                    /\ \E r \in ToSet(files[f]) : r.at = c.at
       ELSE ~Whole /\ hole.from <= c.at /\ (recording => c.at <= hole.to)
  /\ ~Whole => \A f \in DOMAIN Transcripts : \A r \in ToSet(files[f]) : Recorded(r.at)

\* There is no hole at the start.
LEMMA InitHeld == Init => Held
<1> SUFFICES ASSUME Init PROVE Held
  OBVIOUS
<1>1. clock = 1 /\ hole.from = 0 /\ Landed = {}
  BY DEF Init, Landed, ToSet
<1> QED BY <1>1 DEF Held, Whole

\* What a step does to the clock, the commits and the hole.
LEMMA HoleMoves ==
  ASSUME LedgerInv, [Next]_vars
  PROVE  \/ UNCHANGED <<files, commits, recording, hole>> /\ clock < menu.last /\ clock' = clock + 1
         \/ UNCHANGED <<files, commits, clock>> /\ (Lose \/ Resume)
         \/ UNCHANGED <<commits, recording, hole, clock>>
         \/ \E f \in DOMAIN Transcripts : Commit(f)
<1> DEFINE Same == UNCHANGED <<commits, recording, hole, clock>>
           Ticks == UNCHANGED <<files, commits, recording, hole>> /\ clock < menu.last /\ clock' = clock + 1
           Gaps == UNCHANGED <<files, commits, clock>> /\ (Lose \/ Resume)
<1>1. UNCHANGED vars => Same
  BY Zenon DEF vars
<1>2. Tick => Ticks
  BY Zenon DEF Tick
<1>3. Lose \/ Resume => Gaps
  BY Zenon DEF Lose, Resume, Step
<1>4. ASSUME NEW s, Dequeue(s) \/ Finish(s) PROVE Same
  BY <1>4, Zenon DEF Dequeue, Finish
<1>5. ASSUME NEW s, Start(s) PROVE Same
  BY <1>5, Zenon DEF Start, Step
<1>6. ASSUME NEW s, NEW text, Type(s, text) \/ Deliver(s, text) PROVE Same
  BY <1>6, Zenon DEF Type, Deliver, Step
<1>7. ASSUME NEW s, NEW kind, NEW text, Touch(s, kind) \/ Inject(s, kind, text) \/ Post(s, kind) PROVE Same
  BY <1>7, Zenon DEF Touch, Inject, Post, Step
<1>8. ASSUME NEW f, NEW id, Fail(f) \/ Answer(f, id) PROVE Same
  BY <1>8, Zenon DEF Fail, Answer, Step
<1>9. ASSUME NEW f, NEW s, NEW text, Send(f, s, text) PROVE Same
  BY <1>9, Zenon DEF Send, Step
<1>10. ASSUME NEW b, NEW cat, Tag(b, cat) PROVE Same
  BY <1>10, Zenon DEF Tag, Step
<1> DEFINE Commits1 == \E f \in DOMAIN Transcripts : Commit(f)
<1> HIDE DEF Same, Ticks, Gaps
<1>11. Same \/ Ticks \/ Gaps \/ Commits1
  <2>1. CASE UNCHANGED vars \/ Tick \/ Lose \/ Resume
    BY <1>1, <1>2, <1>3, <2>1, Zenon
  <2>2. CASE \E s \in Seats : Dequeue(s) \/ Finish(s)
    BY <1>4, <2>2
  <2>3. CASE \E s \in menu.seats \cup menu.targets : Start(s)
    BY <1>5, <2>3
  <2>4. CASE \E s \in menu.seats :
               \/ \E text \in menu.texts : Type(s, text)
               \/ \E kind \in menu.touches : Touch(s, kind)
               \/ \E kind \in menu.injects, text \in menu.texts : Inject(s, kind, text)
               \/ \E form \in {"bracket", "annotated", "dash"} : Post(s, form)
               \/ \E f \in {g \in DOMAIN Transcripts : Transcripts[g].seat = s} :
                    \/ Commit(f) \/ Fail(f) \/ \E id \in 1..menu.steps : Answer(f, id)
    BY <1>6, <1>7, <1>8, <2>4, Zenon
  <2>5. CASE \E s \in menu.targets, text \in menu.payloads :
               Deliver(s, text) \/ \E f \in menu.senders : Send(f, s, text)
    BY <1>6, <1>9, <2>5, Zenon
  <2>6. CASE \E b \in blocks(human_touches(Fleet)), cat \in {"DIRECTING", "WATCHING"} : Tag(b, cat)
    BY <1>10, <2>6, Zenon
  <2> QED BY <2>1, <2>2, <2>3, <2>4, <2>5, <2>6 DEF Next
<1> QED BY <1>11 DEF Same, Ticks, Gaps

\* What was written of still is.
LEMMA StillWritten ==
  ASSUME LedgerInv, [Next]_vars, NEW c,
         \E f \in DOMAIN Transcripts : Transcripts[f].seat = c.seat /\ Alive(f) /\ \E r \in ToSet(files[f]) : r.at = c.at
  PROVE  \E f \in DOMAIN Transcripts : Transcripts[f].seat = c.seat /\ Alive(f)' /\ \E r \in ToSet(files'[f]) : r.at = c.at
<1>1. PICK f \in DOMAIN Transcripts : Transcripts[f].seat = c.seat /\ Alive(f) /\ \E r \in ToSet(files[f]) : r.at = c.at
  OBVIOUS
<1>2. Main(Transcripts[f].seat) \in DOMAIN Transcripts
  BY MainIs DEF Seats
<1>3. Alive(f)' /\ ToSet(files[f]) \subseteq ToSet(files'[f])
  BY <1>1, <1>2, FilesGrow DEF Alive
<1> QED BY <1>1, <1>3

\* Every step keeps it.
LEMMA HeldKeeps ==
  ASSUME LedgerInv, Logged, Metered, Held, [Next]_vars
  PROVE  Held'
<1>0. /\ clock \in Nat /\ clock >= 1 /\ menu' = menu /\ recording \in BOOLEAN /\ hole \in [from : Nat, to : Nat]
      /\ menu.last \in Nat /\ (Whole => recording)
  BY MovesAre, MenusAssumption DEF LedgerInv, Metered
<1>1. /\ \A c \in Landed : c.at \in Nat /\ c.at >= 1 /\ c.at <= clock
      /\ \A f \in DOMAIN Transcripts : \A r \in ToSet(files[f]) : r.at \in Nat /\ r.at <= clock
  <2>1. ASSUME NEW f \in DOMAIN Transcripts, NEW r \in ToSet(files[f]) PROVE r.at \in Nat /\ r.at <= clock
    <3>1. PICK i \in DOMAIN files[f] : r = files[f][i]
      BY DEF ToSet
    <3>2. Accounted(menu, clock, nudged, f, i, r)
      BY <3>1 DEF LedgerInv, Written
    <3> QED BY <3>2 DEF Accounted, Record
  <2> QED BY <1>0, <2>1, LandedIs
<1>2. CASE UNCHANGED <<files, commits, recording, hole>> /\ clock < menu.last /\ clock' = clock + 1
  <2>1. /\ clock' <= menu.last /\ hole.from <= clock' /\ (recording /\ ~Whole => hole.from <= hole.to /\ hole.to <= clock')
    BY <1>0, <1>2 DEF Held
  <2>2. \A f \in DOMAIN Transcripts : Alive(f)' = Alive(f)
    BY <1>2 DEF Alive
  <2>3. Landed' = Landed /\ Whole' = Whole /\ \A t : Recorded(t)' = Recorded(t)
    BY <1>2 DEF Landed, Whole, Recorded
  <2> QED BY <1>0, <1>2, <2>1, <2>2, <2>3 DEF Held
<1>3. CASE UNCHANGED <<files, commits, clock>> /\ (Lose \/ Resume)
  <2>1. \A f \in DOMAIN Transcripts : Alive(f)' = Alive(f)
    BY <1>3 DEF Alive
  <2>2. Landed' = Landed
    BY <1>3 DEF Landed
  <2>3. CASE Lose
    <3>1. hole.from = 0 /\ recording' = FALSE /\ hole' = [hole EXCEPT !.from = clock]
      BY <2>3, Zenon DEF Lose
    <3>2. hole'.from = clock /\ ~Whole' /\ Whole
      BY <1>0, <3>1 DEF Whole
    <3>3. \A c \in Landed : c.kept
      BY <3>2 DEF Held
    <3>4. \A f \in DOMAIN Transcripts : \A r \in ToSet(files[f]) : Recorded(r.at)'
      BY <1>1, <3>2 DEF Recorded
    <3> QED BY <1>0, <1>3, <2>1, <2>2, <3>1, <3>2, <3>3, <3>4 DEF Held
  <2>4. CASE Resume
    <3>1. ~recording /\ recording' = TRUE /\ hole' = [hole EXCEPT !.to = clock]
      BY <2>4, Zenon DEF Resume
    <3>2. hole'.from = hole.from /\ hole'.to = clock /\ Whole' = Whole /\ ~Whole
      BY <1>0, <3>1 DEF Whole
    <3>3. \A c \in Landed : ~c.kept => hole.from <= c.at /\ c.at <= hole'.to
      BY <1>1, <3>2 DEF Held
    <3>4. \A f \in DOMAIN Transcripts : \A r \in ToSet(files[f]) : Recorded(r.at)'
      <4>1. \A f \in DOMAIN Transcripts : \A r \in ToSet(files[f]) : Recorded(r.at)
        BY <3>2 DEF Held
      <4> QED BY <3>1, <3>2, <4>1 DEF Recorded
    <3> QED BY <1>0, <1>3, <2>1, <2>2, <3>1, <3>2, <3>3, <3>4 DEF Held
  <2> QED BY <1>3, <2>3, <2>4
<1>4. ASSUME UNCHANGED <<recording, hole, clock>> PROVE ~Whole' => \A f \in DOMAIN Transcripts : \A r \in ToSet(files'[f]) : Recorded(r.at)'
  <2>1. SUFFICES ASSUME ~Whole', NEW f \in DOMAIN Transcripts, NEW r \in ToSet(files'[f]) PROVE Recorded(r.at)'
    OBVIOUS
  <2>2. ~Whole /\ (Recorded(r.at) => Recorded(r.at)')
    BY <1>4, <2>1 DEF Whole, Recorded
  <2>3. CASE r \in ToSet(files[f])
    BY <2>2, <2>3 DEF Held
  <2>4. CASE r \notin ToSet(files[f])
    <3>1. recording /\ r.at = clock
      <4>1. files' # files
        BY <2>1, <2>4
      <4>2. PICK g \in DOMAIN Transcripts, rec \in Record :
              recording /\ rec.at = clock /\ files' = [files EXCEPT ![g] = Append(files[g], rec)]
        BY <4>1, WroteIs
      <4>3. ToSet(files'[f]) = ToSet(files[f]) \cup (IF f = g THEN {rec} ELSE {})
        BY <4>2, AddedIs
      <4> QED BY <2>1, <2>4, <4>2, <4>3
    <3>2. hole.to <= clock
      BY <2>2, <3>1 DEF Held
    <3> QED BY <2>2, <3>1, <3>2 DEF Recorded
  <2> QED BY <2>3, <2>4
<1>5. CASE UNCHANGED <<commits, recording, hole, clock>>
  <2>1. Landed' = Landed /\ Whole' = Whole
    BY <1>5 DEF Landed, Whole
  <2>2. \A c \in Landed : IF c.kept THEN \E f \in DOMAIN Transcripts : /\ Transcripts[f].seat = c.seat /\ Alive(f)'
                                                                       /\ \E r \in ToSet(files'[f]) : r.at = c.at
                          ELSE ~Whole /\ hole.from <= c.at /\ (recording => c.at <= hole.to)
    BY StillWritten DEF Held
  <2>3. /\ clock = 1 \/ clock <= menu.last
        /\ hole.from <= clock /\ (recording /\ ~Whole => hole.from <= hole.to /\ hole.to <= clock)
    BY DEF Held
  <2> QED BY <1>0, <1>4, <1>5, <2>1, <2>2, <2>3 DEF Held
<1>6. ASSUME NEW f \in DOMAIN Transcripts, Commit(f) PROVE Held'
  <2> DEFINE rec == [Blank EXCEPT !.type = "assistant", !.synthetic = TRUE]
             c == [n |-> Len(commits) + 1, at |-> clock, seat |-> Transcripts[f].seat, kept |-> recording]
  <2>1. /\ UNCHANGED <<recording, hole, clock>> /\ Alive(f) /\ Write(f, rec) /\ commits' = Append(commits, c)
    BY <1>6, Zenon DEF Commit, Step
  <2>2. rec \in Record /\ rec.at = clock
    BY BlankIs DEF Record
  <2>3. c.at = clock /\ c.seat = Transcripts[f].seat /\ c.kept = recording
    OBVIOUS
  <2> HIDE DEF rec, c
  <2>4. Landed' = Landed \cup {c}
    BY <2>1 DEF Landed, ToSet, Logged
  <2>5. Whole' = Whole /\ (Whole => recording)
    BY <1>0, <2>1 DEF Whole
  <2>6. IF c.kept THEN \E g \in DOMAIN Transcripts : /\ Transcripts[g].seat = c.seat /\ Alive(g)'
                                                     /\ \E r \in ToSet(files'[g]) : r.at = c.at
        ELSE ~Whole /\ hole.from <= c.at /\ (recording => c.at <= hole.to)
    <3>1. CASE recording
      <4>1. files' = [files EXCEPT ![f] = Append(files[f], rec)]
        BY <2>1, <3>1 DEF Write
      <4>2. rec \in ToSet(files'[f])
        <5>1. ToSet(files'[f]) = ToSet(files[f]) \cup (IF f = f THEN {rec} ELSE {})
          BY <2>2, <4>1, AddedIs
        <5> QED BY <5>1
      <4>3. Alive(f)'
        <5>1. Main(Transcripts[f].seat) \in DOMAIN Transcripts
          BY MainIs DEF Seats
        <5> QED BY <2>1, <5>1, FilesGrow DEF Alive
      <4> QED BY <2>2, <2>3, <3>1, <4>2, <4>3
    <3>2. CASE ~recording
      BY <2>3, <2>5, <3>2 DEF Held
    <3> QED BY <1>0, <3>1, <3>2
  <2>7. \A d \in Landed : IF d.kept THEN \E g \in DOMAIN Transcripts : /\ Transcripts[g].seat = d.seat /\ Alive(g)'
                                                                       /\ \E r \in ToSet(files'[g]) : r.at = d.at
                          ELSE ~Whole /\ hole.from <= d.at /\ (recording => d.at <= hole.to)
    BY StillWritten DEF Held
  <2>8. /\ clock = 1 \/ clock <= menu.last
        /\ hole.from <= clock /\ (recording /\ ~Whole => hole.from <= hole.to /\ hole.to <= clock)
    BY DEF Held
  <2>9. \A d \in Landed' : IF d.kept THEN \E g \in DOMAIN Transcripts : /\ Transcripts[g].seat = d.seat /\ Alive(g)'
                                                                        /\ \E r \in ToSet(files'[g]) : r.at = d.at
                           ELSE ~Whole' /\ hole'.from <= d.at /\ (recording' => d.at <= hole'.to)
    BY <2>1, <2>4, <2>5, <2>6, <2>7
  <2>10. ~Whole' => \A g \in DOMAIN Transcripts : \A r \in ToSet(files'[g]) : Recorded(r.at)'
    BY <1>4, <2>1
  <2> QED BY <1>0, <2>1, <2>5, <2>8, <2>9, <2>10 DEF Held
<1> QED BY <1>2, <1>3, <1>5, <1>6, HoleMoves

\* The lesser of two.
LEMMA LesserIs ==
  ASSUME NEW a \in Int, NEW b \in Int
  PROVE  Min({a, b}) \in {a, b} /\ Min({a, b}) <= a /\ Min({a, b}) <= b
<1>1. \E x \in {a, b} : \A y \in {a, b} : x <= y
  OBVIOUS
<1> QED BY <1>1 DEF Min

\* The trace is of the records of the fleet.
LEMMA TraceIs ==
  ASSUME LedgerInv
  PROVE  /\ activity_trace(Fleet) \in SUBSET (1..clock)
         /\ \A t \in activity_trace(Fleet) : \E f \in DOMAIN Transcripts : \E r \in ToSet(files[f]) : r.at = t
         /\ \A f \in session_files(Fleet) \cup subagent_files(Fleet) : \A r \in ToSet(files[f]) : r.at \in activity_trace(Fleet)
<1> DEFINE fs == session_files(Fleet) \cup subagent_files(Fleet)
<1>1. fs \in SUBSET DOMAIN Transcripts
  BY FleetIs
<1>2. activity_trace(Fleet) = {Rec(p).at : p \in Recs(fs)}
  BY DEF activity_trace, Moments
<1> HIDE DEF fs
<1>3. \A p \in Recs(fs) : /\ p[1] \in DOMAIN Transcripts /\ Rec(p) \in ToSet(files[p[1]])
                          /\ Rec(p).at \in 1..clock
  BY <1>1, RecsAre DEF LedgerInv
<1>4. ASSUME NEW f \in fs, NEW r \in ToSet(files[f]) PROVE \E p \in Recs(fs) : Rec(p) = r
  <2>1. PICK i \in DOMAIN files[f] : r = files[f][i]
    BY DEF ToSet
  <2>2. <<f, i>> \in Recs(fs) /\ Rec(<<f, i>>) = r
    BY <2>1 DEF Recs, Rec
  <2> QED BY <2>2
<1>5. \A f \in fs : \A r \in ToSet(files[f]) : r.at \in activity_trace(Fleet)
  BY <1>2, <1>4
<1> QED BY <1>2, <1>3, <1>5 DEF fs

\* How far a moment is from a trace.
LEMMA DistanceIs ==
  ASSUME NEW n \in Nat, NEW X \in SUBSET (1..n), NEW c, c.at \in Nat
  PROVE  /\ record_distance(c, X) \in Int
         /\ c.at \in X => record_distance(c, X) <= RecordTol
         /\ c.at + RecordTol < Never
            /\ (\A t \in X : (t < c.at => c.at - t > RecordTol) /\ (t >= c.at => t - c.at > RecordTol))
              => record_distance(c, X) > RecordTol
<1> DEFINE L == {t \in X : t < c.at}  R == {t \in X : t >= c.at}
           before == Latest(L, -Never)  after == Earliest(R, Never)
<1>0. RecordTol \in Nat /\ Never \in Nat
  BY SettingsAssumption DEF Never
<1>1. record_distance(c, X) = Min({c.at - before, after - c.at})
  BY DEF record_distance
<1>2. before = -Never \/ before \in L
  <2>1. CASE L = {}
    BY <2>1 DEF Latest
  <2>2. CASE L # {}
    <3>1. L \in SUBSET (1..n)
      OBVIOUS
    <3> HIDE DEF L
    <3> QED BY <2>2, <3>1, LatestIs
  <2> QED BY <2>1, <2>2
<1>3. (after = Never /\ R = {}) \/ (after \in R /\ \A y \in R : after <= y)
  <2>1. CASE R = {}
    BY <2>1 DEF Earliest
  <2>2. CASE R # {}
    <3>1. R \in SUBSET (1..n)
      OBVIOUS
    <3> HIDE DEF R
    <3> QED BY <2>2, <3>1, LatestIs
  <2> QED BY <2>1, <2>2
<1> HIDE DEF before, after
<1>9. (\A t \in L : t \in Int) /\ (\A t \in R : t \in Int)
  OBVIOUS
<1>a. (\A t \in L : t \in X /\ t < c.at) /\ (\A t \in R : t \in X /\ t >= c.at) /\ (\A t \in X : t \in Nat)
  OBVIOUS
<1>b. c.at \in X => c.at \in R
  OBVIOUS
<1> HIDE DEF L, R
<1>4. before \in Int /\ after \in Int
  <2>1. -Never \in Int
    BY <1>0
  <2>2. before \in Int
    <3>1. ASSUME before \in L PROVE before \in Int
      BY <1>9, <3>1
    <3> QED BY <1>2, <2>1, <3>1
  <2>3. after \in Int
    <3>1. ASSUME after \in R PROVE after \in Int
      BY <1>9, <3>1
    <3> QED BY <1>0, <1>3, <3>1
  <2> QED BY <2>2, <2>3
<1>5. /\ record_distance(c, X) \in {c.at - before, after - c.at}
      /\ record_distance(c, X) <= after - c.at
  <2>1. c.at - before \in Int /\ after - c.at \in Int
    BY <1>4
  <2> QED BY <1>1, <2>1, LesserIs
<1>6. ASSUME c.at \in X PROVE record_distance(c, X) <= RecordTol
  <2>1. c.at \in R
    BY <1>6, <1>b
  <2>2. after = c.at
    <3>1. after \in R /\ after <= c.at
      BY <1>3, <2>1
    <3>2. after >= c.at
      BY <1>a, <3>1
    <3> QED BY <1>4, <3>1, <3>2
  <2> QED BY <1>0, <1>4, <1>5, <2>2
<1>7. ASSUME c.at + RecordTol < Never,
             \A t \in X : (t < c.at => c.at - t > RecordTol) /\ (t >= c.at => t - c.at > RecordTol)
      PROVE  record_distance(c, X) > RecordTol
  <2>1. c.at - before > RecordTol
    <3>1. CASE before = -Never
      BY <1>0, <1>7, <3>1
    <3>2. CASE before \in L
      BY <1>7, <1>a, <3>2
    <3> QED BY <1>2, <3>1, <3>2
  <2>2. after - c.at > RecordTol
    <3>1. CASE after = Never
      BY <1>0, <1>7, <3>1
    <3>2. CASE after \in R
      BY <1>7, <1>a, <3>2
    <3> QED BY <1>3, <3>1, <3>2
  <2> QED BY <1>5, <2>1, <2>2
<1>8. record_distance(c, X) \in Int
  BY <1>4, <1>5
<1> QED BY <1>6, <1>7, <1>8

\* The holes that are flagged are the holes.
LEMMA HolesAre ==
  ASSUME LedgerInv, Logged, Metered, Held
  PROVE  HolesAreFlagged
<1> DEFINE trace == activity_trace(Fleet)
<1>0. /\ clock \in Nat /\ clock >= 1 /\ recording \in BOOLEAN /\ hole.from \in Nat /\ hole.to \in Nat
      /\ menu.last \in Nat /\ menu.last + RecordTol < Never /\ RecordTol \in Nat
  BY MenusAssumption, SettingsAssumption DEF LedgerInv, Metered
<1>1. \A c \in Landed : c.at \in Nat /\ c.at >= 1 /\ c.at <= clock
  BY <1>0, LandedIs
<1>2. trace \in SUBSET (1..clock)
  BY TraceIs
<1>3. ASSUME NEW c \in Landed, c.kept, c.seat \in Personal PROVE ~(record_distance(c, trace) > RecordTol)
  <2>1. PICK f \in DOMAIN Transcripts : /\ Transcripts[f].seat = c.seat /\ Alive(f)
                                        /\ \E r \in ToSet(files[f]) : r.at = c.at
    BY <1>3 DEF Held
  <2>2. files[f] # <<>>
    BY <2>1 DEF ToSet
  <2>3. c.seat \in Seats
    BY <2>1 DEF Seats
  <2>4. \E g \in session_files({c.seat}) : TRUE
    <3>1. CASE Transcripts[f].sub
      BY <2>1, <2>3, <3>1, MainIs DEF session_files, Alive
    <3>2. CASE ~Transcripts[f].sub
      BY <2>1, <2>2, <3>2 DEF session_files
    <3> QED BY <3>1, <3>2
  <2>5. c.seat \in Fleet
    BY <1>3, <2>4, FleetIs
  <2>6. f \in session_files(Fleet) \cup subagent_files(Fleet)
    BY <2>1, <2>2, <2>5 DEF session_files, subagent_files
  <2>7. c.at \in trace
    BY <2>1, <2>6, TraceIs
  <2> HIDE DEF trace
  <2>8. record_distance(c, trace) <= RecordTol /\ record_distance(c, trace) \in Int
    BY <1>0, <1>1, <1>2, <2>7, DistanceIs
  <2> QED BY <1>0, <2>8
<1>4. ASSUME NEW c \in Landed, ~c.kept, c.at - hole.from > RecordTol, recording => hole.to - c.at > RecordTol
      PROVE  record_distance(c, trace) > RecordTol
  <2>1. ~Whole /\ hole.from <= c.at /\ (recording => c.at <= hole.to)
    BY <1>4 DEF Held
  <2>2. c.at + RecordTol < Never
    <3>1. clock # 1
      BY <1>0, <1>1, <1>4, <2>1 DEF Whole
    <3>2. clock <= menu.last
      BY <3>1 DEF Held
    <3> QED BY <1>0, <1>1, <3>2 DEF Never
  <2>3. \A t \in trace : (t < c.at => c.at - t > RecordTol) /\ (t >= c.at => t - c.at > RecordTol)
    <3> TAKE t \in trace
    <3>1. Recorded(t)
      BY <2>1, TraceIs DEF Held
    <3>2. t \in Nat
      BY <1>2
    <3> HIDE DEF trace
    <3> QED BY <1>0, <1>1, <1>4, <3>1, <3>2 DEF Recorded
  <2> HIDE DEF trace
  <2> QED BY <1>0, <1>1, <1>2, <2>2, <2>3, DistanceIs
<1> QED BY <1>3, <1>4 DEF HolesAreFlagged, unrecorded_commits

----------------------------------------------------------------------------
(* What the acts of the humans left in the record.                         *)

\* The moments of a seat's touches, and of the acts of its humans and of its machines.
TouchedAt(s) == {touch_when(Main(s), r) : r \in {q \in ToSet(files[Main(s)]) : Human(q)}}
ActedAt(as, s) == {Moment(a) : a \in {b \in as : b.seat = s}}
\* The moments of each text in the queue of each seat, and that those who wait are of one each.
QueuedAt == [s \in Seats |-> [text \in Texts |-> enqueues(Main(s), text)]]
QueuedOnce(at, qs) == \A s \in Seats : \A i \in DOMAIN qs[s] : at[s][qs[s][i].text] = {qs[s][i].at}
\* While the record is whole, and no text is typed twice into a seat, the touches are the
\* acts, and what waits was queued at the moment it was typed and at no other.
Told ==
  (Whole /\ menu.distinct) =>
    /\ \A a \in acts : a.seat \in Seats
    /\ \A s \in Seats : TouchedAt(s) = ActedAt(acts, s)
    /\ QueuedOnce(QueuedAt, queued)

\* Nothing was done at the start.
LEMMA InitTold == Init => Told
<1> SUFFICES ASSUME Init PROVE Told
  OBVIOUS
<1>1. acts = {} /\ \A s \in Seats : queued[s] = <<>>
  BY DEF Init
<1>2. \A s \in Seats : ToSet(files[Main(s)]) = {}
  <2> TAKE s \in Seats
  <2>1. Main(s) \in DOMAIN Transcripts
    BY MainIs
  <2> QED BY <2>1 DEF Init, ToSet
<1>3. \A s \in Seats : TouchedAt(s) = {} /\ ActedAt(acts, s) = {}
  BY <1>1, <1>2 DEF TouchedAt, ActedAt
<1>4. \A s \in Seats : DOMAIN queued[s] = {}
  BY <1>1
<1>5. \A s \in Seats : TouchedAt(s) = ActedAt(acts, s)
  BY <1>3
<1> HIDE DEF Init
<1> QED BY <1>1, <1>4, <1>5, Zenon DEF Told, QueuedOnce

\* A record written adds its moment to those queued.
LEMMA EnqueuesMove ==
  ASSUME LedgerInv, NEW f \in DOMAIN Transcripts, NEW rec \in Record, Write(f, rec), recording,
         NEW g \in DOMAIN Transcripts, NEW text
  PROVE  enqueues(g, text)' = enqueues(g, text) \cup
           (IF g = f /\ rec.type = "enqueue" /\ rec.text = text THEN {rec.at} ELSE {})
<1>1. files' = [files EXCEPT ![f] = Append(files[f], rec)]
  BY DEF Write
<1>2. ToSet(files'[g]) = ToSet(files[g]) \cup (IF g = f THEN {rec} ELSE {})
  BY <1>1, AddedIs
<1>3. enqueues(g, text)' = {r.at : r \in {q \in ToSet(files'[g]) : q.type = "enqueue" /\ q.text = text}}
  BY DEF enqueues
<1>4. enqueues(g, text) = {r.at : r \in {q \in ToSet(files[g]) : q.type = "enqueue" /\ q.text = text}}
  BY DEF enqueues
<1> QED BY <1>2, <1>3, <1>4

\* And to those of the touches, when it passes for a human's.
LEMMA TouchedMoves ==
  ASSUME LedgerInv, menu.distinct, Once, [Next]_vars, NEW f \in DOMAIN Transcripts, NEW rec \in Record,
         Write(f, rec), recording, NEW s \in Seats
  PROVE  TouchedAt(s)' = TouchedAt(s) \cup
           (IF f = Main(s) /\ Human(rec) THEN {WhenOf(enqueues(f, rec.text)', rec.at)} ELSE {})
<1> DEFINE m == Main(s)
<1>0. m \in DOMAIN Transcripts
  BY MainIs
<1>1. files' = [files EXCEPT ![f] = Append(files[f], rec)]
  BY DEF Write
<1>2. ToSet(files'[m]) = ToSet(files[m]) \cup (IF m = f THEN {rec} ELSE {})
  BY <1>0, <1>1, AddedIs
<1>3. \A r \in ToSet(files[m]) : Human(r) => touch_when(m, r)' = touch_when(m, r)
  <2> HIDE DEF m
  <2> QED BY <1>0, TouchStays
<1>4. TouchedAt(s)' = {touch_when(m, r)' : r \in {q \in ToSet(files'[m]) : Human(q)}}
  BY DEF TouchedAt, Main
<1>5. TouchedAt(s) = {touch_when(m, r) : r \in {q \in ToSet(files[m]) : Human(q)}}
  BY DEF TouchedAt
<1>6. m = f => touch_when(m, rec)' = WhenOf(enqueues(f, rec.text)', rec.at)
  <2>1. touch_when(m, rec)' = WhenOf(enqueues(m, rec.text)', rec.at)
    BY Zenon DEF touch_when, WhenOf, m
  <2> QED BY <2>1
<1> HIDE DEF m
<1>7. TouchedAt(s)' = TouchedAt(s) \cup (IF m = f /\ Human(rec) THEN {touch_when(m, rec)'} ELSE {})
  BY <1>2, <1>3, <1>4, <1>5
<1> QED BY <1>6, <1>7 DEF m

\* One who writes adds to what was done.
LEMMA ActedMoves ==
  ASSUME NEW as, NEW a, NEW s
  PROVE  ActedAt(as \cup {a}, s) = ActedAt(as, s) \cup (IF a.seat = s THEN {Moment(a)} ELSE {})
BY DEF ActedAt

\* The record once had a hole if it had one before.
LEMMA WholeMoves ==
  ASSUME LedgerInv, [Next]_vars, Whole'
  PROVE  Whole
<1>1. CASE UNCHANGED hole
  BY <1>1 DEF Whole
<1>2. CASE Lose
  BY <1>2, Zenon DEF Lose, Whole
<1>3. CASE Resume
  <2>1. hole' = [hole EXCEPT !.to = clock]
    BY <1>3, Zenon DEF Resume
  <2> QED BY <2>1 DEF Whole
<1>4. ASSUME NEW f, Commit(f) PROVE UNCHANGED hole
  BY <1>4, Zenon DEF Commit
<1> QED BY <1>1, <1>2, <1>3, <1>4, HoleMoves

\* Another record leaves them.
LEMMA EnqueuesStay ==
  ASSUME LedgerInv, NEW f \in DOMAIN Transcripts, NEW rec \in Record, rec.type # "enqueue", Write(f, rec), recording,
         NEW g \in DOMAIN Transcripts, NEW text
  PROVE  enqueues(g, text)' = enqueues(g, text)
<1>1. enqueues(g, text)' = enqueues(g, text) \cup
        (IF g = f /\ rec.type = "enqueue" /\ rec.text = text THEN {rec.at} ELSE {})
  BY EnqueuesMove
<1> QED BY <1>1

\* A record that queues nothing leaves the queued moments alone.
LEMMA QueuedStays ==
  ASSUME LedgerInv, NEW f \in DOMAIN Transcripts, NEW rec \in Record, rec.type # "enqueue", Write(f, rec), recording
  PROVE  QueuedAt' = QueuedAt
<1>1. \A g \in DOMAIN Transcripts : \A text : enqueues(g, text)' = enqueues(g, text)
  BY EnqueuesStay
<1>2. QueuedAt' = [s \in Seats |-> [text \in Texts |-> enqueues(Main(s), text)']]
  BY Zenon DEF QueuedAt, Seats, Texts, Main
<1>3. \A s \in Seats : Main(s) \in DOMAIN Transcripts
  BY MainIs
<1> DEFINE m == [s \in Seats |-> Main(s)]
<1>4. \A s \in Seats : m[s] \in DOMAIN Transcripts
  BY <1>3
<1>5. QueuedAt' = [s \in Seats |-> [text \in Texts |-> enqueues(m[s], text)']]
  BY <1>2
<1>6. QueuedAt = [s \in Seats |-> [text \in Texts |-> enqueues(m[s], text)]]
  BY DEF QueuedAt
<1> HIDE DEF m
<1> QED BY <1>1, <1>4, <1>5, <1>6

\* A record that is a human's of a moment, with no text of it queued but those of E.
LEMMA ToldWith ==
  ASSUME LedgerInv, Once, Metered, Told, [Next]_vars, Whole, menu.distinct,
         NEW s \in Seats, NEW rec \in Record, Human(rec), rec.type = "user", Write(Main(s), rec),
         NEW a, acts' = acts \cup {a}, a.seat = s, WhenOf(enqueues(Main(s), rec.text), rec.at) = Moment(a)
  PROVE  /\ \A b \in acts' : b.seat \in Seats
         /\ \A t \in Seats : TouchedAt(t)' = ActedAt(acts', t)
         /\ QueuedAt' = QueuedAt
<1>0. recording /\ Main(s) \in DOMAIN Transcripts /\ Transcripts[Main(s)].seat = s
  BY MainIs DEF Metered
<1>1. PICK f \in DOMAIN Transcripts : f = Main(s)
  BY <1>0
<1>2. QueuedAt' = QueuedAt
  <2>1. Write(f, rec)
    BY <1>1
  <2> QED BY <1>0, <2>1, QueuedStays
<1>3. \A b \in acts' : b.seat \in Seats
  BY DEF Told
<1>4. ASSUME NEW t \in Seats PROVE TouchedAt(t)' = ActedAt(acts', t)
  <2>1. TouchedAt(t) = ActedAt(acts, t)
    BY DEF Told
  <2>2. TouchedAt(t)' = TouchedAt(t) \cup
          (IF Main(s) = Main(t) /\ Human(rec) THEN {WhenOf(enqueues(Main(s), rec.text)', rec.at)} ELSE {})
    BY <1>0, TouchedMoves
  <2>3. Main(s) = Main(t) <=> s = t
    BY <1>0, MainIs
  <2>4. enqueues(Main(s), rec.text)' = enqueues(Main(s), rec.text)
    <3>1. Write(f, rec) /\ rec.type # "enqueue"
      BY <1>1
    <3>2. enqueues(f, rec.text)' = enqueues(f, rec.text)
      BY <1>0, <3>1, EnqueuesStay
    <3> QED BY <1>1, <3>2
  <2>5. ActedAt(acts', t) = ActedAt(acts, t) \cup (IF a.seat = t THEN {Moment(a)} ELSE {})
    BY ActedMoves
  <2> QED BY <2>1, <2>2, <2>3, <2>4, <2>5
<1> QED BY <1>2, <1>3, <1>4

\* The moment of what was typed or dequeued is that of the act.
LEMMA MomentIs ==
  ASSUME NEW E, NEW at \in Nat, NEW a, (E = {} /\ a.at = at) \/ (E = {a.at} /\ a.at \in Nat /\ a.at <= at), a.read = at
  PROVE  WhenOf(E, at) = Moment(a)
<1>0. MaxShift \in Nat
  BY SettingsAssumption
<1> DEFINE far(t) == IF t > at THEN t - at ELSE at - t
           best == CHOOSE t \in E : \A u \in E : far(t) < far(u) \/ (far(t) = far(u) /\ t <= u)
<1>1. WhenOf(E, at) = IF E # {} /\ best < at /\ at - best < MaxShift THEN best ELSE at
  BY Zenon DEF WhenOf
<1>2. ASSUME E = {a.at}, a.at \in Nat PROVE best = a.at
  <2>1. \A t, u \in E : t = a.at /\ u = a.at
    BY <1>2
  <2>2. far(a.at) = far(a.at) /\ a.at <= a.at
    BY <1>2
  <2> HIDE DEF far
  <2>3. a.at \in E /\ \A u \in E : far(a.at) < far(u) \/ (far(a.at) = far(u) /\ a.at <= u)
    BY <1>2, <2>1, <2>2
  <2>4. best \in E
    BY <2>3
  <2> QED BY <2>1, <2>4
<1> HIDE DEF best
<1>3. CASE E = {} /\ a.at = at
  <2>1. Moment(a) = at
    BY <1>3 DEF Moment
  <2> QED BY <1>1, <1>3, <2>1
<1>4. CASE E = {a.at} /\ a.at \in Nat /\ a.at <= at
  <2>1. best = a.at /\ E # {}
    BY <1>2, <1>4
  <2>2. WhenOf(E, at) = IF a.at < at /\ at - a.at < MaxShift THEN a.at ELSE at
    BY <1>1, <2>1
  <2>3. Moment(a) = IF at - a.at < MaxShift THEN a.at ELSE at
    BY DEF Moment
  <2>4. a.at < at \/ a.at = at
    BY <1>4
  <2> QED BY <1>4, <2>2, <2>3, <2>4
<1> QED BY <1>3, <1>4

\* A record that is no human's leaves the touches.
LEMMA ToldStays ==
  ASSUME LedgerInv, Once, Metered, Told, [Next]_vars, Whole, menu.distinct, acts' = acts,
         NEW f \in DOMAIN Transcripts, NEW rec \in Record, ~Human(rec), Write(f, rec)
  PROVE  /\ \A b \in acts' : b.seat \in Seats
         /\ \A t \in Seats : TouchedAt(t)' = ActedAt(acts', t)
<1>0. recording
  BY DEF Metered
<1>1. \A b \in acts' : b.seat \in Seats
  BY DEF Told
<1>2. \A t \in Seats : TouchedAt(t)' = ActedAt(acts', t)
  <2> TAKE t \in Seats
  <2>1. TouchedAt(t) = ActedAt(acts, t)
    BY DEF Told
  <2>2. TouchedAt(t)' = TouchedAt(t) \cup
          (IF f = Main(t) /\ Human(rec) THEN {WhenOf(enqueues(f, rec.text)', rec.at)} ELSE {})
    BY <1>0, TouchedMoves
  <2> QED BY <2>1, <2>2
<1> QED BY <1>1, <1>2

\* No record of the queue is of a text that has not arrived.
LEMMA NoneQueued ==
  ASSUME Once, menu.distinct, NEW s \in Seats, NEW text, text = "none" \/ <<s, text>> \notin Arrived
  PROVE  enqueues(Main(s), text) = {}
<1>1. Main(s) \in DOMAIN Transcripts /\ Transcripts[Main(s)].seat = s
  BY MainIs
<1>2. \A r \in ToSet(files[Main(s)]) : ~(r.type = "enqueue" /\ r.text = text)
  BY <1>1 DEF Once, Traced
<1> QED BY <1>2 DEF enqueues

\* A record of the queue adds its moment to those of its text.
LEMMA QueuedAdds ==
  ASSUME LedgerInv, NEW s \in Seats, NEW rec \in Record, rec.type = "enqueue", Write(Main(s), rec), recording
  PROVE  \A t \in Seats, x \in Texts :
           QueuedAt'[t][x] = QueuedAt[t][x] \cup (IF t = s /\ x = rec.text THEN {rec.at} ELSE {})
<1>0. \A t \in Seats : Main(t) \in DOMAIN Transcripts /\ Transcripts[Main(t)].seat = t
  BY MainIs
<1>1. PICK f \in DOMAIN Transcripts : f = Main(s)
  BY <1>0
<1>2. Write(f, rec)
  BY <1>1
<1>3. \A g \in DOMAIN Transcripts : \A x : enqueues(g, x)' = enqueues(g, x) \cup (IF g = f /\ x = rec.text THEN {rec.at} ELSE {})
  <2> TAKE g \in DOMAIN Transcripts
  <2> TAKE x
  <2>1. enqueues(g, x)' = enqueues(g, x) \cup
          (IF g = f /\ rec.type = "enqueue" /\ rec.text = x THEN {rec.at} ELSE {})
    BY <1>2, EnqueuesMove
  <2> QED BY <2>1
<1>4. QueuedAt' = [t \in Seats |-> [x \in Texts |-> enqueues(Main(t), x)']]
  BY Zenon DEF QueuedAt, Seats, Texts, Main
<1> DEFINE m == [t \in Seats |-> Main(t)]
<1>5. \A t \in Seats : m[t] \in DOMAIN Transcripts /\ (m[t] = f <=> t = s)
  BY <1>0, <1>1
<1>6. QueuedAt' = [t \in Seats |-> [x \in Texts |-> enqueues(m[t], x)']]
  BY <1>4
<1>7. QueuedAt = [t \in Seats |-> [x \in Texts |-> enqueues(m[t], x)]]
  BY DEF QueuedAt
<1> HIDE DEF m
<1>8. \A t \in Seats, x \in Texts : QueuedAt'[t][x] = enqueues(m[t], x)' /\ QueuedAt[t][x] = enqueues(m[t], x)
  BY <1>6, <1>7
<1> QED BY <1>3, <1>5, <1>8

\* A text reaches a seat that it had not reached.
LEMMA ReachTold ==
  ASSUME LedgerInv, Once, Metered, Told, [Next]_vars, Whole, menu.distinct,
         NEW s \in Seats, NEW text \in Sayings, NEW machine \in BOOLEAN, Reach(s, text, machine), <<s, text>> \notin Arrived
  PROVE  Told'
<1> DEFINE m == Main(s)
<1>0. /\ recording /\ clock \in Nat /\ text \in Texts /\ queued \in [Seats -> Seq(Item)]
      /\ QueuedAt[s][text] = {} /\ enqueues(Main(s), text) = {}
      /\ \A b \in acts : b.seat \in Seats
      /\ \A t \in Seats : TouchedAt(t) = ActedAt(acts, t)
      /\ QueuedOnce(QueuedAt, queued)
  <2>1. text \in Texts
    BY DEF Sayings
  <2>2. enqueues(Main(s), text) = {}
    BY NoneQueued
  <2>3. QueuedAt[s][text] = {}
    BY <2>1, <2>2 DEF QueuedAt
  <2>4. clock \in Nat /\ queued \in [Seats -> Seq(Item)]
    BY DEF LedgerInv, Queues
  <2>5. recording
    BY DEF Metered
  <2>6. /\ \A b \in acts : b.seat \in Seats
        /\ \A t \in Seats : TouchedAt(t) = ActedAt(acts, t)
        /\ QueuedOnce(QueuedAt, queued)
    BY DEF Told
  <2> QED BY <2>1, <2>2, <2>3, <2>4, <2>5, <2>6
<1>1. CASE s \in busy
  <2> DEFINE rec == [Blank EXCEPT !.type = "enqueue", !.text = text]
             item == [text |-> text, at |-> clock, machine |-> machine]
             new == Append(queued[s], item)
  <2>1. Write(Main(s), rec) /\ queued' = [queued EXCEPT ![s] = Append(queued[s], item)] /\ acts' = acts
    BY <1>1 DEF Reach
  <2>2. rec \in Record /\ rec.text = text /\ rec.type = "enqueue" /\ rec.at = clock
    BY <1>0, BlankIs DEF Record
  <2>3. item \in Item /\ item.text = text /\ item.at = clock
    BY <1>0 DEF Item
  <2> HIDE DEF rec, item
  <2>4. ~Human(rec)
    BY <2>2 DEF Human
  <2>5. /\ \A b \in acts' : b.seat \in Seats
        /\ \A t \in Seats : TouchedAt(t)' = ActedAt(acts', t)
    <3>1. Main(s) \in DOMAIN Transcripts
      BY MainIs
    <3> QED BY <2>1, <2>2, <2>4, <3>1, ToldStays
  <2>6. \A t \in Seats, x \in Texts :
          QueuedAt'[t][x] = QueuedAt[t][x] \cup (IF t = s /\ x = text THEN {clock} ELSE {})
    BY <1>0, <2>1, <2>2, QueuedAdds
  <2>7. /\ DOMAIN new = DOMAIN queued[s] \cup {Len(queued[s]) + 1}
        /\ \A i \in DOMAIN queued[s] : new[i] = queued[s][i]
        /\ new[Len(queued[s]) + 1] = item
    BY <1>0, <2>3, Appended
  <2>8. \A t \in Seats : queued'[t] = IF t = s THEN new ELSE queued[t]
    BY <1>0, <2>1
  <2> HIDE DEF new
  <2>9. ASSUME NEW t \in Seats, NEW i \in DOMAIN queued[t] PROVE QueuedAt'[t][queued[t][i].text] = {queued[t][i].at}
    <3>1. queued[t][i].text \in Sayings /\ <<t, queued[t][i].text>> \in Arrived
      BY DEF Once, Waits
    <3>2. ~(t = s /\ queued[t][i].text = text) /\ queued[t][i].text \in Texts
      BY <3>1 DEF Sayings
    <3>3. QueuedAt[t][queued[t][i].text] = {queued[t][i].at}
      BY <1>0 DEF QueuedOnce
    <3> QED BY <2>6, <3>2, <3>3
  <2>10. QueuedAt'[s][item.text] = {item.at}
    BY <1>0, <2>3, <2>6
  <2>11. QueuedOnce(QueuedAt', queued')
    BY <2>7, <2>8, <2>9, <2>10 DEF QueuedOnce
  <2> QED BY <2>5, <2>11 DEF Told
<1>2. CASE s \notin busy
  <2> DEFINE rec == HumanRecord("typed", text)
             a == [seat |-> s, at |-> clock, read |-> clock, text |-> text]
  <2>1. Write(Main(s), rec) /\ queued' = queued /\ acts' = acts \cup {a}
    BY <1>2 DEF Reach
  <2>2. rec \in Record /\ rec.text = text /\ rec.type = "user" /\ rec.at = clock /\ Human(rec)
    BY <1>0, TypedPasses
  <2>3. a.seat = s /\ a.at = clock /\ a.read = clock
    OBVIOUS
  <2> HIDE DEF rec, a
  <2>4. WhenOf(enqueues(Main(s), rec.text), rec.at) = Moment(a)
    BY <1>0, <2>2, <2>3, MomentIs
  <2>5. /\ \A b \in acts' : b.seat \in Seats
        /\ \A t \in Seats : TouchedAt(t)' = ActedAt(acts', t)
        /\ QueuedAt' = QueuedAt
    BY <2>1, <2>2, <2>3, <2>4, ToldWith
  <2>6. QueuedOnce(QueuedAt', queued')
    BY <1>0, <2>1, <2>5
  <2> QED BY <2>5, <2>6 DEF Told
<1> QED BY <1>1, <1>2

\* Nothing is written.
LEMMA ToldIdle ==
  ASSUME LedgerInv, Once, Told, [Next]_vars, Whole, menu.distinct, UNCHANGED <<files, queued, acts>>
  PROVE  Told'
<1>1. \A s \in Seats : TouchedAt(s)' = TouchedAt(s)
  <2> TAKE s \in Seats
  <2> DEFINE m == Main(s)
  <2>1. m \in DOMAIN Transcripts
    BY MainIs
  <2>2. TouchedAt(s)' = {touch_when(m, r)' : r \in {q \in ToSet(files'[m]) : Human(q)}}
    BY DEF TouchedAt, Main
  <2>3. TouchedAt(s) = {touch_when(m, r) : r \in {q \in ToSet(files[m]) : Human(q)}}
    BY DEF TouchedAt
  <2>4. \A r \in ToSet(files[m]) : Human(r) => touch_when(m, r)' = touch_when(m, r)
    <3> HIDE DEF m
    <3> QED BY <2>1, TouchStays
  <2> HIDE DEF m
  <2> QED BY <2>2, <2>3, <2>4
<1>2. QueuedAt' = QueuedAt
  <2>1. \A g, x : enqueues(g, x)' = enqueues(g, x)
    BY DEF enqueues
  <2>2. QueuedAt' = [t \in Seats |-> [x \in Texts |-> enqueues(Main(t), x)']]
    BY Zenon DEF QueuedAt, Seats, Texts, Main
  <2> DEFINE m == [t \in Seats |-> Main(t)]
  <2>3. QueuedAt' = [t \in Seats |-> [x \in Texts |-> enqueues(m[t], x)']]
    BY <2>2
  <2>4. QueuedAt = [t \in Seats |-> [x \in Texts |-> enqueues(m[t], x)]]
    BY DEF QueuedAt
  <2> HIDE DEF m
  <2> QED BY <2>1, <2>3, <2>4
<1>3. /\ \A b \in acts : b.seat \in Seats
      /\ \A t \in Seats : TouchedAt(t) = ActedAt(acts, t)
      /\ QueuedOnce(QueuedAt, queued)
  BY DEF Told
<1>4. /\ \A b \in acts' : b.seat \in Seats
      /\ \A t \in Seats : TouchedAt(t)' = ActedAt(acts', t)
      /\ QueuedOnce(QueuedAt', queued')
  BY <1>1, <1>2, <1>3
<1> QED BY <1>4 DEF Told

\* Every step keeps the touches and the acts together.
LEMMA ToldKeeps ==
  ASSUME LedgerInv, Once, Metered, Told, [Next]_vars
  PROVE  Told'
<1>0. SUFFICES ASSUME Whole, menu.distinct PROVE Told'
  <2>1. menu' = menu
    BY MovesAre
  <2>2. Whole' => Whole
    BY WholeMoves
  <2> QED BY <2>1, <2>2 DEF Told
<1>1. /\ recording /\ clock \in Nat /\ queued \in [Seats -> Seq(Item)] /\ QueuedOnce(QueuedAt, queued)
  BY <1>0 DEF Metered, LedgerInv, Queues, Told
<1>2. CASE Idles
  <2>1. UNCHANGED <<files, queued, acts>>
    BY <1>2, Zenon DEF Idles
  <2> QED BY <1>0, <2>1, ToldIdle
<1>3. ASSUME NEW f \in DOMAIN Transcripts, NEW rec \in Record, Mechanical(rec), Write(f, rec), queued' = queued, acts' = acts
      PROVE  Told'
  <2>1. rec.type # "enqueue" /\ ~Human(rec)
    BY <1>3 DEF Mechanical
  <2>2. QueuedAt' = QueuedAt
    BY <1>1, <1>3, <2>1, QueuedStays
  <2>3. /\ \A b \in acts' : b.seat \in Seats
        /\ \A t \in Seats : TouchedAt(t)' = ActedAt(acts', t)
    BY <1>0, <1>3, <2>1, ToldStays
  <2>4. QueuedOnce(QueuedAt', queued')
    BY <1>1, <1>3, <2>2
  <2> QED BY <2>3, <2>4 DEF Told
<1>4. CASE WritesPlain
  BY <1>3, <1>4, Zenon DEF WritesPlain
<1>5. CASE Sends
  BY <1>3, <1>5, Zenon DEF Sends
<1>6. CASE Touches
  <2>1. PICK s \in Seats, rec \in Record :
          /\ rec.at = clock /\ rec.text = "none" /\ rec.type = "user" /\ Human(rec)
          /\ Write(Main(s), rec) /\ queued' = queued
          /\ acts' = acts \cup {[seat |-> s, at |-> clock, read |-> clock, text |-> "none"]}
    BY <1>6, Zenon DEF Touches
  <2> DEFINE a == [seat |-> s, at |-> clock, read |-> clock, text |-> "none"]
  <2>2. a.seat = s /\ a.at = clock /\ a.read = clock /\ acts' = acts \cup {a}
    BY <2>1
  <2>3. enqueues(Main(s), rec.text) = {}
    BY <1>0, <2>1, NoneQueued
  <2> HIDE DEF a
  <2>4. WhenOf(enqueues(Main(s), rec.text), rec.at) = Moment(a)
    BY <1>1, <2>1, <2>2, <2>3, MomentIs
  <2>5. /\ \A b \in acts' : b.seat \in Seats
        /\ \A t \in Seats : TouchedAt(t)' = ActedAt(acts', t)
        /\ QueuedAt' = QueuedAt
    BY <1>0, <2>1, <2>2, <2>4, ToldWith
  <2>6. QueuedOnce(QueuedAt', queued')
    BY <1>1, <2>1, <2>5
  <2> QED BY <2>5, <2>6 DEF Told
<1>7. CASE Types
  <2>1. PICK s \in Seats, text \in Sayings : Fresh(s, text) /\ Reach(s, text, FALSE)
    BY <1>7, Zenon DEF Types
  <2>2. <<s, text>> \notin Arrived
    BY <1>0, <2>1 DEF Fresh, Arrived
  <2> QED BY <1>0, <2>1, <2>2, ReachTold
<1>8. CASE Delivers
  <2>1. PICK s \in Seats, text \in Sayings : <<s, text>> \in wire /\ Reach(s, text, TRUE)
    BY <1>8, Zenon DEF Delivers
  <2>2. <<s, text>> \notin Arrived
    BY <2>1 DEF Arrived
  <2> QED BY <1>0, <2>1, <2>2, ReachTold
<1>9. CASE Dequeues
  <2>1. PICK s \in Seats : Dequeue(s)
    BY <1>9 DEF Dequeues
  <2> DEFINE item == Head(queued[s])
             rec == HumanRecord("typed", item.text)
             a == [seat |-> s, at |-> item.at, read |-> clock, text |-> item.text]
  <2>2. /\ queued[s] # <<>> /\ Write(Main(s), rec) /\ queued' = [queued EXCEPT ![s] = Tail(queued[s])]
        /\ acts' = acts \cup {a}
    BY <2>1, Zenon DEF Dequeue
  <2>3. /\ item \in Item /\ item = queued[s][1] /\ 1 \in DOMAIN queued[s]
        /\ \A i \in DOMAIN Tail(queued[s]) : i + 1 \in DOMAIN queued[s] /\ Tail(queued[s])[i] = queued[s][i + 1]
    BY <1>1, <2>2, Split
  <2>4. a.seat = s /\ a.at = item.at /\ a.read = clock
    OBVIOUS
  <2> HIDE DEF a, item
  <2>5. item.text \in Texts /\ item.at \in Nat
    BY <2>3 DEF Item
  <2>6. rec \in Record /\ rec.text = item.text /\ rec.type = "user" /\ rec.at = clock /\ Human(rec)
    BY <2>5, TypedPasses
  <2> HIDE DEF rec
  <2>7. enqueues(Main(s), item.text) = {item.at}
    <3>1. QueuedAt[s][item.text] = {item.at}
      BY <1>1, <2>3 DEF QueuedOnce
    <3> QED BY <2>5, <3>1 DEF QueuedAt
  <2>8. item.at <= clock
    <3>1. Main(s) \in DOMAIN Transcripts
      BY MainIs
    <3>2. enqueues(Main(s), item.text) \in SUBSET (1..clock)
      BY <3>1, EnqueuesAre
    <3> QED BY <2>7, <3>2
  <2>9. WhenOf(enqueues(Main(s), rec.text), rec.at) = Moment(a)
    BY <1>1, <2>4, <2>5, <2>6, <2>7, <2>8, MomentIs
  <2>10. /\ \A b \in acts' : b.seat \in Seats
         /\ \A t \in Seats : TouchedAt(t)' = ActedAt(acts', t)
         /\ QueuedAt' = QueuedAt
    BY <1>0, <2>2, <2>4, <2>6, <2>9, ToldWith
  <2>11. QueuedOnce(QueuedAt', queued')
    <3>1. \A t \in Seats : queued'[t] = IF t = s THEN Tail(queued[s]) ELSE queued[t]
      BY <1>1, <2>2
    <3>2. QueuedOnce(QueuedAt, queued')
      <4>1. \A t \in Seats : \A i \in DOMAIN queued[t] : QueuedAt[t][queued[t][i].text] = {queued[t][i].at}
        BY <1>1 DEF QueuedOnce
      <4>2. \A i \in DOMAIN Tail(queued[s]) : QueuedAt[s][Tail(queued[s])[i].text] = {Tail(queued[s])[i].at}
        <5> DEFINE new == Tail(queued[s])
        <5>1. \A i \in DOMAIN new : i + 1 \in DOMAIN queued[s] /\ new[i] = queued[s][i + 1]
          BY <2>3
        <5> HIDE DEF new
        <5>2. \A i \in DOMAIN new : QueuedAt[s][new[i].text] = {new[i].at}
          <6> TAKE i \in DOMAIN new
          <6>1. QueuedAt[s][queued[s][i + 1].text] = {queued[s][i + 1].at}
            BY <4>1, <5>1
          <6> QED BY <5>1, <6>1
        <5> QED BY <5>2 DEF new
      <4>3. \A t \in Seats : \A i \in DOMAIN queued'[t] : QueuedAt[t][queued'[t][i].text] = {queued'[t][i].at}
        <5> TAKE t \in Seats
        <5>1. CASE t = s
          BY <3>1, <4>2, <5>1
        <5>2. CASE t # s
          BY <3>1, <4>1, <5>2
        <5> QED BY <5>1, <5>2
      <4> QED BY <4>3 DEF QueuedOnce
    <3> QED BY <2>10, <3>2
  <2> QED BY <2>10, <2>11 DEF Told
<1> QED BY <1>2, <1>4, <1>5, <1>6, <1>7, <1>8, <1>9, MovesAre

\* What the ledger counts as human presence is what the humans did.
LEMMA PresenceIsTrue ==
  ASSUME LedgerInv, Once, Told, Whole, menu.distinct
  PROVE  Presence = TrueMoments
<1>0. /\ \A b \in acts : b.seat \in Seats
      /\ \A t \in Seats : TouchedAt(t) = ActedAt(acts, t)
  BY DEF Told
<1>1. ASSUME NEW x \in Presence PROVE x \in TrueMoments
  <2>1. PICK f \in session_files(Fleet) : x \in {touch_when(f, r) : r \in {q \in ToSet(files[f]) : Human(q)}}
    BY PresenceIs
  <2>2. PICK r \in ToSet(files[f]) : Human(r) /\ x = touch_when(f, r)
    BY <2>1
  <2>3. f \in DOMAIN Transcripts /\ Transcripts[f].seat \in Personal
    BY SessionsAre
  <2>4. f = Main(Transcripts[f].seat) /\ Transcripts[f].seat \in Seats
    BY <2>2, <2>3 DEF Once, Traced, Seats
  <2>5. x \in TouchedAt(Transcripts[f].seat)
    BY <2>2, <2>4 DEF TouchedAt
  <2>6. x \in ActedAt(acts, Transcripts[f].seat)
    BY <1>0, <2>4, <2>5
  <2> QED BY <2>3, <2>6 DEF ActedAt, TrueMoments
<1>2. ASSUME NEW a \in acts, a.seat \in Personal PROVE Moment(a) \in Presence
  <2>1. a.seat \in Seats /\ Moment(a) \in ActedAt(acts, a.seat)
    BY <1>0 DEF ActedAt
  <2>2. Moment(a) \in TouchedAt(a.seat)
    BY <1>0, <2>1
  <2>3. PICK r \in ToSet(files[Main(a.seat)]) : Human(r) /\ Moment(a) = touch_when(Main(a.seat), r)
    BY <2>2 DEF TouchedAt
  <2>4. Main(a.seat) \in session_files(Fleet)
    <3>1. files[Main(a.seat)] # <<>>
      BY <2>3 DEF ToSet
    <3> QED BY <1>2, <2>1, <3>1, MainIs, SessionsAre
  <2> QED BY <2>3, <2>4, PresenceIs
<1> QED BY <1>1, <1>2 DEF TrueMoments

----------------------------------------------------------------------------
(* The silences.                                                           *)

\* The window of a commit that was observed: from the last touch before it, or the start,
\* to the first after it, or now.
Framed(X, start, at, w) ==
  /\ w.observed /\ w.prev \in Nat /\ w.prev >= 1 /\ w.nxt \in Nat
  /\ w.prev <= at /\ at <= w.nxt /\ w.nxt <= clock
  /\ \A t \in X : (t <= at => t <= w.prev) /\ (t > at => w.nxt <= t)
  /\ w.prev \in X \/ (w.prev = start /\ \A t \in X : t > at)
  /\ (w.nxt \in X /\ w.nxt > at) \/ (w.nxt = clock /\ \A t \in X : t <= at)
  /\ length_s(w) = w.nxt - w.prev /\ length_s(w) \in Nat

\* The window of a commit is framed by the touches about it.
LEMMA WindowIs ==
  ASSUME clock \in Nat, NEW X \in SUBSET (1..clock), NEW start \in Nat, start >= 1,
         NEW c, c.at \in Nat, start <= c.at, c.at <= clock
  PROVE  Framed(X, start, c.at, enclosing_window(c, X, start))
<1> DEFINE L == {t \in X : t <= c.at}  R == {t \in X : t > c.at}
           w == enclosing_window(c, X, start)
<1>1. w.prev = Latest(L, start) /\ w.nxt = Earliest(R, clock) /\ w.observed
  BY DEF enclosing_window
<1>2. (w.prev = start /\ L = {}) \/ (w.prev \in L /\ \A y \in L : w.prev >= y)
  <2>1. CASE L = {}
    BY <1>1, <2>1 DEF Latest
  <2>2. CASE L # {}
    <3>1. L \in SUBSET (1..clock)
      OBVIOUS
    <3> HIDE DEF L, w
    <3>2. Latest(L, start) \in L /\ \A y \in L : Latest(L, start) >= y
      BY <2>2, <3>1, LatestIs
    <3> QED BY <1>1, <3>2
  <2> QED BY <2>1, <2>2
<1>3. (w.nxt = clock /\ R = {}) \/ (w.nxt \in R /\ \A y \in R : w.nxt <= y)
  <2>1. CASE R = {}
    BY <1>1, <2>1 DEF Earliest
  <2>2. CASE R # {}
    <3>1. R \in SUBSET (1..clock)
      OBVIOUS
    <3> HIDE DEF R, w
    <3>2. Earliest(R, clock) \in R /\ \A y \in R : Earliest(R, clock) <= y
      BY <2>2, <3>1, LatestIs
    <3> QED BY <1>1, <3>2
  <2> QED BY <2>1, <2>2
<1> HIDE DEF w
<1>4. /\ \A t \in L : t \in X /\ t <= c.at /\ t \in Nat /\ t >= 1
      /\ \A t \in R : t \in X /\ t > c.at /\ t \in Nat /\ t <= clock
      /\ \A t \in X : t \in Nat /\ (t <= c.at => t \in L) /\ (t > c.at => t \in R)
  OBVIOUS
<1> HIDE DEF L, R
<1>5. w.prev \in Nat /\ w.prev >= 1 /\ w.prev <= c.at
  BY <1>2, <1>4
<1>6. w.nxt \in Nat /\ c.at <= w.nxt /\ w.nxt <= clock
  <2>1. CASE w.nxt = clock
    BY <2>1
  <2>2. CASE w.nxt \in R
    <3>1. w.nxt \in Nat /\ w.nxt > c.at /\ w.nxt <= clock
      BY <1>4, <2>2
    <3> QED BY <3>1
  <2> QED BY <1>3, <2>1, <2>2
<1>7. \A t \in X : (t <= c.at => t <= w.prev) /\ (t > c.at => w.nxt <= t)
  <2> TAKE t \in X
  <2>1. t \in Nat /\ (t \in L => t <= w.prev)
    BY <1>2, <1>4, <1>5
  <2>2. t \in R => w.nxt <= t
    BY <1>3
  <2> QED BY <1>4, <2>1, <2>2
<1>8. w.prev \in X \/ (w.prev = start /\ \A t \in X : t > c.at)
  <2>1. CASE w.prev = start /\ L = {}
    <3>1. \A t \in X : t \in Nat /\ ~(t <= c.at)
      BY <1>4, <2>1
    <3>2. \A t \in X : t > c.at
      BY <3>1
    <3> QED BY <2>1, <3>2
  <2> QED BY <1>2, <1>4, <2>1
<1>9. (w.nxt \in X /\ w.nxt > c.at) \/ (w.nxt = clock /\ \A t \in X : t <= c.at)
  <2>1. CASE w.nxt = clock /\ R = {}
    <3>1. \A t \in X : t \in Nat /\ ~(t > c.at)
      BY <1>4, <2>1
    <3>2. \A t \in X : t <= c.at
      BY <3>1
    <3> QED BY <2>1, <3>2
  <2> QED BY <1>3, <1>4, <2>1
<1>10. length_s(w) = w.nxt - w.prev /\ length_s(w) \in Nat
  <2>1. w.nxt >= w.prev
    BY <1>5, <1>6
  <2>2. w.nxt > w.prev \/ w.nxt - w.prev = 0
    BY <1>5, <1>6, <2>1
  <2>3. length_s(w) = IF w.nxt > w.prev THEN w.nxt - w.prev ELSE 0
    BY DEF length_s
  <2> QED BY <1>5, <1>6, <2>2, <2>3
<1>11. w.observed
  BY <1>1
<1>12. Framed(X, start, c.at, w)
  BY <1>5, <1>6, <1>7, <1>8, <1>9, <1>10, <1>11, Zenon DEF Framed
<1> QED BY <1>12 DEF w

\* A stretch of time with no touch in it.
Quiet(X, from, to) == \A t \in X : ~(from < t /\ t <= to)

\* Within a silence of h there are h in which a commit landed and no one touched anything.
LEMMA SilenceIs ==
  ASSUME clock \in Nat, NEW X \in SUBSET (1..clock), NEW start, NEW at \in Nat, NEW w, Framed(X, start, at, w),
         NEW h \in Nat, h >= 1, length_s(w) >= h
  PROVE  \E from \in 1..at : from + h <= clock /\ at <= from + h /\ Quiet(X, from, from + h - 1)
<1>1. /\ w.prev \in Nat /\ w.prev >= 1 /\ w.nxt \in Nat /\ w.prev <= at /\ at <= w.nxt /\ w.nxt <= clock
      /\ \A t \in X : (t <= at => t <= w.prev) /\ (t > at => w.nxt <= t)
      /\ w.nxt - w.prev >= h
  BY DEF Framed
<1>2. \A t \in X : t \in Nat
  OBVIOUS
<1> DEFINE p == w.prev  n == w.nxt
<1>3. /\ p \in Nat /\ p >= 1 /\ n \in Nat /\ p <= at /\ at <= n /\ n <= clock /\ n - p >= h
      /\ \A t \in X : (t <= at => t <= p) /\ (t > at => n <= t)
  BY <1>1
<1> HIDE DEF p, n
<1>4. CASE at <= p + h
  <2>1. p \in 1..at /\ p + h <= clock
    BY <1>3
  <2>2. Quiet(X, p, p + h - 1)
    <3>1. SUFFICES ASSUME NEW t \in X, p < t, t <= p + h - 1 PROVE FALSE
      BY DEF Quiet
    <3>2. t \in Nat /\ ~(t <= at)
      BY <1>2, <1>3, <3>1
    <3>3. n <= t
      BY <1>3, <3>2
    <3> QED BY <1>3, <3>1, <3>2, <3>3
  <2> QED BY <1>4, <2>1, <2>2
<1>5. CASE ~(at <= p + h)
  <2>1. at - h \in 1..at /\ at - h + h <= clock /\ at <= at - h + h /\ at - h > p
    BY <1>3, <1>5
  <2>2. Quiet(X, at - h, at - h + h - 1)
    <3>1. SUFFICES ASSUME NEW t \in X, at - h < t, t <= at - h + h - 1 PROVE FALSE
      BY DEF Quiet
    <3>2. t \in Nat /\ t <= at
      BY <1>2, <3>1
    <3>3. t <= p
      BY <1>3, <3>2
    <3> QED BY <1>3, <2>1, <3>1, <3>2, <3>3
  <2> QED BY <2>1, <2>2
<1> QED BY <1>4, <1>5

\* Two commits are in one window if no one touched anything between them.
LEMMA SameWindow ==
  ASSUME clock \in Nat, NEW X \in SUBSET (1..clock), NEW start \in Nat, start >= 1,
         NEW c, c.at \in Nat, start <= c.at, NEW d, d.at \in Nat, c.at <= d.at, d.at <= clock
  PROVE  enclosing_window(c, X, start) = enclosing_window(d, X, start) <=> Quiet(X, c.at, d.at)
<1>0. \A t \in X : t \in Nat
  OBVIOUS
<1>1. ASSUME Quiet(X, c.at, d.at) PROVE enclosing_window(c, X, start) = enclosing_window(d, X, start)
  <2>1. \A t \in X : t <= c.at <=> t <= d.at
    BY <1>0, <1>1 DEF Quiet
  <2>2. \A t \in X : t > c.at <=> t > d.at
    BY <1>0, <2>1
  <2>3. {t \in X : t <= c.at} = {t \in X : t <= d.at} /\ {t \in X : t > c.at} = {t \in X : t > d.at}
    BY <2>1, <2>2
  <2>4. (start <= c.at) = (start <= d.at)
    OBVIOUS
  <2>5. (\A t \in X : t > c.at) = (\A t \in X : t > d.at) /\ (\A t \in X : t <= c.at) = (\A t \in X : t <= d.at)
    BY <2>1, <2>2
  <2> QED BY <2>3, <2>4, <2>5, Zenon DEF enclosing_window
<1>2. ASSUME enclosing_window(c, X, start) = enclosing_window(d, X, start), NEW t \in X, c.at < t, t <= d.at PROVE FALSE
  <2>1. start <= d.at /\ c.at <= clock
    OBVIOUS
  <2>2. Framed(X, start, c.at, enclosing_window(c, X, start)) /\ Framed(X, start, d.at, enclosing_window(d, X, start))
    BY <2>1, WindowIs
  <2> DEFINE w == enclosing_window(c, X, start)
  <2>3. Framed(X, start, c.at, w) /\ Framed(X, start, d.at, w)
    BY <1>2, <2>2
  <2> HIDE DEF w
  <2>4. w.prev \in Nat /\ w.prev <= c.at /\ t <= w.prev /\ t \in Nat
    BY <1>0, <1>2, <2>3 DEF Framed
  <2> QED BY <1>2, <2>4
<1> QED BY <1>1, <1>2 DEF Quiet

\* Commits in the order of their moments.
Lined(cs) ==
  /\ Len(cs) \in Nat /\ DOMAIN cs = 1..Len(cs)
  /\ \A i \in DOMAIN cs : cs[i].at \in Nat
  /\ \A i, j \in DOMAIN cs : i < j => cs[i].at <= cs[j].at
Unbroken(cs, X, i, k) == \A j \in i..(k - 1) : ~Broken(cs, j, X)

\* A run has no touch in it.
LEMMA UnbrokenIs ==
  ASSUME NEW cs, Lined(cs), NEW X \in SUBSET Nat, NEW i \in DOMAIN cs, NEW k \in DOMAIN cs, i <= k
  PROVE  Unbroken(cs, X, i, k) <=> Quiet(X, cs[i].at, cs[k].at)
<1>0. /\ DOMAIN cs = 1..Len(cs) /\ Len(cs) \in Nat /\ i \in Nat /\ k \in Nat /\ i >= 1
      /\ \A m \in DOMAIN cs : cs[m].at \in Nat
      /\ \A m, n \in DOMAIN cs : m < n => cs[m].at <= cs[n].at
  BY DEF Lined
<1>1. \A m, n \in DOMAIN cs : m <= n => cs[m].at <= cs[n].at
  <2> TAKE m, n \in DOMAIN cs
  <2> HAVE m <= n
  <2>1. m < n \/ m = n
    BY <1>0
  <2>2. cs[m].at \in Nat
    BY <1>0
  <2> QED BY <1>0, <2>1, <2>2
<1>2. ASSUME Quiet(X, cs[i].at, cs[k].at), NEW j \in i..(k - 1), Broken(cs, j, X) PROVE FALSE
  <2>1. j \in DOMAIN cs /\ j + 1 \in DOMAIN cs /\ i <= j /\ j + 1 <= k
    BY <1>0
  <2>2. PICK t \in X : cs[j].at < t /\ t <= cs[j + 1].at
    BY <1>2 DEF Broken
  <2>3. cs[i].at <= cs[j].at /\ cs[j + 1].at <= cs[k].at
    BY <1>1, <2>1
  <2>4. cs[i].at \in Nat /\ cs[j].at \in Nat /\ cs[j + 1].at \in Nat /\ cs[k].at \in Nat /\ t \in Nat
    BY <1>0, <2>1
  <2>5. cs[i].at < t /\ t <= cs[k].at
    BY <2>2, <2>3, <2>4
  <2> QED BY <1>2, <2>5 DEF Quiet
<1>3. ASSUME Unbroken(cs, X, i, k), NEW t \in X, cs[i].at < t, t <= cs[k].at PROVE FALSE
  <2> DEFINE T == {m \in i..k : t <= cs[m].at}
  <2>1. T \in SUBSET Nat /\ k \in T
    BY <1>0, <1>3
  <2>2. PICK m \in T : \A n \in T : m <= n
    <3> HIDE DEF T
    <3> QED BY <2>1, LeastOf
  <2>3. m \in i..k /\ t <= cs[m].at /\ t \in Nat
    OBVIOUS
  <2>4. m # i
    BY <1>0, <1>3, <2>3
  <2>5. m - 1 \in i..(k - 1) /\ m - 1 \in i..k /\ m - 1 + 1 = m /\ m - 1 \in DOMAIN cs
    BY <1>0, <2>3, <2>4
  <2>6. m - 1 \notin T
    BY <2>2, <2>3, <1>0
  <2>7. ~(t <= cs[m - 1].at)
    BY <2>5, <2>6
  <2>8. cs[m - 1].at < t
    BY <1>0, <2>3, <2>5, <2>7
  <2>9. Broken(cs, m - 1, X)
    BY <2>3, <2>5, <2>8 DEF Broken
  <2> QED BY <1>3, <2>5, <2>9 DEF Unbroken
<1> QED BY <1>2, <1>3 DEF Quiet, Unbroken

\* Where the run of a commit ends.
LEMMA RunEndIs ==
  ASSUME NEW cs, Lined(cs), NEW X, NEW i \in DOMAIN cs
  PROVE  LET e == RunEnd(cs, i, X) IN
         e \in i..Len(cs) /\ e \in DOMAIN cs /\ (e = Len(cs) \/ Broken(cs, e, X)) /\ Unbroken(cs, X, i, e)
<1>0. DOMAIN cs = 1..Len(cs) /\ Len(cs) \in Nat /\ i \in Nat /\ i >= 1 /\ i <= Len(cs)
  BY DEF Lined
<1> DEFINE T == {j \in i..Len(cs) : j = Len(cs) \/ Broken(cs, j, X)}
           e == RunEnd(cs, i, X)
<1>1. T \in SUBSET Nat /\ Len(cs) \in T
  BY <1>0
<1>2. \E x \in T : \A y \in T : x <= y
  <2> HIDE DEF T
  <2> QED BY <1>1, LeastOf
<1>3. e = Min(T)
  BY DEF RunEnd
<1> HIDE DEF e
<1>4. e \in T /\ \A y \in T : e <= y
  <2> HIDE DEF T
  <2> QED BY <1>2, <1>3 DEF Min
<1>5. e \in i..Len(cs) /\ (e = Len(cs) \/ Broken(cs, e, X)) /\ e \in DOMAIN cs
  <2> DEFINE n == Len(cs)
  <2>1. e \in i..n /\ (e = n \/ Broken(cs, e, X))
    BY <1>4
  <2>2. n \in Nat /\ i \in Nat /\ i >= 1 /\ DOMAIN cs = 1..n
    BY <1>0
  <2> HIDE DEF n, T
  <2>3. e \in 1..n
    BY <2>1, <2>2
  <2> QED BY <2>1, <2>2, <2>3 DEF n
<1>6. ASSUME NEW j \in i..(e - 1), Broken(cs, j, X) PROVE FALSE
  <2>1. j \in i..Len(cs) /\ j < e /\ e \in Nat
    BY <1>0, <1>5
  <2>2. j \in T
    BY <1>6, <2>1
  <2>3. e <= j
    BY <1>4, <2>2
  <2> QED BY <2>1, <2>3
<1>7. Unbroken(cs, X, i, e)
  BY <1>6 DEF Unbroken
<1> QED BY <1>5, <1>7 DEF e

\* Each commit is in a run.
LEMMA RunOf ==
  ASSUME NEW cs, Lined(cs), NEW X, NEW i \in DOMAIN cs
  PROVE  \E s \in DOMAIN cs : s <= i /\ RunStart(cs, s, X) /\ Unbroken(cs, X, s, i)
<1>0. DOMAIN cs = 1..Len(cs) /\ Len(cs) \in Nat /\ i \in Nat /\ i >= 1 /\ i <= Len(cs)
  BY DEF Lined
<1> DEFINE T == {s \in 1..i : Unbroken(cs, X, s, i)}
<1>1. T \in SUBSET Nat /\ i \in T
  BY <1>0 DEF Unbroken
<1>2. PICK s \in T : \A y \in T : s <= y
  <2> HIDE DEF T
  <2> QED BY <1>1, LeastOf
<1>3. s \in 1..i /\ Unbroken(cs, X, s, i) /\ s \in DOMAIN cs
  BY <1>0
<1>4. s # 1 => Broken(cs, s - 1, X)
  <2>1. SUFFICES ASSUME s # 1, ~Broken(cs, s - 1, X) PROVE FALSE
    OBVIOUS
  <2>2. s - 1 \in 1..i
    BY <1>0, <1>3, <2>1
  <2>3. ASSUME NEW j \in (s - 1)..(i - 1) PROVE ~Broken(cs, j, X)
    <3>1. j = s - 1 \/ j \in s..(i - 1)
      BY <1>0, <1>3
    <3> QED BY <1>3, <2>1, <3>1 DEF Unbroken
  <2>4. s - 1 \in T
    BY <2>2, <2>3 DEF Unbroken
  <2>5. s <= s - 1
    BY <1>2, <2>4
  <2> QED BY <1>3, <2>5
<1>5. RunStart(cs, s, X)
  BY <1>4 DEF RunStart
<1> QED BY <1>3, <1>5

\* A run reaches as far as it is not broken.
LEMMA RunReaches ==
  ASSUME NEW cs, Lined(cs), NEW X, NEW s \in DOMAIN cs, NEW k \in DOMAIN cs, s <= k, Unbroken(cs, X, s, k)
  PROVE  k <= RunEnd(cs, s, X)
<1> DEFINE e == RunEnd(cs, s, X)
<1>1. e \in s..Len(cs) /\ (e = Len(cs) \/ Broken(cs, e, X))
  BY RunEndIs
<1>2. DOMAIN cs = 1..Len(cs) /\ Len(cs) \in Nat /\ s \in Nat /\ k \in Nat /\ k <= Len(cs)
  BY DEF Lined
<1> HIDE DEF e
<1>3. SUFFICES ASSUME e < k PROVE FALSE
  BY <1>1, <1>2 DEF e
<1> DEFINE n == Len(cs)
<1>4. n \in Nat /\ e \in s..n /\ s \in Nat /\ k \in Nat /\ k <= n
  BY <1>1, <1>2
<1>5. e \in s..(k - 1) /\ e # Len(cs)
  <2> HIDE DEF n
  <2>1. e \in Nat /\ s <= e
    BY <1>4
  <2>2. e \in s..(k - 1) /\ e # n
    BY <1>3, <1>4, <2>1
  <2> QED BY <2>2 DEF n
<1> QED BY <1>1, <1>5 DEF Unbroken

\* The length of a run, in commits and in time.
CountOf(cs, X) == [i \in DOMAIN cs |-> RunEnd(cs, i, X) - i + 1]
SpanOf(cs, X) == [i \in DOMAIN cs |-> cs[RunEnd(cs, i, X)].at - cs[i].at]
\* Of numbers for each, one is the most.
LEMMA MostOf ==
  ASSUME NEW S, S # {}, NEW M \in Nat, NEW f, \A i \in S : f[i] \in Nat /\ f[i] <= M
  PROVE  \E i \in S : \A k \in S : f[i] >= f[k]
<1> DEFINE D == {M - f[i] : i \in S}
<1>1. \A i \in S : M - f[i] \in Nat
  OBVIOUS
<1>2. D \in SUBSET Nat /\ D # {}
  BY <1>1
<1>3. PICK d \in D : \A e \in D : d <= e
  <2> HIDE DEF D
  <2> QED BY <1>2, LeastOf
<1>4. PICK i \in S : d = M - f[i]
  OBVIOUS
<1>5. \A k \in S : f[i] >= f[k]
  <2> TAKE k \in S
  <2>1. M - f[k] \in D
    OBVIOUS
  <2>2. M - f[i] <= M - f[k]
    <3> HIDE DEF D
    <3> QED BY <1>3, <1>4, <2>1
  <2> HIDE DEF D
  <2> QED BY <2>2
<1> QED BY <1>5

\* The longest run is a run, and none is longer.
LEMMA LongestIs ==
  ASSUME NEW cs, Lined(cs), 1 \in DOMAIN cs, NEW X
  PROVE  LET run == longest_run(cs, X) IN
         /\ run.first \in DOMAIN cs /\ RunStart(cs, run.first, X) /\ run.count = CountOf(cs, X)[run.first]
         /\ \A s \in DOMAIN cs : RunStart(cs, s, X) => CountOf(cs, X)[s] <= run.count
         /\ \A s \in DOMAIN cs : CountOf(cs, X)[s] \in Nat
<1> DEFINE starts == {i \in DOMAIN cs : RunStart(cs, i, X)}
           n == Len(cs)
           C == CountOf(cs, X)
           P == SpanOf(cs, X)
           better(i, k) == \/ C[i] > C[k]
                           \/ C[i] = C[k] /\ P[i] > P[k]
                           \/ C[i] = C[k] /\ P[i] = P[k] /\ i < k
           best == CHOOSE i \in starts : \A k \in starts \ {i} : better(i, k)
<1>0. /\ DOMAIN cs = 1..n /\ n \in Nat /\ n >= 1
      /\ \A i \in DOMAIN cs : cs[i].at \in Nat
      /\ \A i, j \in DOMAIN cs : i < j => cs[i].at <= cs[j].at
  BY DEF Lined
<1>1. longest_run(cs, X) = [first |-> best, count |-> C[best]] \/ best \notin starts
  <2> DEFINE count(i) == RunEnd(cs, i, X) - i + 1
             span(i)  == cs[RunEnd(cs, i, X)].at - cs[i].at
             rival(i, k) == \/ count(i) > count(k)
                            \/ count(i) = count(k) /\ span(i) > span(k)
                            \/ count(i) = count(k) /\ span(i) = span(k) /\ i < k
             first == CHOOSE i \in starts : \A k \in starts \ {i} : rival(i, k)
  <2>1. longest_run(cs, X) = [first |-> first, count |-> count(first)]
    BY Zenon DEF longest_run
  <2>2. \A i \in starts : i \in DOMAIN cs /\ C[i] = count(i) /\ P[i] = span(i)
    BY DEF CountOf, SpanOf
  <2> HIDE DEF count, span, C, P, starts
  <2>3. \A i, k \in starts : better(i, k) <=> rival(i, k)
    BY <2>2
  <2>4. \A i \in starts : (\A k \in starts \ {i} : better(i, k)) <=> (\A k \in starts \ {i} : rival(i, k))
    BY <2>3
  <2> HIDE DEF better, rival
  <2>5. first = best
    BY <2>4
  <2> QED BY <2>1, <2>2, <2>5
<1>2. \A i \in DOMAIN cs : /\ C[i] = RunEnd(cs, i, X) - i + 1 /\ P[i] = cs[RunEnd(cs, i, X)].at - cs[i].at
                           /\ RunEnd(cs, i, X) \in i..n /\ RunEnd(cs, i, X) \in DOMAIN cs
  BY RunEndIs DEF CountOf, SpanOf
<1>3. \A i \in DOMAIN cs : C[i] \in Nat /\ C[i] <= n
  BY <1>0, <1>2
<1>4. cs[n].at \in Nat /\ \A i \in DOMAIN cs : P[i] \in Nat /\ P[i] <= cs[n].at
  <2>1. n \in DOMAIN cs
    BY <1>0
  <2>2. ASSUME NEW i \in DOMAIN cs PROVE P[i] \in Nat /\ P[i] <= cs[n].at
    <3> DEFINE e == RunEnd(cs, i, X)
    <3>1. e \in DOMAIN cs /\ e \in i..n /\ P[i] = cs[e].at - cs[i].at
      BY <1>2
    <3> HIDE DEF e, P, n
    <3>2. cs[i].at \in Nat /\ cs[e].at \in Nat /\ cs[n].at \in Nat
      BY <1>0, <2>1, <3>1
    <3>3. i = e \/ i < e
      BY <1>0, <3>1
    <3>4. e = n \/ e < n
      BY <1>0, <3>1
    <3>5. cs[i].at <= cs[e].at
      BY <1>0, <3>1, <3>2, <3>3
    <3>6. cs[e].at <= cs[n].at
      BY <1>0, <2>1, <3>1, <3>2, <3>4
    <3> QED BY <3>1, <3>2, <3>5, <3>6
  <2> QED BY <1>0, <2>1, <2>2
<1>5. 1 \in starts /\ starts \subseteq DOMAIN cs
  BY DEF RunStart
<1> HIDE DEF starts, C, P, n
<1>6. PICK a \in starts : \A k \in starts : C[a] >= C[k]
  <2>1. starts # {} /\ \A i \in starts : C[i] \in Nat /\ C[i] <= n
    BY <1>3, <1>5
  <2> QED BY <1>0, <2>1, MostOf
<1> DEFINE A == {i \in starts : C[i] = C[a]}
<1>7. PICK b \in A : \A k \in A : P[b] >= P[k]
  <2>1. A # {} /\ \A i \in A : P[i] \in Nat /\ P[i] <= cs[n].at
    BY <1>4, <1>5
  <2> HIDE DEF A
  <2> QED BY <1>4, <2>1, MostOf
<1> DEFINE B == {i \in A : P[i] = P[b]}
<1>8. PICK x \in B : \A k \in B : x <= k
  <2>1. B \in SUBSET Nat /\ B # {}
    BY <1>0, <1>5
  <2> HIDE DEF B
  <2> QED BY <2>1, LeastOf
<1>9. x \in starts /\ x \in DOMAIN cs /\ C[x] = C[a] /\ P[x] = P[b]
  BY <1>5
<1>10. ASSUME NEW k \in starts \ {x} PROVE better(x, k)
  <2>1. C[x] \in Nat /\ C[k] \in Nat /\ P[x] \in Nat /\ P[k] \in Nat /\ x \in Nat /\ k \in Nat /\ x # k
    BY <1>0, <1>3, <1>4, <1>5, <1>9
  <2>2. C[x] >= C[k]
    BY <1>6, <1>9
  <2>3. C[x] = C[k] => P[x] >= P[k]
    BY <1>7, <1>9
  <2>4. C[x] = C[k] /\ P[x] = P[k] => x <= k
    BY <1>8, <1>9
  <2> HIDE DEF A, B
  <2> QED BY <2>1, <2>2, <2>3, <2>4
<1>11. best \in starts /\ \A k \in starts \ {best} : better(best, k)
  <2> HIDE DEF better, A, B
  <2> QED BY <1>9, <1>10
<1> HIDE DEF best
<1>12. \A s \in starts : C[s] <= C[best]
  <2> TAKE s \in starts
  <2>1. C[s] \in Nat /\ C[best] \in Nat
    BY <1>3, <1>5, <1>11
  <2>2. s = best \/ C[best] > C[s] \/ C[best] = C[s]
    BY <1>11
  <2> QED BY <2>1, <2>2
<1>13. longest_run(cs, X) = [first |-> best, count |-> C[best]]
  BY <1>1, <1>11
<1>14. best \in DOMAIN cs /\ RunStart(cs, best, X)
  BY <1>11 DEF starts
<1>15. \A s \in DOMAIN cs : RunStart(cs, s, X) => C[s] <= C[best]
  BY <1>12 DEF starts
<1> QED BY <1>3, <1>13, <1>14, <1>15 DEF C

\* The commits that were observed, in their order.
LEMMA InOrderLined ==
  ASSUME NEW S \in Commits
  PROVE  /\ Lined(InOrder(S))
         /\ \A i \in DOMAIN InOrder(S) : InOrder(S)[i] \in S
         /\ \A c \in S : \E i \in DOMAIN InOrder(S) : InOrder(S)[i] = c
         /\ \A i, j \in DOMAIN InOrder(S) : InOrder(S)[i] = InOrder(S)[j] => i = j
<1> DEFINE G == InOrder(S)
<1>1. /\ G \in Seq(S) /\ DOMAIN G = 1..Len(G) /\ Len(G) \in Nat
      /\ \A c \in S : \E i \in DOMAIN G : G[i] = c
      /\ \A i, j \in DOMAIN G : i < j => Earlier(G[i], G[j])
  BY InOrderIs
<1> HIDE DEF G
<1>2. \A c \in S : c.at \in Nat /\ c.n \in Nat
  BY DEF Commits, CommitRecord
<1>3. \A i \in DOMAIN G : G[i] \in S /\ G[i].at \in Nat /\ i \in Nat
  BY <1>1, <1>2
<1>4. \A i, j \in DOMAIN G : i < j => G[i].at <= G[j].at
  <2> TAKE i, j \in DOMAIN G
  <2> HAVE i < j
  <2>1. Earlier(G[i], G[j]) /\ G[i].at \in Nat /\ G[j].at \in Nat
    BY <1>1, <1>3
  <2> QED BY <2>1 DEF Earlier
<1>5. \A i, j \in DOMAIN G : G[i] = G[j] => ~(i < j)
  <2> TAKE i, j \in DOMAIN G
  <2> HAVE G[i] = G[j]
  <2>1. G[i].at \in Nat /\ G[i].n \in Nat
    BY <1>2, <1>3
  <2>2. ~Earlier(G[i], G[i])
    BY <2>1 DEF Earlier
  <2>3. i < j => Earlier(G[i], G[j])
    BY <1>1
  <2>4. Earlier(G[i], G[j]) = Earlier(G[i], G[i])
    OBVIOUS
  <2> QED BY <2>2, <2>3, <2>4
<1>6. \A i, j \in DOMAIN G : G[i] = G[j] => i = j
  <2> TAKE i, j \in DOMAIN G
  <2> HAVE G[i] = G[j]
  <2>1. ~(i < j) /\ ~(j < i) /\ i \in Nat /\ j \in Nat
    BY <1>3, <1>5
  <2> QED BY <2>1
<1>7. Lined(G)
  BY <1>1, <1>3, <1>4 DEF Lined
<1> QED BY <1>1, <1>3, <1>6, <1>7 DEF G

\* As many as the places they are in.
LEMMA PlacesCount ==
  ASSUME NEW cs, \A i, j \in DOMAIN cs : cs[i] = cs[j] => i = j, NEW a \in Nat, NEW b \in Nat, a <= b, a..b \subseteq DOMAIN cs
  PROVE  Cardinality({cs[k] : k \in a..b}) = b - a + 1
<1> DEFINE D == a..b  T == {cs[k] : k \in D}  f == [k \in D |-> cs[k]]
<1>1. IsFiniteSet(D) /\ Cardinality(D) = b - a + 1
  <2>1. a \in Int /\ b \in Int /\ ~(a > b)
    OBVIOUS
  <2> QED BY <2>1, FS_Interval
<1>2. D \subseteq DOMAIN cs
  OBVIOUS
<1> HIDE DEF D
<1>3. f \in Surjection(D, T)
  BY DEF Surjection
<1>4. f \in Injection(D, T)
  BY <1>2 DEF Injection, IsInjective
<1> HIDE DEF f, T
<1>5. Cardinality(T) = Cardinality(D)
  BY <1>1, <1>3, <1>4, FS_Surjection
<1> QED BY <1>1, <1>5 DEF T, D

\* The commits of the window in which a run starts are the run.
LEMMA WindowRun ==
  ASSUME clock \in Nat, NEW X \in SUBSET (1..clock), NEW start \in Nat, start >= 1,
         NEW S \in Commits, \A c \in S : start <= c.at /\ c.at <= clock,
         NEW s \in DOMAIN InOrder(S), RunStart(InOrder(S), s, X)
  PROVE  Count({d \in S : enclosing_window(d, X, start) = enclosing_window(InOrder(S)[s], X, start)})
           = CountOf(InOrder(S), X)[s]
<1> DEFINE cs == InOrder(S)
           e == RunEnd(cs, s, X)
           alike(d) == enclosing_window(d, X, start) = enclosing_window(cs[s], X, start)
           W == {d \in S : alike(d)}
<1>0. /\ Lined(cs) /\ s \in DOMAIN cs /\ RunStart(cs, s, X)
      /\ \A i \in DOMAIN cs : cs[i] \in S /\ cs[i].at \in Nat
      /\ \A c \in S : \E i \in DOMAIN cs : cs[i] = c
      /\ \A i, j \in DOMAIN cs : cs[i] = cs[j] => i = j
  BY InOrderLined DEF Lined
<1>1. /\ DOMAIN cs = 1..Len(cs) /\ Len(cs) \in Nat
      /\ \A i, j \in DOMAIN cs : i < j => cs[i].at <= cs[j].at
  BY <1>0 DEF Lined
<1> HIDE DEF cs
<1>2. X \in SUBSET Nat
  OBVIOUS
<1>3. e \in s..Len(cs) /\ e \in DOMAIN cs /\ Unbroken(cs, X, s, e)
  BY <1>0, RunEndIs
<1> HIDE DEF e
<1>4. s \in Nat /\ s >= 1 /\ e \in Nat /\ s <= e
  BY <1>0, <1>1, <1>3
<1>5. \A i, j \in DOMAIN cs : i <= j =>
        (enclosing_window(cs[i], X, start) = enclosing_window(cs[j], X, start) <=> Unbroken(cs, X, i, j))
  <2> TAKE i, j \in DOMAIN cs
  <2> HAVE i <= j
  <2>1. cs[i].at \in Nat /\ start <= cs[i].at /\ cs[j].at \in Nat /\ cs[j].at <= clock
    BY <1>0
  <2>2. i = j \/ i < j
    BY <1>1
  <2>3. cs[i].at <= cs[j].at
    BY <1>1, <2>1, <2>2
  <2>4. enclosing_window(cs[i], X, start) = enclosing_window(cs[j], X, start) <=> Quiet(X, cs[i].at, cs[j].at)
    BY <2>1, <2>3, SameWindow
  <2>5. Unbroken(cs, X, i, j) <=> Quiet(X, cs[i].at, cs[j].at)
    BY <1>0, <1>2, UnbrokenIs
  <2> QED BY <2>4, <2>5
<1>6. ASSUME NEW k \in DOMAIN cs PROVE alike(cs[k]) <=> k \in s..e
  <2>0. k \in Nat /\ k >= 1
    BY <1>1
  <2>1. CASE s <= k
    <3>1. alike(cs[k]) <=> Unbroken(cs, X, s, k)
      BY <1>0, <1>5, <2>1
    <3>2. Unbroken(cs, X, s, k) => k <= e
      BY <1>0, <2>1, RunReaches DEF e
    <3>3. k <= e => Unbroken(cs, X, s, k)
      <4>1. SUFFICES ASSUME k <= e, NEW j \in s..(k - 1) PROVE ~Broken(cs, j, X)
        BY DEF Unbroken
      <4>2. j \in s..(e - 1)
        BY <1>4, <2>0, <4>1
      <4> QED BY <1>3, <4>2 DEF Unbroken
    <3>4. k \in s..e <=> k <= e
      BY <1>4, <2>0, <2>1
    <3> HIDE DEF alike
    <3> QED BY <3>1, <3>2, <3>3, <3>4
  <2>2. CASE ~(s <= k)
    <3>1. k <= s /\ s - 1 \in k..(s - 1) /\ s # 1 /\ k \notin s..e
      BY <1>4, <2>0, <2>2
    <3>2. Broken(cs, s - 1, X)
      BY <1>0, <3>1 DEF RunStart
    <3>3. ~Unbroken(cs, X, k, s)
      BY <3>1, <3>2 DEF Unbroken
    <3>4. enclosing_window(cs[k], X, start) = enclosing_window(cs[s], X, start) <=> Unbroken(cs, X, k, s)
      BY <1>0, <1>5, <3>1
    <3> QED BY <3>1, <3>3, <3>4
  <2> QED BY <2>1, <2>2
<1>7. W = {cs[k] : k \in s..e}
  <2>1. s..e \subseteq DOMAIN cs
    BY <1>1, <1>3, <1>4
  <2> HIDE DEF alike
  <2>2. ASSUME NEW d \in W PROVE \E k \in s..e : d = cs[k]
    BY <1>0, <1>6
  <2>3. ASSUME NEW k \in s..e PROVE cs[k] \in W
    BY <1>0, <1>6, <2>1
  <2> QED BY <2>2, <2>3
<1>8. Cardinality({cs[k] : k \in s..e}) = e - s + 1
  <2>1. s..e \subseteq DOMAIN cs
    BY <1>1, <1>3, <1>4
  <2> QED BY <1>0, <1>4, <2>1, PlacesCount
<1>9. CountOf(cs, X)[s] = e - s + 1
  BY <1>0 DEF CountOf, e
<1>10. Count(W) = CountOf(cs, X)[s]
  BY <1>7, <1>8, <1>9 DEF Count
<1> QED BY <1>10 DEF cs

\* What holds of the observed commits, the touches and the start when the report is made.
Observable(S, X, start) ==
  /\ clock \in Nat /\ X \in SUBSET (1..clock) /\ start \in Nat /\ start >= 1
  /\ S \in Commits /\ \A c \in S : start <= c.at /\ c.at <= clock

\* The exhibit has as many commits as the longest run.
LEMMA ExhibitIs ==
  ASSUME NEW S, NEW X, NEW start, Observable(S, X, start), S # {}
  PROVE  exhibit(groups(S, X, start)) = LongestUnbroken(InOrder(S), X)
<1> DEFINE cs == InOrder(S)
           run == longest_run(cs, X)
           W(c) == {d \in S : enclosing_window(d, X, start) = enclosing_window(c, X, start)}
           K == {Count(W(c)) : c \in S}
<1>0. /\ clock \in Nat /\ X \in SUBSET (1..clock) /\ X \in SUBSET Nat /\ start \in Nat /\ start >= 1
      /\ S \in Commits /\ \A c \in S : start <= c.at /\ c.at <= clock
  BY DEF Observable
<1>1. /\ Lined(cs) /\ \A i \in DOMAIN cs : cs[i] \in S /\ cs[i].at \in Nat
      /\ \A c \in S : \E i \in DOMAIN cs : cs[i] = c
  BY <1>0, InOrderLined DEF Lined
<1>2. \A s \in DOMAIN cs : RunStart(cs, s, X) => Count(W(cs[s])) = CountOf(cs, X)[s]
  BY <1>0, WindowRun
<1>3. {Count(g.landed) : g \in groups(S, X, start)} = K
  <2> DEFINE group(c) == [from |-> enclosing_window(c, X, start).prev, to |-> enclosing_window(c, X, start).nxt,
                          landed |-> W(c)]
  <2>1. groups(S, X, start) = {group(c) : c \in S}
    BY Zenon DEF groups
  <2>2. \A c : group(c).landed = W(c)
    OBVIOUS
  <2> HIDE DEF group, W
  <2> QED BY <2>1, <2>2
<1> HIDE DEF cs
<1>4. DOMAIN cs = 1..Len(cs) /\ Len(cs) \in Nat /\ 1 \in DOMAIN cs /\ cs # <<>>
  <2>1. \E i \in DOMAIN cs : TRUE
    BY <1>1
  <2>2. DOMAIN cs = 1..Len(cs) /\ Len(cs) \in Nat
    BY <1>1 DEF Lined
  <2> QED BY <2>1, <2>2
<1>5. /\ run.first \in DOMAIN cs /\ RunStart(cs, run.first, X) /\ run.count = CountOf(cs, X)[run.first]
      /\ \A s \in DOMAIN cs : RunStart(cs, s, X) => CountOf(cs, X)[s] <= run.count
      /\ \A s \in DOMAIN cs : CountOf(cs, X)[s] \in Nat
  BY <1>1, <1>4, LongestIs
<1> HIDE DEF run
<1>6. run.count \in K
  <2>1. run.count = Count(W(cs[run.first])) /\ cs[run.first] \in S
    BY <1>1, <1>2, <1>5
  <2> HIDE DEF W
  <2> QED BY <2>1
<1>7. ASSUME NEW c \in S PROVE Count(W(c)) <= run.count
  <2>1. PICK i \in DOMAIN cs : cs[i] = c
    BY <1>1
  <2>2. PICK s \in DOMAIN cs : s <= i /\ RunStart(cs, s, X) /\ Unbroken(cs, X, s, i)
    BY <1>1, RunOf
  <2>3. Quiet(X, cs[s].at, cs[i].at)
    BY <1>0, <1>1, <2>2, UnbrokenIs
  <2>4. cs[s].at <= cs[i].at /\ cs[s].at \in Nat /\ cs[i].at \in Nat /\ start <= cs[s].at /\ cs[i].at <= clock
    <3>1. s = i \/ s < i
      BY <1>4, <2>2
    <3>2. cs[s].at \in Nat /\ cs[i].at \in Nat /\ start <= cs[s].at /\ cs[i].at <= clock
      BY <1>0, <1>1
    <3>3. s < i => cs[s].at <= cs[i].at
      BY <1>1 DEF Lined
    <3> QED BY <3>1, <3>2, <3>3
  <2>5. enclosing_window(cs[s], X, start) = enclosing_window(c, X, start)
    BY <1>0, <2>1, <2>3, <2>4, SameWindow
  <2>6. W(c) = W(cs[s])
    BY <2>5
  <2> HIDE DEF W
  <2> QED BY <1>2, <1>5, <2>2, <2>6
<1>8. \A k \in K : run.count >= k
  <2> TAKE k \in K
  <2>1. PICK c \in S : k = Count(W(c))
    OBVIOUS
  <2>2. k <= run.count
    BY <1>7, <2>1
  <2> QED BY <2>2
<1> HIDE DEF K
<1>9. Max(K) = run.count
  <2>1. ASSUME NEW c \in S PROVE Count(W(c)) \in Int
    <3>1. IsFiniteSet(S)
      BY <1>0 DEF Commits
    <3>2. W(c) \subseteq S
      OBVIOUS
    <3> HIDE DEF W
    <3>3. IsFiniteSet(W(c))
      BY <3>1, <3>2, FS_Subset
    <3> QED BY <3>3, FS_CardinalityType DEF Count
  <2>2. K \in SUBSET Int
    BY <2>1 DEF K
  <2> QED BY <1>6, <1>8, <2>2, MaxIs
<1>10. LongestUnbroken(cs, X) = run.count
  BY <1>4 DEF LongestUnbroken, run
<1>11. exhibit(groups(S, X, start)) = Max(K)
  BY <1>3 DEF exhibit
<1> QED BY <1>9, <1>10, <1>11 DEF cs

\* The record of a seat starts with its first moment.
LEMMA StartIs ==
  ASSUME LedgerInv, NEW seats
  PROVE  /\ corpus_start(seats) \in Nat /\ corpus_start(seats) >= 1
         /\ \A f \in session_files(seats) : \A r \in ToSet(files[f]) : corpus_start(seats) <= r.at
<1> DEFINE fs == session_files(seats)
           M == Moments(Recs(fs))
<1>0. clock \in Nat /\ Never \in Nat /\ Never >= 1
  BY DEF LedgerInv, Never
<1>1. fs \in SUBSET DOMAIN Transcripts
  BY DEF session_files
<1>2. corpus_start(seats) = Earliest(M, Never)
  BY DEF corpus_start
<1> HIDE DEF fs
<1>3. M \in SUBSET (1..clock)
  <2>1. \A p \in Recs(fs) : Rec(p).at \in 1..clock
    BY <1>0, <1>1, RecsAre
  <2> QED BY <2>1 DEF Moments
<1>4. \A f \in fs : \A r \in ToSet(files[f]) : r.at \in M
  <2> TAKE f \in fs
  <2> TAKE r \in ToSet(files[f])
  <2>1. PICK i \in DOMAIN files[f] : r = files[f][i]
    BY DEF ToSet
  <2>2. <<f, i>> \in Recs(fs) /\ Rec(<<f, i>>) = r
    BY <2>1 DEF Recs, Rec
  <2> QED BY <2>2 DEF Moments
<1> HIDE DEF M
<1>5. CASE M = {}
  BY <1>0, <1>2, <1>4, <1>5 DEF Earliest, fs
<1>6. CASE M # {}
  <2>1. Earliest(M, Never) \in M /\ \A y \in M : Earliest(M, Never) <= y
    BY <1>0, <1>3, <1>6, LatestIs
  <2>2. corpus_start(seats) \in 1..clock /\ \A y \in M : corpus_start(seats) <= y
    BY <1>2, <1>3, <2>1
  <2> QED BY <1>0, <1>4, <2>2 DEF fs
<1> QED BY <1>5, <1>6

\* The moment of a touch is that of a record of its transcript.
LEMMA TouchIsRecorded ==
  ASSUME LedgerInv, NEW f \in DOMAIN Transcripts, NEW r \in ToSet(files[f])
  PROVE  \E q \in ToSet(files[f]) : q.at = touch_when(f, r)
<1>1. PICK i \in DOMAIN files[f] : r = files[f][i]
  BY DEF ToSet
<1>2. Accounted(menu, clock, nudged, f, i, r)
  BY <1>1 DEF LedgerInv, Written
<1>3. r.at \in Nat
  BY <1>2 DEF Accounted, Record
<1>4. enqueues(f, r.text) \in SUBSET Nat
  <2>1. enqueues(f, r.text) \in SUBSET (1..clock)
    BY EnqueuesAre
  <2> QED BY <2>1
<1>5. touch_when(f, r) = r.at \/ touch_when(f, r) \in enqueues(f, r.text)
  BY <1>3, <1>4, TouchWhenIs, WhenIs
<1> QED BY <1>5 DEF enqueues

\* Those of a personal seat are those of the fleet, and within the seat's own record.
LEMMA OwnTouches ==
  ASSUME LedgerInv, NEW s \in Personal
  PROVE  /\ TouchesOf({s}) \subseteq Presence
         /\ \A t \in TouchesOf({s}) : corpus_start({s}) <= t
<1>1. ASSUME NEW t \in TouchesOf({s}) PROVE t \in Presence /\ corpus_start({s}) <= t
  <2>1. PICK f \in session_files({s}) : t \in {touch_when(f, r) : r \in {q \in ToSet(files[f]) : Human(q)}}
    BY TouchesAre
  <2>2. PICK r \in ToSet(files[f]) : Human(r) /\ t = touch_when(f, r)
    BY <2>1
  <2>3. f \in DOMAIN Transcripts /\ Transcripts[f].seat = s /\ ~Transcripts[f].sub /\ files[f] # <<>>
    BY DEF session_files
  <2>4. f \in session_files(Fleet)
    BY <2>3, SessionsAre
  <2>5. PICK q \in ToSet(files[f]) : q.at = t
    BY <2>2, <2>3, TouchIsRecorded
  <2>6. corpus_start({s}) <= q.at
    BY StartIs
  <2> QED BY <2>2, <2>4, <2>5, <2>6, PresenceIs
<1> QED BY <1>1

\* The commits that were observed.
LEMMA ObservedIs ==
  ASSUME LedgerInv, Logged, NEW X \in SUBSET (1..clock), NEW seats
  PROVE  /\ Observable(observed(Landed, X, corpus_start(seats)), X, corpus_start(seats))
         /\ observed(Landed, X, corpus_start(seats)) = {c \in Landed : corpus_start(seats) <= c.at}
<1> DEFINE start == corpus_start(seats)
           S == observed(Landed, X, start)
<1>0. clock \in Nat /\ start \in Nat /\ start >= 1
  BY StartIs DEF LedgerInv
<1>1. Landed \in Commits /\ \A c \in Landed : c.at \in Nat /\ c.at >= 1 /\ c.at <= clock
  BY <1>0, LandedIs
<1>2. \A c : enclosing_window(c, X, start).observed = (start <= c.at)
  BY DEF enclosing_window
<1>3. S = {c \in Landed : start <= c.at}
  BY <1>2 DEF observed
<1> HIDE DEF S, start
<1>4. S \in Commits
  <2>1. Landed \in SUBSET CommitRecord /\ IsFiniteSet(Landed) /\ \A x, y \in Landed : x.n = y.n => x = y
    BY <1>1 DEF Commits
  <2>2. S \subseteq Landed
    BY <1>3
  <2>3. IsFiniteSet(S)
    BY <2>1, <2>2, FS_Subset
  <2> QED BY <2>1, <2>2, <2>3 DEF Commits
<1>5. \A c \in S : start <= c.at /\ c.at <= clock
  BY <1>1, <1>3
<1>6. Observable(S, X, start)
  BY <1>0, <1>4, <1>5 DEF Observable
<1> QED BY <1>3, <1>6 DEF S, start

\* The gap a commit is in has one bucket at least, of an edge that it reaches.
LEMMA BucketIs ==
  ASSUME NEW g \in Nat
  PROVE  \E k \in DOMAIN Buckets : Buckets[k] <= g /\ (k < Len(Buckets) => g < Buckets[k + 1])
<1> DEFINE n == Len(Buckets)  T == {k \in 1..n : Buckets[k] <= g}
<1>0. DOMAIN Buckets = 1..n /\ n \in Nat /\ n >= 1 /\ Buckets[1] = 0 /\ \A k \in 1..n : Buckets[k] \in Nat
  BY SettingsAssumption
<1>1. 1 \in T
  BY <1>0
<1>2. PICK k \in T : \A j \in T : k >= j
  <2>1. T \in SUBSET (1..n) /\ T # {}
    BY <1>1
  <2>2. Latest(T, 0) \in T /\ \A y \in T : Latest(T, 0) >= y
    <3> HIDE DEF T, n
    <3> QED BY <1>0, <2>1, LatestIs
  <2> QED BY <2>2
<1>3. k \in 1..n /\ Buckets[k] <= g
  OBVIOUS
<1>4. ASSUME k < n PROVE g < Buckets[k + 1]
  <2>1. k + 1 \in 1..n
    BY <1>0, <1>3, <1>4
  <2>2. k + 1 \notin T
    BY <1>2, <1>3
  <2>3. ~(Buckets[k + 1] <= g) /\ Buckets[k + 1] \in Nat
    BY <1>0, <2>1, <2>2
  <2> QED BY <2>3
<1> QED BY <1>0, <1>3, <1>4

\* The buckets of section 3 hold the observed commits, and those of h or more hold
\* commits within a silence of h.
LEMMA BucketsAre ==
  ASSUME NEW S, NEW X, NEW start, Observable(S, X, start)
  PROVE  /\ \A c \in S : \E k \in DOMAIN Buckets : c \in buckets(S, X, start)[k]
         /\ \A k \in DOMAIN Buckets : buckets(S, X, start)[k] \subseteq S
         /\ \A h \in THRESHOLDS_H : \A k \in DOMAIN Buckets :
              Buckets[k] >= h => buckets(S, X, start)[k] \subseteq shares(S, X, start)[h]
<1>0. /\ clock \in Nat /\ X \in SUBSET (1..clock) /\ start \in Nat /\ start >= 1
      /\ \A c \in S : c.at \in Nat /\ start <= c.at /\ c.at <= clock
  BY DEF Observable, Commits, CommitRecord
<1>1. \A k \in DOMAIN Buckets : buckets(S, X, start)[k] =
        {c \in S : /\ Buckets[k] <= gap_of(c, X, start)
                   /\ k < Len(Buckets) => gap_of(c, X, start) < Buckets[k + 1]}
  BY DEF buckets
<1>2. \A h \in THRESHOLDS_H : shares(S, X, start)[h] = {c \in S : length_s(enclosing_window(c, X, start)) >= h}
  BY DEF shares
<1>3. ASSUME NEW c \in S
      PROVE  /\ gap_of(c, X, start) \in Nat /\ length_s(enclosing_window(c, X, start)) \in Nat
             /\ gap_of(c, X, start) <= length_s(enclosing_window(c, X, start))
  <2> DEFINE w == enclosing_window(c, X, start)
  <2>1. Framed(X, start, c.at, w)
    BY <1>0, WindowIs
  <2>2. gap_of(c, X, start) = c.at - w.prev
    BY DEF gap_of
  <2> HIDE DEF w
  <2>3. /\ w.prev \in Nat /\ w.nxt \in Nat /\ w.prev <= c.at /\ c.at <= w.nxt /\ length_s(w) = w.nxt - w.prev
        /\ c.at \in Nat
    BY <1>0, <2>1 DEF Framed
  <2>4. c.at - w.prev \in Nat /\ w.nxt - w.prev \in Nat /\ c.at - w.prev <= w.nxt - w.prev
    BY <2>3
  <2> QED BY <2>2, <2>3, <2>4 DEF w
<1>4. /\ \A c \in S : \E k \in DOMAIN Buckets : c \in buckets(S, X, start)[k]
      /\ \A k \in DOMAIN Buckets : buckets(S, X, start)[k] \subseteq S
  <2>1. ASSUME NEW c \in S PROVE \E k \in DOMAIN Buckets : c \in buckets(S, X, start)[k]
    <3>1. PICK k \in DOMAIN Buckets :
            Buckets[k] <= gap_of(c, X, start) /\ (k < Len(Buckets) => gap_of(c, X, start) < Buckets[k + 1])
      BY <1>3, BucketIs
    <3> QED BY <1>1, <3>1
  <2>2. \A k \in DOMAIN Buckets : buckets(S, X, start)[k] \subseteq S
    BY <1>1
  <2> QED BY <2>1, <2>2
<1>5. ASSUME NEW h \in THRESHOLDS_H, NEW k \in DOMAIN Buckets, Buckets[k] >= h, NEW c \in buckets(S, X, start)[k]
      PROVE  c \in shares(S, X, start)[h]
  <2>1. c \in S /\ Buckets[k] <= gap_of(c, X, start)
    BY <1>1
  <2>2. h \in Nat /\ Buckets[k] \in Nat
    BY SettingsAssumption
  <2>3. length_s(enclosing_window(c, X, start)) >= h
    BY <1>3, <1>5, <2>1, <2>2
  <2> QED BY <1>2, <2>1, <2>3
<1> QED BY <1>4, <1>5

\* With fewer touches a commit that followed one is in no shorter a silence.
LEMMA FewerTouches ==
  ASSUME NEW S, NEW X, NEW start, Observable(S, X, start), NEW own, own \subseteq X, NEW mine \in Nat, mine >= 1,
         NEW c \in S, NEW t \in own, t <= c.at, mine <= t
  PROVE  length_s(enclosing_window(c, own, mine)) >= length_s(enclosing_window(c, X, start))
<1>0. /\ clock \in Nat /\ X \in SUBSET (1..clock) /\ start \in Nat /\ start >= 1 /\ own \in SUBSET (1..clock)
      /\ c.at \in Nat /\ start <= c.at /\ c.at <= clock /\ t \in Nat
  BY DEF Observable, Commits, CommitRecord
<1>1. mine <= c.at
  BY <1>0
<1> DEFINE w == enclosing_window(c, X, start)  v == enclosing_window(c, own, mine)
<1>2. Framed(X, start, c.at, w) /\ Framed(own, mine, c.at, v)
  BY <1>0, <1>1, WindowIs
<1> HIDE DEF w, v
<1>3. /\ w.prev \in Nat /\ w.nxt \in Nat /\ v.prev \in Nat /\ v.nxt \in Nat
      /\ length_s(w) = w.nxt - w.prev /\ length_s(v) = v.nxt - v.prev
  BY <1>2 DEF Framed
<1>4. v.prev <= w.prev
  <2>1. v.prev \in own /\ v.prev <= c.at
    <3>1. ~(\A u \in own : u > c.at)
      BY <1>0
    <3> QED BY <1>2, <3>1 DEF Framed
  <2> QED BY <1>2, <2>1 DEF Framed
<1>5. w.nxt <= v.nxt
  <2>1. CASE v.nxt \in own /\ v.nxt > c.at
    BY <1>2, <2>1 DEF Framed
  <2>2. CASE v.nxt = clock
    BY <1>2, <2>2 DEF Framed
  <2> QED BY <1>2, <2>1, <2>2 DEF Framed
<1>6. v.nxt - v.prev >= w.nxt - w.prev
  BY <1>3, <1>4, <1>5
<1> QED BY <1>3, <1>6 DEF w, v

\* So the buckets together are the observed commits.
LEMMA BucketsHold ==
  ASSUME NEW S, NEW X, NEW start, Observable(S, X, start)
  PROVE  UNION {buckets(S, X, start)[k] : k \in DOMAIN Buckets} = S
<1>1. /\ \A c \in S : \E k \in DOMAIN Buckets : c \in buckets(S, X, start)[k]
      /\ \A k \in DOMAIN Buckets : buckets(S, X, start)[k] \subseteq S
  BY BucketsAre
<1> QED BY <1>1

\* The tables of the report of silences agree.
LEMMA TablesHold ==
  ASSUME LedgerInv, Logged
  PROVE  TablesAgree
<1> DEFINE r == silence_report(Fleet)
           X == Presence
           start == corpus_start(Fleet)
           own == TouchesOf({Repo})
           mine == corpus_start({Repo})
           S == observed(Landed, X, start)
           touched(c) == \E t \in own : t <= c.at
           perDay == [d \in {day_local(c.at) : c \in Landed} |->
                        {c \in S : day_local(c.at) = d /\ length_s(enclosing_window(c, X, start)) >= 1}]
<1>1. /\ r.unobserved = Landed \ S /\ r.inSilence = shares(S, X, start) /\ r.gaps = buckets(S, X, start)
      /\ r.windows = groups(S, X, start) /\ r.run = LongestUnbroken(InOrder(S), X) /\ r.perDay = perDay
      /\ r.seatAlone = IF own = {} THEN [h \in THRESHOLDS_H |-> {}] ELSE shares(observed(Landed, own, mine), own, mine)
  BY DEF silence_report, Landed, Presence, TouchesOf
<1>2. clock \in Nat /\ X \in SUBSET (1..clock) /\ 1 \in THRESHOLDS_H
  BY PresenceUpTo, SettingsAssumption DEF LedgerInv
<1>3. Observable(S, X, start) /\ S = {c \in Landed : start <= c.at}
  BY <1>2, ObservedIs
<1>4. own \subseteq X /\ \A t \in own : mine <= t
  <2>1. Repo \in Personal
    BY LanesAssumption DEF Personal
  <2> QED BY <2>1, OwnTouches
<1>5. mine \in Nat /\ mine >= 1
  BY StartIs
<1> HIDE DEF r, X, start, own, mine, S
<1>6. UNION {r.gaps[k] : k \in DOMAIN Buckets} = Landed \ r.unobserved
  <2>1. UNION {buckets(S, X, start)[k] : k \in DOMAIN Buckets} = S
    <3>1. \A A, B, n : Observable(A, B, n) => UNION {buckets(A, B, n)[k] : k \in DOMAIN Buckets} = A
      BY BucketsHold
    <3>2. Observable(S, X, start)
      BY <1>3
    <3> HIDE DEF touched, perDay
    <3>3. PICK A : A = S
      OBVIOUS
    <3>4. PICK B : B = X
      OBVIOUS
    <3>5. PICK n : n = start
      OBVIOUS
    <3>6. Observable(A, B, n)
      BY <3>2, <3>3, <3>4, <3>5
    <3>7. UNION {buckets(A, B, n)[k] : k \in DOMAIN Buckets} = A
      BY <3>1, <3>6
    <3> QED BY <3>3, <3>4, <3>5, <3>7
  <2>2. Landed \ (Landed \ S) = S
    BY <1>3
  <2> QED BY <1>1, <2>1, <2>2
<1>7. ASSUME NEW h \in THRESHOLDS_H
      PROVE  UNION {r.gaps[k] : k \in {i \in DOMAIN Buckets : Buckets[i] >= h}} \subseteq r.inSilence[h]
  <2>1. \A k \in DOMAIN Buckets : Buckets[k] >= h => buckets(S, X, start)[k] \subseteq shares(S, X, start)[h]
    BY <1>3, BucketsAre
  <2> QED BY <1>1, <2>1
<1>8. ASSUME NEW h \in THRESHOLDS_H, NEW c \in r.inSilence[h], touched(c) PROVE c \in r.seatAlone[h]
  <2>1. c \in S /\ length_s(enclosing_window(c, X, start)) >= h
    BY <1>1, <1>8 DEF shares
  <2>2. PICK t \in own : t <= c.at
    BY <1>8
  <2>3. own \in SUBSET (1..clock) /\ c \in Landed
    BY <1>2, <1>3, <1>4, <2>1
  <2>4. c.at \in Nat /\ t \in Nat /\ mine <= t /\ mine <= c.at /\ c.at <= clock /\ start <= c.at
    <3>1. c.at \in Nat /\ start <= c.at /\ c.at <= clock
      BY <1>3, <2>1 DEF Observable, Commits, CommitRecord
    <3>2. t \in Nat /\ mine <= t
      BY <1>4, <2>3
    <3> QED BY <1>5, <2>2, <3>1, <3>2
  <2>5. length_s(enclosing_window(c, own, mine)) >= length_s(enclosing_window(c, X, start))
    BY <1>3, <1>4, <1>5, <2>1, <2>2, <2>4, FewerTouches
  <2>6. length_s(enclosing_window(c, own, mine)) \in Nat /\ length_s(enclosing_window(c, X, start)) \in Nat
    <3>1. start \in Nat /\ start >= 1
      BY <1>3 DEF Observable
    <3>2. Framed(own, mine, c.at, enclosing_window(c, own, mine)) /\ Framed(X, start, c.at, enclosing_window(c, X, start))
      BY <1>2, <1>5, <2>3, <2>4, <3>1, WindowIs
    <3> QED BY <3>2 DEF Framed
  <2>7. h \in Nat
    BY SettingsAssumption
  <2>8. length_s(enclosing_window(c, own, mine)) >= h
    BY <2>1, <2>5, <2>6, <2>7
  <2>9. c \in observed(Landed, own, mine)
    <3>1. enclosing_window(c, own, mine).observed = (mine <= c.at)
      BY DEF enclosing_window
    <3> QED BY <2>3, <2>4, <3>1 DEF observed
  <2>10. c \in shares(observed(Landed, own, mine), own, mine)[h]
    BY <2>8, <2>9 DEF shares
  <2>11. own # {}
    BY <2>2
  <2> QED BY <1>1, <2>10, <2>11
<1>9. r.windows # {} => exhibit(r.windows) = r.run
  <2>1. SUFFICES ASSUME groups(S, X, start) # {} PROVE exhibit(groups(S, X, start)) = LongestUnbroken(InOrder(S), X)
    BY <1>1
  <2>2. S # {}
    BY <2>1 DEF groups
  <2> QED BY <1>3, <2>2, ExhibitIs
<1>10. UNION {r.perDay[d] : d \in DOMAIN r.perDay} = r.inSilence[1]
  <2>1. shares(S, X, start)[1] = {c \in S : length_s(enclosing_window(c, X, start)) >= 1}
    BY <1>2 DEF shares
  <2>2. S \subseteq Landed
    BY <1>3
  <2>3. UNION {perDay[d] : d \in DOMAIN perDay} = {c \in S : length_s(enclosing_window(c, X, start)) >= 1}
    <3> DEFINE T == {c \in S : length_s(enclosing_window(c, X, start)) >= 1}
               D == {day_local(c.at) : c \in Landed}
    <3>1. DOMAIN perDay = D /\ \A d \in D : perDay[d] = {c \in T : day_local(c.at) = d}
      OBVIOUS
    <3>2. \A c \in T : c \in Landed /\ day_local(c.at) \in D
      BY <2>2
    <3> HIDE DEF perDay, D
    <3>3. \A c \in T : \E d \in DOMAIN perDay : c \in perDay[d]
      BY <3>1, <3>2
    <3>4. \A d \in DOMAIN perDay : perDay[d] \subseteq T
      BY <3>1
    <3> HIDE DEF T
    <3>5. UNION {perDay[d] : d \in DOMAIN perDay} = T
      BY <3>3, <3>4
    <3> QED BY <3>5 DEF T
  <2> HIDE DEF perDay
  <2> QED BY <1>1, <2>1, <2>3
<1>11. \A h \in THRESHOLDS_H :
         /\ UNION {r.gaps[k] : k \in {i \in DOMAIN Buckets : Buckets[i] >= h}} \subseteq r.inSilence[h]
         /\ {c \in r.inSilence[h] : touched(c)} \subseteq r.seatAlone[h]
  BY <1>7, <1>8
<1>12. TablesAgree <=> /\ UNION {r.gaps[k] : k \in DOMAIN Buckets} = Landed \ r.unobserved
                       /\ \A h \in THRESHOLDS_H :
                            /\ UNION {r.gaps[k] : k \in {i \in DOMAIN Buckets : Buckets[i] >= h}} \subseteq r.inSilence[h]
                            /\ {c \in r.inSilence[h] : touched(c)} \subseteq r.seatAlone[h]
                       /\ r.windows # {} => exhibit(r.windows) = r.run
                       /\ UNION {r.perDay[d] : d \in DOMAIN r.perDay} = r.inSilence[1]
  BY Zenon DEF TablesAgree, r, own, TouchesOf
<1> QED BY <1>6, <1>9, <1>10, <1>11, <1>12

\* A commit in a silence, and the longest run, have no touch about them.
LEMMA SilencesAre ==
  ASSUME NEW S, NEW X, NEW start, Observable(S, X, start)
  PROVE  LET cs == InOrder(S)  run == longest_run(cs, X) IN
         /\ \A h \in Nat \ {0} : \A c \in S : length_s(enclosing_window(c, X, start)) >= h =>
              \E from \in 1..c.at : from + h <= clock /\ c.at <= from + h /\ Quiet(X, from, from + h - 1)
         /\ cs # <<>> =>
              /\ Quiet(X, cs[run.first].at, cs[run.first + run.count - 1].at)
              /\ \A i, j \in DOMAIN cs : (i <= j /\ Quiet(X, cs[i].at, cs[j].at)) => j - i + 1 <= run.count
<1> DEFINE cs == InOrder(S)  run == longest_run(cs, X)
<1>0. /\ clock \in Nat /\ X \in SUBSET (1..clock) /\ X \in SUBSET Nat /\ start \in Nat /\ start >= 1
      /\ S \in Commits /\ \A c \in S : c.at \in Nat /\ start <= c.at /\ c.at <= clock
  BY DEF Observable, Commits, CommitRecord
<1>1. ASSUME NEW h \in Nat \ {0}, NEW c \in S, length_s(enclosing_window(c, X, start)) >= h
      PROVE  \E from \in 1..c.at : from + h <= clock /\ c.at <= from + h /\ Quiet(X, from, from + h - 1)
  <2>1. Framed(X, start, c.at, enclosing_window(c, X, start)) /\ c.at \in Nat
    BY <1>0, WindowIs
  <2>2. h \in Nat /\ h >= 1
    OBVIOUS
  <2> QED BY <1>0, <1>1, <2>1, <2>2, SilenceIs
<1>2. Lined(cs)
  BY <1>0, InOrderLined
<1> HIDE DEF cs
<1>3. ASSUME cs # <<>>
      PROVE  /\ Quiet(X, cs[run.first].at, cs[run.first + run.count - 1].at)
             /\ \A i, j \in DOMAIN cs : (i <= j /\ Quiet(X, cs[i].at, cs[j].at)) => j - i + 1 <= run.count
  <2>1. DOMAIN cs = 1..Len(cs) /\ Len(cs) \in Nat /\ 1 \in DOMAIN cs
    <3>1. DOMAIN cs = 1..Len(cs) /\ Len(cs) \in Nat
      BY <1>2 DEF Lined
    <3>2. Len(cs) # 0
      <4>1. cs \in Seq(S)
        BY <1>0, InOrderIs DEF cs
      <4> QED BY <1>3, <4>1
    <3> QED BY <3>1, <3>2
  <2>2. /\ run.first \in DOMAIN cs /\ RunStart(cs, run.first, X) /\ run.count = CountOf(cs, X)[run.first]
        /\ \A s \in DOMAIN cs : RunStart(cs, s, X) => CountOf(cs, X)[s] <= run.count
        /\ \A s \in DOMAIN cs : CountOf(cs, X)[s] \in Nat
    BY <1>2, <2>1, LongestIs
  <2> HIDE DEF run
  <2>3. \A s \in DOMAIN cs : /\ CountOf(cs, X)[s] = RunEnd(cs, s, X) - s + 1
                             /\ RunEnd(cs, s, X) \in DOMAIN cs /\ s <= RunEnd(cs, s, X) /\ Unbroken(cs, X, s, RunEnd(cs, s, X))
    <3> TAKE s \in DOMAIN cs
    <3>1. RunEnd(cs, s, X) \in s..Len(cs) /\ RunEnd(cs, s, X) \in DOMAIN cs /\ Unbroken(cs, X, s, RunEnd(cs, s, X))
      BY <1>2, RunEndIs
    <3> QED BY <2>1, <3>1 DEF CountOf
  <2>4. Quiet(X, cs[run.first].at, cs[run.first + run.count - 1].at)
    <3> DEFINE b == run.first  e == RunEnd(cs, b, X)
    <3>1. b \in DOMAIN cs /\ e \in DOMAIN cs /\ b <= e /\ Unbroken(cs, X, b, e) /\ run.count = e - b + 1
      BY <2>2, <2>3
    <3> HIDE DEF b, e
    <3>2. b + run.count - 1 = e
      BY <2>1, <3>1
    <3>3. Quiet(X, cs[b].at, cs[e].at)
      BY <1>0, <1>2, <3>1, UnbrokenIs
    <3> QED BY <3>2, <3>3 DEF b
  <2>5. ASSUME NEW i \in DOMAIN cs, NEW j \in DOMAIN cs, i <= j, Quiet(X, cs[i].at, cs[j].at) PROVE j - i + 1 <= run.count
    <3>1. PICK s \in DOMAIN cs : s <= i /\ RunStart(cs, s, X) /\ Unbroken(cs, X, s, i)
      BY <1>2, RunOf
    <3>2. Unbroken(cs, X, i, j)
      BY <1>0, <1>2, <2>5, UnbrokenIs
    <3>3. s \in Nat /\ i \in Nat /\ j \in Nat /\ s <= j
      BY <2>1, <2>5, <3>1
    <3>4. Unbroken(cs, X, s, j)
      <4>1. SUFFICES ASSUME NEW k \in s..(j - 1) PROVE ~Broken(cs, k, X)
        BY DEF Unbroken
      <4>2. k \in s..(i - 1) \/ k \in i..(j - 1)
        BY <3>3
      <4> QED BY <3>1, <3>2, <4>2 DEF Unbroken
    <3>5. j <= RunEnd(cs, s, X)
      BY <1>2, <3>3, <3>4, RunReaches
    <3>6. RunEnd(cs, s, X) \in Nat /\ run.count \in Nat /\ RunEnd(cs, s, X) - s + 1 <= run.count
      <4>1. RunEnd(cs, s, X) \in Nat
        BY <2>1, <2>3
      <4>2. CountOf(cs, X)[s] <= run.count /\ CountOf(cs, X)[s] = RunEnd(cs, s, X) - s + 1
        BY <2>2, <2>3, <3>1
      <4>3. run.count \in Nat
        BY <2>2
      <4> QED BY <4>1, <4>2, <4>3
    <3> QED BY <3>1, <3>3, <3>5, <3>6
  <2> QED BY <2>4, <2>5
<1> QED BY <1>1, <1>3 DEF cs

\* The report of silences is right about the record.
LEMMA SilenceAre ==
  ASSUME LedgerInv, Logged, Metered, Held, Once, Told
  PROVE  SilenceIsExact
<1>1. HolesAreFlagged /\ TablesAgree
  BY HolesAre, TablesHold
<1>2. ASSUME Whole, menu.distinct
      PROVE  LET times == Times(human_touches(Fleet))
                 start == corpus_start(Fleet)
                 cs    == InOrder(observed(Landed, times, start))
                 quiet(from, to) == \A t \in TrueMoments : ~(from < t /\ t <= to)
                 run   == longest_run(cs, times)
             IN  /\ times = TrueMoments
                 /\ \A h \in 1..menu.last : \A c \in inside_silence(Landed, times, start, h) :
                      \E from \in 1..c.at : from + h <= clock /\ c.at <= from + h /\ quiet(from, from + h - 1)
                 /\ cs # <<>> =>
                      /\ quiet(cs[run.first].at, cs[run.first + run.count - 1].at)
                      /\ \A i, j \in DOMAIN cs :
                           (i <= j /\ quiet(cs[i].at, cs[j].at)) => j - i + 1 <= run.count
  <2> DEFINE X == Presence
             start == corpus_start(Fleet)
             S == observed(Landed, X, start)
             cs == InOrder(S)
             run == longest_run(cs, X)
  <2>1. X = TrueMoments
    BY <1>2, PresenceIsTrue
  <2>2. X \in SUBSET (1..clock)
    BY PresenceUpTo DEF LedgerInv
  <2>3. Observable(S, X, start)
    BY <2>2, ObservedIs
  <2>4. \A h : inside_silence(Landed, X, start, h) = {c \in S : length_s(enclosing_window(c, X, start)) >= h}
    BY DEF inside_silence
  <2>5. menu.last \in Nat
    BY MenusAssumption DEF LedgerInv
  <2> HIDE DEF X, start, S
  <2>6. /\ \A h \in Nat \ {0} : \A c \in S : length_s(enclosing_window(c, X, start)) >= h =>
             \E from \in 1..c.at : from + h <= clock /\ c.at <= from + h /\ Quiet(X, from, from + h - 1)
        /\ cs # <<>> =>
             /\ Quiet(X, cs[run.first].at, cs[run.first + run.count - 1].at)
             /\ \A i, j \in DOMAIN cs : (i <= j /\ Quiet(X, cs[i].at, cs[j].at)) => j - i + 1 <= run.count
    BY <2>3, SilencesAre
  <2> HIDE DEF cs, run
  <2>7. \A h \in 1..menu.last : \A c \in inside_silence(Landed, X, start, h) :
          \E from \in 1..c.at : from + h <= clock /\ c.at <= from + h /\ Quiet(X, from, from + h - 1)
    <3>1. \A h \in 1..menu.last : h \in Nat \ {0}
      BY <2>5
    <3> QED BY <2>4, <2>6, <3>1
  <2>8. \A from, to : Quiet(X, from, to) <=> \A t \in TrueMoments : ~(from < t /\ t <= to)
    BY <2>1 DEF Quiet
  <2>9. /\ X = TrueMoments
        /\ \A h \in 1..menu.last : \A c \in inside_silence(Landed, X, start, h) :
             \E from \in 1..c.at : /\ from + h <= clock /\ c.at <= from + h
                                   /\ \A t \in TrueMoments : ~(from < t /\ t <= from + h - 1)
        /\ cs # <<>> =>
             /\ \A t \in TrueMoments : ~(cs[run.first].at < t /\ t <= cs[run.first + run.count - 1].at)
             /\ \A i, j \in DOMAIN cs :
                  (i <= j /\ \A t \in TrueMoments : ~(cs[i].at < t /\ t <= cs[j].at)) => j - i + 1 <= run.count
    BY <2>1, <2>6, <2>7, <2>8
  <2> QED BY <2>9, Zenon DEF X, start, S, cs, run, Presence
<1> QED BY <1>1, <1>2, Zenon DEF SilenceIsExact

\* With a whole record and no text typed twice, the ledger takes for human presence the
\* moments of the human acts and no other, a silence has no act in it and the longest run
\* of commits without a human is one; the report never takes a hole in the record for a
\* silence, and its tables agree with each other.
THEOREM SilenceStands == RecordsSpec => []SilenceIsExact
<1>1. RecordsInit => LedgerInv /\ Logged /\ Metered /\ Held /\ Once /\ Told
  BY InitAccounted, InitLogged, InitMetered, InitHeld, InitOnce, InitTold DEF RecordsInit
<1>2. LedgerInv /\ Logged /\ Metered /\ Held /\ Once /\ Told /\ [RecordsNext]_<<vars, shelf>>
        => (LedgerInv /\ Logged /\ Metered /\ Held /\ Once /\ Told)'
  BY LedgerKeeps, LoggedKeeps, MeteredKeeps, HeldKeeps, OnceKeeps, ToldKeeps DEF RecordsNext
<1>3. LedgerInv /\ Logged /\ Metered /\ Held /\ Once /\ Told => SilenceIsExact
  BY SilenceAre
<1> QED BY <1>1, <1>2, <1>3, PTL DEF RecordsSpec
==============================================================================
