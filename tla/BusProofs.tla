------------------------------ MODULE BusProofs ------------------------------
(***************************************************************************)
(* Proofs about Bus, for every set of posters, hands and watchers.         *)
(*                                                                         *)
(* The file only grows, so what was counted up to a place stays counted.   *)
(* If at the end of an append the file has grown by the reference alone,   *)
(* nobody came between the offset, the count and the append.               *)
(*                                                                         *)
(* A watcher counts the newlines before a post is appended or after it, so *)
(* a poll takes the whole post or none of it: a report that begins before  *)
(* the post shows all its lines, and the header of a post that stands      *)
(* clean opens it while none that it quotes does.                          *)
(***************************************************************************)
EXTENDS Bus, FiniteSetTheorems, SequenceTheorems, WellFoundedInduction, TLAPS

Seat == Posters \cup Hands \cup {Maestro}
Piece == {NL} \cup {Header(by, says, key) : by \in Seat, says \in Seat, key \in Int}
              \cup {Text(by) : by \in Seat}

\* The newlines among the first k.
NewLines(file, k) == Cardinality({i \in 1..k : file[i] = NL})

Places == {"idle", "read", "composed", "offset", "counted", "appended"}
TypeOK ==
  /\ bus \in Seq(Piece)
  /\ post \in [Posters -> [at : Places, seen : Nat \cup {-1}, ref : Seq(Piece), off : Nat, pre : Nat]]
  /\ certified \in SUBSET [by : Posters, off : Nat, ref : Seq(Piece), seen : Nat \cup {-1}, gap : Int]

\* What a poster has measured, of the file as it is now.
Measured(file, c) ==
  /\ c.at \in {"idle", "read", "composed"} => c.seen <= NewLines(file, Len(file))
  /\ c.at \in {"offset", "counted", "appended"} =>
       c.off <= Len(file) /\ c.seen <= NewLines(file, c.off)
  /\ c.at = "counted" => \E k \in c.off..Len(file) : c.pre = NewLines(file, k)
  /\ c.at = "appended" =>
       \E k \in c.off..Len(file) : k + Len(c.ref) <= Len(file) /\ c.pre = NewLines(file, k)

\* What a receipt says, of the file as it is now.
Stands(file, r) ==
  /\ r.off + Len(r.ref) <= Len(file)
  /\ \A i \in 1..Len(r.ref) : file[r.off + i] = r.ref[i]
  /\ r.seen # -1 => r.gap = NewLines(file, r.off) - r.seen

BusInv ==
  /\ TypeOK
  /\ \A s \in Posters : Measured(bus, post[s])
  /\ \A r \in certified : Stands(bus, r)
----------------------------------------------------------------------------
(* Newlines of a file that grows. *)

LEMMA NewLinesMonotonic ==
  ASSUME NEW file, NEW j \in Nat, NEW k \in Nat, j <= k
  PROVE  NewLines(file, j) \in Nat /\ NewLines(file, k) \in Nat /\ NewLines(file, j) <= NewLines(file, k)
<1> DEFINE S(n) == {i \in 1..n : file[i] = NL}
<1>1. \A n \in Nat : IsFiniteSet(S(n)) /\ Cardinality(S(n)) \in Nat
  <2>1. TAKE n \in Nat
  <2>2. IsFiniteSet(1..n)
    BY FS_Interval
  <2>3. S(n) \in SUBSET (1..n)
    OBVIOUS
  <2> QED BY <2>2, <2>3, FS_Subset, FS_CardinalityType
<1>2. S(j) \in SUBSET S(k)
  OBVIOUS
<1>3. Cardinality(S(j)) <= Cardinality(S(k))
  BY <1>1, <1>2, FS_Subset
<1> QED BY <1>1, <1>3 DEF NewLines

LEMMA PrefixLines ==
  ASSUME NEW T, NEW file \in Seq(T), NEW k \in 0..Len(file)
  PROVE  WcL(SubSeq(file, 1, k)) = NewLines(file, k) /\ WcL(file) = NewLines(file, Len(file))
<1>1. DOMAIN file = 1..Len(file)
  OBVIOUS
<1>2. /\ DOMAIN SubSeq(file, 1, k) = 1..k
      /\ \A i \in 1..k : SubSeq(file, 1, k)[i] = file[i]
  OBVIOUS
<1>3. {i \in DOMAIN SubSeq(file, 1, k) : SubSeq(file, 1, k)[i] = NL} = {i \in 1..k : file[i] = NL}
  BY <1>2
<1> QED BY <1>1, <1>3 DEF WcL, NewLines

\* What stands at a place of a region.
LEMMA RegionAt ==
  ASSUME NEW T, NEW file \in Seq(T), NEW off \in Nat, NEW n \in Nat, off + n <= Len(file)
  PROVE  \A i \in 1..n : SubSeq(file, off + 1, off + n)[i] = file[off + i]
<1>1. \A i \in (off + 1)..(off + n) : file[i] \in T
  OBVIOUS
<1> QED BY <1>1

\* The lines that landed, where not fewer were counted than seen.
LEMMA IntervalIs ==
  ASSUME NEW s, post[s].seen \in Nat \cup {-1}, post[s].pre \in Nat
  PROVE  /\ Interval(s) \in Int
         /\ post[s].seen # -1 /\ post[s].pre >= post[s].seen => Interval(s) = post[s].pre - post[s].seen
<1>1. ASSUME NEW n \in Int
      PROVE  Max({0, n}) \in Int /\ (n >= 0 => Max({0, n}) = n)
  <2>1. \E x \in {0, n} : \A y \in {0, n} : x >= y
    OBVIOUS
  <2>2. Max({0, n}) \in {0, n} /\ \A y \in {0, n} : Max({0, n}) >= y
    BY <2>1 DEF Max
  <2> QED BY <2>2
<1> DEFINE n == post[s].pre - post[s].seen
<1>2. n \in Int /\ (post[s].pre >= post[s].seen => n >= 0)
  OBVIOUS
<1>3. Interval(s) = IF post[s].seen = -1 THEN -1 ELSE Max({0, n})
  BY DEF Interval
<1> HIDE DEF n
<1>4. Max({0, n}) \in Int /\ (n >= 0 => Max({0, n}) = n)
  BY <1>1, <1>2
<1>5. Interval(s) \in Int
  BY <1>3, <1>4
<1> QED BY <1>2, <1>3, <1>4, <1>5 DEF n

\* What was measured of a file, and what a receipt says of it, stays true.
LEMMA Growth ==
  ASSUME NEW T, NEW file \in Seq(T), NEW more \in Seq(T)
  PROVE  /\ file \o more \in Seq(T) /\ Len(file \o more) = Len(file) + Len(more)
         /\ \A i \in 1..Len(file) : (file \o more)[i] = file[i]
         /\ \A i \in 1..Len(more) : (file \o more)[Len(file) + i] = more[i]
         /\ \A k \in 0..Len(file) : NewLines(file \o more, k) = NewLines(file, k)
<1>1. /\ file \o more \in Seq(T) /\ Len(file \o more) = Len(file) + Len(more)
      /\ \A i \in 1..Len(file) : (file \o more)[i] = file[i]
      /\ \A i \in 1..Len(more) : (file \o more)[Len(file) + i] = more[i]
  OBVIOUS
<1>2. ASSUME NEW k \in 0..Len(file)
      PROVE  {i \in 1..k : (file \o more)[i] = NL} = {i \in 1..k : file[i] = NL}
  BY <1>1, <1>2
<1> QED BY <1>1, <1>2 DEF NewLines
----------------------------------------------------------------------------
(* Types. *)

\* The reference is a sequence of pieces; the first two are a newline and a header.
LEMMA ReferenceType ==
  ASSUME NEW s \in Posters, NEW key \in Keys, NEW quoted \in {{}, {Maestro} \ {s}}
  PROVE  Reference(s, key, quoted) \in Seq(Piece)
<1>1. /\ NL \in Piece /\ Text(s) \in Piece /\ Header(s, s, key) \in Piece
      /\ Header(s, Maestro, key - 1) \in Piece
  BY BusAssumption DEF Piece, Seat
<1>2. quoted # {} => (CHOOSE q \in quoted : TRUE) = Maestro
  OBVIOUS
<1> DEFINE quote == IF quoted = {} THEN <<>> ELSE <<NL, Header(s, CHOOSE q \in quoted : TRUE, key - 1), NL, Text(s)>>
<1>3. <<NL, Header(s, s, key), NL, Text(s)>> \in Seq(Piece)
  BY <1>1
<1>4. quote \in Seq(Piece)
  <2>1. CASE quoted = {}
    BY <2>1
  <2>2. CASE quoted # {}
    <3>1. quote = <<NL, Header(s, Maestro, key - 1), NL, Text(s)>>
      BY <2>2, <1>2
    <3> HIDE DEF quote
    <3> QED BY <3>1, <1>1
  <2> QED BY <2>1, <2>2
<1>5. <<NL>> \in Seq(Piece)
  BY <1>1
<1> HIDE DEF quote
<1>6. <<NL, Header(s, s, key), NL, Text(s)>> \o quote \o <<NL>> \in Seq(Piece)
  BY <1>3, <1>4, <1>5, ConcatProperties
<1> QED BY <1>6 DEF Reference, quote

\* Whatever is appended to the file, what is known of it stays known.
LEMMA AppendKeeps ==
  ASSUME NEW more \in Seq(Piece), bus' = bus \o more, BusInv
  PROVE  /\ bus' \in Seq(Piece)
         /\ \A s \in Posters : Measured(bus', post[s])
         /\ \A r \in certified : Stands(bus', r)
<1> USE DEF BusInv
<1>1. /\ bus' \in Seq(Piece) /\ Len(bus') = Len(bus) + Len(more) /\ Len(bus) \in Nat /\ Len(more) \in Nat
      /\ \A i \in 1..Len(bus) : bus'[i] = bus[i]
      /\ \A k \in 0..Len(bus) : NewLines(bus', k) = NewLines(bus, k)
  BY Growth DEF TypeOK
<1>2. NewLines(bus', Len(bus)) <= NewLines(bus', Len(bus')) /\ NewLines(bus', Len(bus)) = NewLines(bus, Len(bus))
  BY <1>1, NewLinesMonotonic
<1>3. \A k \in 0..Len(bus') : NewLines(bus', k) \in Nat
  BY <1>1, NewLinesMonotonic
<1>a. \A n \in Int : n <= NewLines(bus, Len(bus)) => n <= NewLines(bus', Len(bus'))
  <2>1. NewLines(bus', Len(bus)) \in Nat /\ NewLines(bus', Len(bus')) \in Nat
    BY <1>1, <1>3
  <2> QED BY <1>2, <2>1
<1>4. ASSUME NEW s \in Posters PROVE Measured(bus', post[s])
  <2> DEFINE c == post[s]
  <2>1. c.off \in Nat /\ c.pre \in Nat /\ c.seen \in Nat \cup {-1} /\ Len(c.ref) \in Nat
    BY <1>4 DEF TypeOK
  <2>2. Measured(bus, c)
    BY <1>4
  <2> HIDE DEF c
  <2>3. c.at \in {"idle", "read", "composed"} => c.seen <= NewLines(bus', Len(bus'))
    BY <2>1, <2>2, <1>a DEF Measured
  <2>4. c.at \in {"offset", "counted", "appended"} => c.off <= Len(bus') /\ c.seen <= NewLines(bus', c.off)
    BY <2>1, <2>2, <1>1 DEF Measured
  <2>5. c.at = "counted" => \E k \in c.off..Len(bus') : c.pre = NewLines(bus', k)
    <3> SUFFICES ASSUME c.at = "counted" PROVE \E k \in c.off..Len(bus') : c.pre = NewLines(bus', k)
      OBVIOUS
    <3>1. PICK k \in c.off..Len(bus) : c.pre = NewLines(bus, k)
      BY <2>2 DEF Measured
    <3> QED BY <3>1, <2>1, <1>1
  <2>6. c.at = "appended" => \E k \in c.off..Len(bus') : k + Len(c.ref) <= Len(bus') /\ c.pre = NewLines(bus', k)
    <3> SUFFICES ASSUME c.at = "appended"
                 PROVE  \E k \in c.off..Len(bus') : k + Len(c.ref) <= Len(bus') /\ c.pre = NewLines(bus', k)
      OBVIOUS
    <3>1. PICK k \in c.off..Len(bus) : k + Len(c.ref) <= Len(bus) /\ c.pre = NewLines(bus, k)
      BY <2>2 DEF Measured
    <3> QED BY <3>1, <2>1, <1>1
  <2>7. Measured(bus', c)
    BY <2>3, <2>4, <2>5, <2>6 DEF Measured
  <2> QED BY <2>7 DEF c
<1>5. ASSUME NEW r \in certified PROVE Stands(bus', r)
  <2>1. r.off \in Nat /\ Len(r.ref) \in Nat
    BY <1>5 DEF TypeOK
  <2>2. Stands(bus, r)
    BY <1>5
  <2>3. r.off + Len(r.ref) <= Len(bus')
    BY <2>1, <2>2, <1>1 DEF Stands
  <2>4. ASSUME NEW i \in 1..Len(r.ref) PROVE bus'[r.off + i] = r.ref[i]
    <3>1. r.off + i \in 1..Len(bus) /\ bus[r.off + i] = r.ref[i]
      BY <2>1, <2>2, <2>4, <1>1 DEF Stands
    <3> QED BY <3>1, <1>1
  <2>5. NewLines(bus', r.off) = NewLines(bus, r.off)
    BY <2>1, <2>2, <1>1 DEF Stands
  <2> QED BY <2>2, <2>3, <2>4, <2>5 DEF Stands
<1> QED BY <1>1, <1>4, <1>5
----------------------------------------------------------------------------
(* One step. *)

Poster == [at : Places, seen : Nat \cup {-1}, ref : Seq(Piece), off : Nat, pre : Nat]

\* A poster takes a step that leaves the file and the receipts alone.
LEMMA PosterStep ==
  ASSUME BusInv, NEW s \in Posters, NEW new \in Poster, Measured(bus, new),
         post' = [post EXCEPT ![s] = new], UNCHANGED <<bus, certified>>
  PROVE  BusInv'
<1>1. TypeOK'
  BY DEF BusInv, TypeOK, Poster
<1>2. \A t \in Posters : post'[t] = IF t = s THEN new ELSE post[t]
  BY DEF BusInv, TypeOK
<1>3. \A t \in Posters : Measured(bus', post'[t])
  BY <1>2 DEF BusInv
<1>4. \A r \in certified' : Stands(bus', r)
  BY DEF BusInv
<1> QED BY <1>1, <1>3, <1>4 DEF BusInv

LEMMA InitHolds == BusInit => BusInv
<1> SUFFICES ASSUME BusInit PROVE BusInv
  OBVIOUS
<1>1. Asleep \in Poster /\ Asleep.at = "idle" /\ Asleep.seen = -1
  BY EmptySeq DEF Asleep, Poster, Places
<1>2. bus \in Seq(Piece) /\ Len(bus) = 0
  BY DEF BusInit
<1>3. NewLines(bus, Len(bus)) \in Nat
  BY <1>2, NewLinesMonotonic
<1>4. Measured(bus, Asleep)
  BY <1>1, <1>3 DEF Measured
<1>5. post \in [Posters -> Poster] /\ \A s \in Posters : post[s] = Asleep
  BY <1>1 DEF BusInit
<1>6. TypeOK
  BY <1>2, <1>5 DEF TypeOK, Poster, BusInit
<1> QED BY <1>4, <1>5, <1>6 DEF BusInv, BusInit

LEMMA AnchorStep == ASSUME BusInv, NEW s \in Posters, Anchor(s) PROVE BusInv'
<1> DEFINE new == [Asleep EXCEPT !.at = "read", !.seen = WcL(bus)]
<1>1. bus \in Seq(Piece) /\ Len(bus) \in Nat
  BY DEF BusInv, TypeOK
<1>2. WcL(bus) = NewLines(bus, Len(bus)) /\ NewLines(bus, Len(bus)) \in Nat
  BY <1>1, PrefixLines, NewLinesMonotonic
<1>3. Asleep \in Poster
  BY EmptySeq DEF Asleep, Poster, Places
<1>4. new \in Poster /\ new.at = "read" /\ new.seen = WcL(bus)
  BY <1>2, <1>3 DEF Poster, Places
<1>5. Measured(bus, new)
  BY <1>2, <1>4 DEF Measured
<1>6. post' = [post EXCEPT ![s] = new] /\ UNCHANGED <<bus, certified>>
  BY DEF Anchor, Goes
<1> HIDE DEF new
<1> QED BY <1>4, <1>5, <1>6, PosterStep

LEMMA ComposeStep ==
  ASSUME BusInv, NEW s \in Posters, NEW key \in Keys, NEW quoted \in {{}, {Maestro} \ {s}},
         Compose(s, key, quoted)
  PROVE  BusInv'
<1> DEFINE ref == Reference(s, key, quoted)
           new == [post[s] EXCEPT !.at = "composed", !.ref = ref]
<1>1. post[s] \in Poster /\ post[s].at \in {"idle", "read"} /\ Measured(bus, post[s])
  BY DEF BusInv, TypeOK, Poster, Compose
<1>2. ref \in Seq(Piece)
  BY ReferenceType
<1>3. post' = [post EXCEPT ![s] = new] /\ UNCHANGED <<bus, certified>>
  BY DEF Compose, Goes
<1> HIDE DEF ref
<1>4. new \in Poster /\ new.at = "composed" /\ new.seen = post[s].seen
  BY <1>1, <1>2 DEF Poster, Places
<1>5. Measured(bus, new)
  BY <1>1, <1>4 DEF Measured
<1> HIDE DEF new
<1> QED BY <1>3, <1>4, <1>5, PosterStep

LEMMA OffsetStep == ASSUME BusInv, NEW s \in Posters, Offset(s) PROVE BusInv'
<1> DEFINE new == [post[s] EXCEPT !.at = "offset", !.off = Len(bus)]
<1>1. post[s] \in Poster /\ post[s].at = "composed" /\ Measured(bus, post[s]) /\ Len(bus) \in Nat
  BY DEF BusInv, TypeOK, Poster, Offset, Goes
<1>2. post' = [post EXCEPT ![s] = new] /\ UNCHANGED <<bus, certified>>
  BY DEF Offset, Goes
<1>3. new \in Poster /\ new.at = "offset" /\ new.seen = post[s].seen /\ new.off = Len(bus)
  BY <1>1 DEF Poster, Places
<1>4. Measured(bus, new)
  BY <1>1, <1>3 DEF Measured
<1> HIDE DEF new
<1> QED BY <1>2, <1>3, <1>4, PosterStep

LEMMA CountLinesStep == ASSUME BusInv, NEW s \in Posters, CountLines(s) PROVE BusInv'
<1> DEFINE new == [post[s] EXCEPT !.at = "counted", !.pre = WcL(bus)]
<1>1. /\ post[s] \in Poster /\ post[s].at = "offset" /\ Measured(bus, post[s])
      /\ bus \in Seq(Piece) /\ Len(bus) \in Nat
  BY DEF BusInv, TypeOK, Poster, CountLines, Goes
<1>2. WcL(bus) = NewLines(bus, Len(bus)) /\ NewLines(bus, Len(bus)) \in Nat
  BY <1>1, PrefixLines, NewLinesMonotonic
<1>3. post' = [post EXCEPT ![s] = new] /\ UNCHANGED <<bus, certified>>
  BY DEF CountLines, Goes
<1>4. /\ new \in Poster /\ new.at = "counted" /\ new.seen = post[s].seen
      /\ new.off = post[s].off /\ new.pre = NewLines(bus, Len(bus))
  BY <1>1, <1>2 DEF Poster, Places
<1>5. new.off \in Nat /\ new.off <= Len(bus) /\ new.seen <= NewLines(bus, new.off)
  BY <1>1, <1>4 DEF Measured, Poster
<1> HIDE DEF new
<1>6. \E k \in new.off..Len(bus) : new.pre = NewLines(bus, k)
  BY <1>1, <1>4, <1>5
<1>7. Measured(bus, new)
  BY <1>4, <1>5, <1>6 DEF Measured
<1> QED BY <1>3, <1>4, <1>7, PosterStep

LEMMA AppendStep == ASSUME BusInv, NEW s \in Posters, Append_(s) PROVE BusInv'
<1> DEFINE new == [post[s] EXCEPT !.at = "appended"]
<1>1. post[s] \in Poster /\ post[s].at = "counted" /\ Measured(bus, post[s])
  BY DEF BusInv, TypeOK, Poster, Append_, Goes
<1>2. post[s].ref \in Seq(Piece) /\ bus' = bus \o post[s].ref
  BY <1>1 DEF Poster, Append_
<1>3. /\ bus' \in Seq(Piece)
      /\ \A t \in Posters : Measured(bus', post[t])
      /\ \A r \in certified : Stands(bus', r)
  BY <1>2, AppendKeeps
<1>4. post' = [post EXCEPT ![s] = new] /\ certified' = certified
  BY DEF Append_, Goes
<1>5. /\ new \in Poster /\ new.at = "appended" /\ new.seen = post[s].seen /\ new.off = post[s].off
      /\ new.pre = post[s].pre /\ new.ref = post[s].ref
  BY <1>1 DEF Poster, Places
<1>6. /\ post[s].off \in Nat /\ Len(bus) \in Nat /\ Len(post[s].ref) \in Nat
      /\ Len(bus') = Len(bus) + Len(post[s].ref)
      /\ \A k \in 0..Len(bus) : NewLines(bus', k) = NewLines(bus, k)
  BY <1>1, <1>2, Growth DEF Poster, BusInv, TypeOK
<1>7. PICK k \in post[s].off..Len(bus) : post[s].pre = NewLines(bus, k)
  BY <1>1 DEF Measured
<1>8. k \in post[s].off..Len(bus') /\ k + Len(post[s].ref) <= Len(bus') /\ post[s].pre = NewLines(bus', k)
  <2>1. k \in 0..Len(bus) /\ k \in Nat /\ post[s].off <= k
    BY <1>6, <1>7
  <2>2. NewLines(bus', k) = NewLines(bus, k)
    BY <1>6, <2>1
  <2> QED BY <1>6, <1>7, <2>1, <2>2
<1>9. post[s].off <= Len(bus') /\ post[s].seen <= NewLines(bus', post[s].off)
  BY <1>1, <1>3 DEF Measured
<1> HIDE DEF new
<1>10. Measured(bus', new)
  BY <1>5, <1>8, <1>9 DEF Measured
<1>11. \A t \in Posters : post'[t] = IF t = s THEN new ELSE post[t]
  BY <1>4 DEF BusInv, TypeOK
<1>12. \A t \in Posters : Measured(bus', post'[t])
  BY <1>3, <1>10, <1>11
<1>13. TypeOK'
  BY <1>3, <1>4, <1>5 DEF BusInv, TypeOK, Poster
<1> QED BY <1>3, <1>4, <1>12, <1>13 DEF BusInv

\* The file has grown by the reference alone: the count was of what was before it.
LEMMA VerifyStep == ASSUME BusInv, NEW s \in Posters, Verify(s) PROVE BusInv'
<1> DEFINE c == post[s]
           r == [by |-> s, off |-> c.off, ref |-> c.ref, seen |-> c.seen, gap |-> Interval(s)]
<1>1. c \in Poster /\ c.at = "appended" /\ Measured(bus, c)
  BY DEF BusInv, TypeOK, Poster, Verify, Goes
<1>2. bus \in Seq(Piece) /\ Len(bus) \in Nat
  BY DEF BusInv, TypeOK
<1>3. c.off \in Nat /\ c.pre \in Nat /\ c.seen \in Nat \cup {-1} /\ c.ref \in Seq(Piece) /\ Len(c.ref) \in Nat
  BY <1>1 DEF Poster
<1>4. Asleep \in Poster /\ Asleep.at = "idle" /\ Asleep.seen = -1
  BY EmptySeq DEF Asleep, Poster, Places
<1>5. NewLines(bus, Len(bus)) \in Nat
  BY <1>2, NewLinesMonotonic
<1>6. Measured(bus, Asleep)
  BY <1>4, <1>5 DEF Measured
<1>7. post' = [post EXCEPT ![s] = Asleep] /\ bus' = bus
  BY DEF Verify, Goes
<1>8. \A t \in Posters : post'[t] = IF t = s THEN Asleep ELSE post[t]
  BY <1>7 DEF BusInv, TypeOK
<1>9. \A t \in Posters : Measured(bus', post'[t])
  BY <1>6, <1>7, <1>8 DEF BusInv
<1>10. Interval(s) \in Int /\ (c.seen # -1 /\ c.pre >= c.seen => Interval(s) = c.pre - c.seen)
  BY <1>3, IntervalIs
<1>11. ASSUME Verified(s) PROVE Stands(bus, r)
  <2>1. Len(bus) = c.off + Len(c.ref) /\ SubSeq(bus, c.off + 1, c.off + Len(c.ref)) = c.ref
    BY <1>2, <1>3, <1>11 DEF Verified
  <2>2. \A i \in 1..Len(c.ref) : bus[c.off + i] = c.ref[i]
    <3>1. c.off + Len(c.ref) <= Len(bus)
      BY <1>2, <1>3, <2>1
    <3>2. \A i \in 1..Len(c.ref) : SubSeq(bus, c.off + 1, c.off + Len(c.ref))[i] = bus[c.off + i]
      BY <1>2, <1>3, <3>1, RegionAt
    <3> QED BY <2>1, <3>2
  <2>3. c.pre = NewLines(bus, c.off) /\ c.seen <= NewLines(bus, c.off)
    <3>1. PICK k \in c.off..Len(bus) : k + Len(c.ref) <= Len(bus) /\ c.pre = NewLines(bus, k)
      BY <1>1 DEF Measured
    <3>2. k = c.off
      BY <1>2, <1>3, <2>1, <3>1
    <3>3. c.seen <= NewLines(bus, c.off)
      BY <1>1 DEF Measured
    <3> QED BY <3>1, <3>2, <3>3
  <2>4. c.seen # -1 => Interval(s) = NewLines(bus, c.off) - c.seen
    BY <1>3, <1>10, <2>3
  <2> HIDE DEF c
  <2> QED BY <1>2, <1>3, <2>1, <2>2, <2>4 DEF Stands
<1>12. r \in [by : Posters, off : Nat, ref : Seq(Piece), seen : Nat \cup {-1}, gap : Int]
  BY <1>3, <1>10
<1>13. certified' = IF Verified(s) THEN certified \cup {r} ELSE certified
  BY DEF Verify
<1> HIDE DEF r, c
<1>14. \A q \in certified' : Stands(bus', q)
  BY <1>7, <1>11, <1>13 DEF BusInv
<1>15. TypeOK'
  BY <1>2, <1>4, <1>7, <1>12, <1>13 DEF BusInv, TypeOK, Poster
<1> QED BY <1>9, <1>14, <1>15 DEF BusInv

LEMMA ByHandStep ==
  ASSUME BusInv, NEW h \in Hands, NEW key \in Keys, NEW ended \in BOOLEAN, ByHand(h, key, ended)
  PROVE  BusInv'
<1>1. NL \in Piece /\ Text(h) \in Piece /\ Header(h, h, key) \in Piece
  BY BusAssumption DEF Piece, Seat
<1>2. PICK more \in Seq(Piece) : bus' = bus \o more
  <2> DEFINE head == <<Header(h, h, key), NL, Text(h)>>
             tail == IF ended THEN <<NL>> ELSE <<>>
  <2>1. head \in Seq(Piece)
    BY <1>1
  <2>2. tail \in Seq(Piece)
    BY <1>1
  <2>3. bus' = bus \o head \o tail
    BY DEF ByHand
  <2>4. bus \in Seq(Piece)
    BY DEF BusInv, TypeOK
  <2> HIDE DEF head, tail
  <2>5. bus' = bus \o (head \o tail) /\ head \o tail \in Seq(Piece)
    BY <2>1, <2>2, <2>3, <2>4, ConcatAssociative, ConcatProperties
  <2> QED BY <2>5
<1>3. post' = post /\ certified' = certified
  BY DEF ByHand
<1> QED BY <1>2, <1>3, AppendKeeps DEF BusInv, TypeOK
----------------------------------------------------------------------------
(* The theorem. *)

LEMMA StepKeeps == BusInv /\ [BusNext]_board => BusInv'
<1> SUFFICES ASSUME BusInv, [BusNext]_board PROVE BusInv'
  OBVIOUS
<1>1. ASSUME UNCHANGED <<bus, post, certified>> PROVE BusInv'
  BY <1>1 DEF BusInv, TypeOK
<1>2. ASSUME NEW s \in Posters,
             \/ Anchor(s) \/ Offset(s) \/ CountLines(s) \/ Append_(s) \/ Verify(s)
             \/ \E key \in Keys, quoted \in {{}, {Maestro} \ {s}} : Compose(s, key, quoted)
      PROVE  BusInv'
  BY <1>2, AnchorStep, OffsetStep, CountLinesStep, AppendStep, VerifyStep, ComposeStep
<1>3. ASSUME NEW h \in Hands, NEW key \in Keys, NEW ended \in BOOLEAN, ByHand(h, key, ended) PROVE BusInv'
  BY <1>3, ByHandStep
<1>4. ASSUME NEW w \in Watchers, Count_(w) \/ View(w) \/ Collect(w) \/ Orders(w) \/ Advance(w) PROVE BusInv'
  BY <1>1, <1>4 DEF Count_, View, Collect, Orders, Advance
<1>5. CASE UNCHANGED board
  BY <1>1, <1>5 DEF board
<1>6. CASE BusNext
  BY <1>2, <1>3, <1>4, <1>6 DEF BusNext
<1> QED BY <1>5, <1>6

LEMMA StandingIsTrue == BusInv => ReceiptsAreTrue
<1> SUFFICES ASSUME BusInv, NEW r \in certified
             PROVE  /\ SubSeq(bus, r.off + 1, r.off + Len(r.ref)) = r.ref
                    /\ r.seen # -1 => r.gap = WcL(SubSeq(bus, 1, r.off)) - r.seen
  BY DEF ReceiptsAreTrue
<1>1. bus \in Seq(Piece) /\ r.off \in Nat /\ r.ref \in Seq(Piece) /\ Len(r.ref) \in Nat
  BY DEF BusInv, TypeOK
<1>2. Stands(bus, r)
  BY DEF BusInv
<1> DEFINE sub == SubSeq(bus, r.off + 1, r.off + Len(r.ref))
<1>3. \A i \in (r.off + 1)..(r.off + Len(r.ref)) : bus[i] \in Piece
  BY <1>1, <1>2 DEF Stands
<1>4. /\ sub \in Seq(Piece) /\ Len(sub) = Len(r.ref)
      /\ \A i \in 1..Len(r.ref) : sub[i] = bus[r.off + i]
  <2> DEFINE m == r.off + 1  n == r.off + Len(r.ref)
  <2>1. m \in Int /\ n \in Int /\ \A i \in m..n : bus[i] \in Piece
    BY <1>1, <1>3
  <2>2. n - m + 1 = Len(r.ref) /\ (m <= n \/ Len(r.ref) = 0) /\ \A i \in 1..Len(r.ref) : m + i - 1 = r.off + i
    BY <1>1
  <2> HIDE DEF m, n
  <2>3. /\ SubSeq(bus, m, n) \in Seq(Piece)
        /\ Len(SubSeq(bus, m, n)) = IF m <= n THEN n - m + 1 ELSE 0
        /\ \A i \in 1..(n - m + 1) : SubSeq(bus, m, n)[i] = bus[m + i - 1]
    BY <2>1, SubSeqProperties
  <2>4. Len(SubSeq(bus, m, n)) = Len(r.ref)
    BY <2>1, <2>2, <2>3, <1>1
  <2> QED BY <2>2, <2>3, <2>4 DEF m, n
<1>5. sub = r.ref
  <2> HIDE DEF sub
  <2> QED BY <1>1, <1>2, <1>4, SeqEqual DEF Stands
<1>6. r.off \in 0..Len(bus)
  BY <1>1, <1>2 DEF Stands
<1>7. WcL(SubSeq(bus, 1, r.off)) = NewLines(bus, r.off)
  BY <1>1, <1>6, PrefixLines
<1> QED BY <1>2, <1>5, <1>7 DEF Stands

\* A certified post stands in the bus where its receipt says, and what the
\* receipt says of the time of composing is so, whoever appends in between
\* (bus_append.sh: the read-back and the gap).
THEOREM Receipts == BusSpec => []ReceiptsAreTrue
<1>1. BusSpec => []BusInv
  BY InitHolds, StepKeeps, PTL DEF BusSpec
<1> QED BY <1>1, StandingIsTrue, PTL
----------------------------------------------------------------------------
(* Numbers.                                                                 *)

LEMMA LeastOf ==
  ASSUME NEW T \in SUBSET Nat, T # {}
  PROVE  \E x \in T : \A y \in T : x <= y
<1> DEFINE R == {ss \in Nat \X Nat : ss[1] < ss[2]}
<1>1. IsWellFoundedOn(R, Nat)
  BY NatLessThanWellFounded DEF OpToRel
<1>2. \E x \in T : \A y \in T : ~ (<<y, x>> \in R)
  <2> HIDE DEF R
  <2> QED
    BY <1>1, WFMin
<1>3. PICK x \in T : \A y \in T : ~ (<<y, x>> \in R)
  BY <1>2
<1>4. ASSUME NEW y \in T
      PROVE  x <= y
  <2>1. x \in Nat /\ y \in Nat /\ <<y, x>> \in Nat \X Nat /\ <<y, x>>[1] = y /\ <<y, x>>[2] = x
    OBVIOUS
  <2>2. ~ (y < x)
    BY <1>3, <2>1
  <2>3. QED
    BY <2>1, <2>2
<1>5. QED
  BY <1>4

----------------------------------------------------------------------------
(* Whose a line is.                                                          *)

\* The form of a reference: what makes a header of its first line, and why no
\* quoted header in it opens a post.
Form(b, ref) ==
  /\ Len(ref) >= 5 /\ ref[1] = NL /\ ref[Len(ref)] = NL
  /\ ref[2].kind = "head" /\ ref[2].says = b /\ ref[2].key \in Int
  /\ \A i \in 3..Len(ref) : ref[i].kind = "head" => ref[i].key < ref[2].key /\ ref[i - 2] # NL
Place(file, off, ref) == off + Len(ref) <= Len(file) /\ \A i \in 1..Len(ref) : file[off + i] = ref[i]
CleanIn(file, off, key) == off = 0 \/ file[off] = NL \/ key >= lastkey(file, off + 2)

\* The greatest of a set is the member that no other exceeds.
LEMMA MaxIs ==
  ASSUME NEW S \in SUBSET Int, NEW m \in S, \A y \in S : m >= y
  PROVE  Max(S) = m
<1>1. \E x \in S : \A y \in S : x >= y
  OBVIOUS
<1>2. Max(S) \in S /\ \A y \in S : Max(S) >= y
  BY <1>1 DEF Max
<1>3. Max(S) \in Int /\ m \in Int
  BY <1>2
<1>4. Max(S) >= m /\ m >= Max(S)
  BY <1>2
<1> QED BY <1>3, <1>4

\* Every reference has that form.
LEMMA ReferenceForm ==
  ASSUME NEW s \in Posters, NEW key \in Keys, NEW quoted \in {{}, {Maestro} \ {s}}
  PROVE  Form(s, Reference(s, key, quoted))
<1> DEFINE a == <<NL, Header(s, s, key), NL, Text(s)>>
           q == Header(s, Maestro, key - 1)
           ref == Reference(s, key, quoted)
<1>1. key \in Int
  BY BusAssumption
<1>2. NL.kind # "head" /\ Text(s).kind # "head" /\ Text(s) # NL
  BY DEF NL, Text
<1>3. q.key = key - 1 /\ Header(s, s, key).kind = "head" /\ Header(s, s, key).says = s /\ Header(s, s, key).key = key
  BY DEF Header
<1> DEFINE quote == IF quoted = {} THEN <<>> ELSE <<NL, Header(s, CHOOSE x \in quoted : TRUE, key - 1), NL, Text(s)>>
<1>4. NL \in Piece /\ Text(s) \in Piece /\ Header(s, s, key) \in Piece /\ q \in Piece
  BY <1>1 DEF Piece, Seat
<1> HIDE DEF q
<1>5. quote \in Seq(Piece) /\ (quote = <<>> \/ quote = <<NL, q, NL, Text(s)>>)
  <2>1. CASE quoted = {}
    BY <2>1
  <2>2. CASE quoted # {}
    <3>1. (CHOOSE x \in quoted : TRUE) = Maestro
      BY <2>2
    <3>2. quote = <<NL, q, NL, Text(s)>>
      BY <2>2, <3>1 DEF q
    <3> HIDE DEF quote
    <3> QED BY <1>4, <3>2
  <2> QED BY <2>1, <2>2
<1>6. ref = a \o quote \o <<NL>>
  BY DEF Reference
<1>7. /\ a \in Seq(Piece) /\ Len(a) = 4 /\ <<NL>> \in Seq(Piece)
      /\ a[1] = NL /\ a[2] = Header(s, s, key) /\ a[3] = NL /\ a[4] = Text(s)
  BY <1>4
<1> HIDE DEF quote, a, ref
<1>8. /\ a \o quote \in Seq(Piece) /\ Len(a \o quote) = 4 + Len(quote)
      /\ \A i \in 1..4 : (a \o quote)[i] = a[i]
      /\ \A i \in 1..Len(quote) : (a \o quote)[4 + i] = quote[i]
  <2>1. /\ a \o quote \in Seq(Piece) /\ Len(a \o quote) = Len(a) + Len(quote)
        /\ \A i \in 1..Len(a) : (a \o quote)[i] = a[i]
        /\ \A i \in 1..Len(quote) : (a \o quote)[Len(a) + i] = quote[i]
    <3>1. a \in Seq(Piece) /\ quote \in Seq(Piece)
      BY <1>5, <1>7
    <3> QED BY <3>1, Growth
  <2> QED BY <1>7, <2>1
<1>9. /\ Len(ref) = 5 + Len(quote) /\ \A i \in 1..(4 + Len(quote)) : ref[i] = (a \o quote)[i]
      /\ ref[5 + Len(quote)] = NL
  BY <1>6, <1>7, <1>8, Growth
<1>10. /\ ref[1] = NL /\ ref[2] = Header(s, s, key) /\ ref[3] = NL /\ ref[4] = Text(s) /\ Len(quote) \in Nat
  BY <1>5, <1>7, <1>8, <1>9
<1>11. CASE quote = <<>>
  <2>1. Len(ref) = 5 /\ ref[5] = NL
    BY <1>9, <1>11
  <2>2. \A i \in 3..Len(ref) : ref[i].kind # "head"
    BY <1>2, <1>10, <2>1
  <2>3. Form(s, ref)
    BY <1>1, <1>3, <1>10, <2>1, <2>2 DEF Form
  <2> QED BY <2>3 DEF ref
<1>12. CASE quote = <<NL, q, NL, Text(s)>>
  <2>1. Len(quote) = 4 /\ quote[1] = NL /\ quote[2] = q /\ quote[3] = NL /\ quote[4] = Text(s)
    BY <1>12
  <2>2. ASSUME NEW i \in 1..4 PROVE ref[4 + i] = quote[i]
    <3>1. 4 + i \in 1..(4 + Len(quote)) /\ i \in 1..Len(quote)
      BY <2>1
    <3>2. ref[4 + i] = (a \o quote)[4 + i] /\ (a \o quote)[4 + i] = quote[i]
      BY <1>8, <1>9, <3>1
    <3> QED BY <3>2
  <2>3. Len(ref) = 9 /\ ref[5] = NL /\ ref[6] = q /\ ref[7] = NL /\ ref[8] = Text(s) /\ ref[9] = NL
    <3>1. ref[4 + 1] = NL /\ ref[4 + 2] = q /\ ref[4 + 3] = NL /\ ref[4 + 4] = Text(s)
      BY <2>1, <2>2
    <3> QED BY <1>9, <2>1, <3>1
  <2>4. \A i \in 3..Len(ref) : ref[i].kind = "head" => i = 6
    BY <1>2, <1>10, <2>3
  <2>5. q.key < key /\ ref[4] # NL
    BY <1>1, <1>2, <1>3, <1>10
  <2>6. Form(s, ref)
    BY <1>1, <1>3, <1>10, <2>3, <2>4, <2>5 DEF Form
  <2> QED BY <2>6 DEF ref
<1> QED BY <1>5, <1>11, <1>12

\* The last key is of no header older than one above.
LEMMA LastKeyBounds ==
  ASSUME NEW file \in Seq(Piece), NEW i \in 1..(Len(file) + 1)
  PROVE  /\ lastkey(file, i) \in Int
         /\ \A k \in 1..(i - 1) : IsHeader(file, k) => lastkey(file, i) >= file[k].key
<1> DEFINE K(n) == {0} \cup {file[j].key : j \in {k \in 1..n : IsHeader(file, k)}}
           HasMax(n) == \E m \in K(n) : \A y \in K(n) : m >= y
           none == {n \in 0..Len(file) : ~HasMax(n)}
<1>1. \A k \in 1..Len(file) : IsHeader(file, k) => file[k].key \in Int
  BY DEF Piece, IsHeader, NL, Header, Text
<1>2. \A n \in 0..Len(file) : K(n) \in SUBSET Int
  BY <1>1
<1>3. none = {}
  <2> SUFFICES ASSUME none # {} PROVE FALSE
    OBVIOUS
  <2>1. none \in SUBSET Nat
    OBVIOUS
  <2> HIDE DEF none
  <2>2. PICK n \in none : \A m \in none : n <= m
    BY <2>1, LeastOf
  <2>3. n \in 0..Len(file) /\ ~HasMax(n)
    BY DEF none
  <2>4. n # 0
    <3>1. K(0) = {0}
      OBVIOUS
    <3>2. HasMax(0)
      BY <3>1
    <3> QED BY <2>3, <3>2
  <2>5. HasMax(n - 1)
    <3>1. n - 1 \in 0..Len(file) /\ ~(n <= n - 1)
      BY <2>3, <2>4
    <3>2. n - 1 \notin none
      BY <2>2, <3>1
    <3> HIDE DEF HasMax
    <3> QED BY <3>1, <3>2 DEF none
  <2>6. K(n) = IF IsHeader(file, n) THEN K(n - 1) \cup {file[n].key} ELSE K(n - 1)
    BY <2>3, <2>4
  <2>7. K(n - 1) \in SUBSET Int /\ (IsHeader(file, n) => file[n].key \in Int)
    BY <1>1, <1>2, <2>3, <2>4
  <2> HIDE DEF K
  <2>8. PICK m \in K(n - 1) : \A y \in K(n - 1) : m >= y
    BY <2>5
  <2>9. HasMax(n)
    <3>1. CASE IsHeader(file, n) /\ file[n].key > m
      BY <2>6, <2>7, <2>8, <3>1
    <3>2. CASE ~(IsHeader(file, n) /\ file[n].key > m)
      BY <2>6, <2>7, <2>8, <3>2
    <3> QED BY <3>1, <3>2
  <2> QED BY <2>3, <2>9
<1>4. HasMax(i - 1) /\ K(i - 1) \in SUBSET Int
  <2>1. i - 1 \in 0..Len(file)
    OBVIOUS
  <2> HIDE DEF HasMax, K
  <2> QED BY <1>2, <1>3, <2>1
<1>5. lastkey(file, i) = Max(K(i - 1))
  BY DEF lastkey
<1>6. \A k \in 1..(i - 1) : IsHeader(file, k) => file[k].key \in K(i - 1)
  OBVIOUS
<1> HIDE DEF K
<1>7. Max(K(i - 1)) \in Int /\ \A y \in K(i - 1) : Max(K(i - 1)) >= y
  BY <1>4, MaxIs
<1> QED BY <1>5, <1>6, <1>7

\* The place of the file before which newlines are counted.
LEMMA LineIs ==
  ASSUME NEW file \in Seq(Piece), NEW i \in 1..(Len(file) + 1)
  PROVE  LineOf(file, i) = 1 + NewLines(file, i - 1)
<1>1. i - 1 \in 0..Len(file)
  OBVIOUS
<1> QED BY <1>1, PrefixLines DEF LineOf

\* A newline counts one.
LEMMA NewLinesAt ==
  ASSUME NEW file, NEW k \in Nat \ {0}, file[k] = NL
  PROVE  NewLines(file, k) = NewLines(file, k - 1) + 1
<1> DEFINE S(n) == {i \in 1..n : file[i] = NL}
<1>1. S(k) = S(k - 1) \cup {k} /\ k \notin S(k - 1)
  OBVIOUS
<1>2. IsFiniteSet(1..(k - 1)) /\ S(k - 1) \in SUBSET (1..(k - 1))
  BY FS_Interval
<1>3. IsFiniteSet(S(k - 1))
  BY <1>2, FS_Subset
<1> HIDE DEF S
<1>4. Cardinality(S(k)) = Cardinality(S(k - 1)) + 1
  BY <1>1, <1>3, FS_AddElement
<1> QED BY <1>4 DEF NewLines, S

\* Of a post that stands whole and whose header can be told, the header opens it,
\* whether blank lines are noticed from the start or from a line before it, and
\* no line of it opens another.
LEMMA RegionOpens ==
  ASSUME NEW file \in Seq(Piece), NEW b, NEW off \in Nat, NEW ref \in Seq(Piece),
         Form(b, ref), Place(file, off, ref), CleanIn(file, off, ref[2].key),
         NEW start \in Nat, start <= NewLines(file, off)
  PROVE  /\ Opens(file, off + 2) /\ Opens_from(file, off + 2, start) /\ file[off + 2].says = b
         /\ \A i \in 3..Len(ref) : ~Opens(file, off + i) /\ ~Opens_from(file, off + i, start)
<1>1. /\ Len(ref) \in Nat /\ Len(file) \in Nat /\ Len(ref) >= 5 /\ off + Len(ref) <= Len(file)
      /\ \A i \in 1..Len(ref) : file[off + i] = ref[i]
  BY DEF Form, Place
<1>2. file[off + 1] = NL /\ file[off + 2] = ref[2] /\ ref[2].kind = "head" /\ ref[2].key \in Int
  BY <1>1 DEF Form
<1>3. IsHeader(file, off + 2)
  BY <1>2 DEF IsHeader
<1>4. LineOf(file, off + 2) = 1 + NewLines(file, off) + 1
  <2>1. NewLines(file, off + 1) = NewLines(file, off) + 1
    BY <1>2, NewLinesAt
  <2>2. LineOf(file, off + 2) = 1 + NewLines(file, off + 1)
    BY <1>1, LineIs
  <2>3. NewLines(file, off) \in Nat
    BY NewLinesMonotonic
  <2> QED BY <2>1, <2>2, <2>3
<1>5. prevblank(file, off + 2) \/ file[off + 2].key >= lastkey(file, off + 2)
  BY <1>2 DEF CleanIn, prevblank
<1>6. prevblank(file, off + 2) => prevblank_from(file, off + 2, start)
  <2>1. NewLines(file, off) \in Nat
    BY NewLinesMonotonic
  <2> QED BY <1>4, <2>1 DEF prevblank_from
<1>7. Opens(file, off + 2) /\ Opens_from(file, off + 2, start) /\ file[off + 2].says = b
  BY <1>2, <1>3, <1>5, <1>6 DEF Opens, hdrok, Opens_from, Form
<1>8. ASSUME NEW i \in 3..Len(ref)
      PROVE  ~Opens(file, off + i) /\ ~Opens_from(file, off + i, start)
  <2>1. SUFFICES ASSUME file[off + i].kind = "head"
                 PROVE  ~prevblank(file, off + i) /\ ~(file[off + i].key >= lastkey(file, off + i))
    BY DEF Opens, Opens_from, IsHeader, hdrok, prevblank_from
  <2>2. file[off + i] = ref[i] /\ file[(off + i) - 2] = ref[i - 2] /\ ref[i].key < ref[2].key /\ ref[i - 2] # NL
    <3>1. i - 2 \in 1..Len(ref) /\ off + (i - 2) = (off + i) - 2
      BY <1>1
    <3>2. file[off + i] = ref[i]
      BY <1>1
    <3>3. file[(off + i) - 2] = ref[i - 2]
      BY <1>1, <3>1
    <3> QED BY <2>1, <3>2, <3>3 DEF Form
  <2>3. lastkey(file, off + i) \in Int /\ lastkey(file, off + i) >= ref[2].key
    <3>1. off + i \in 1..(Len(file) + 1) /\ off + 2 \in 1..((off + i) - 1)
      BY <1>1
    <3> QED BY <1>2, <1>3, <3>1, LastKeyBounds
  <2>4. ref[i].key \in Int
    BY <2>1, <2>2 DEF Piece, NL, Text, Header
  <2>5. ~(file[off + i].key >= lastkey(file, off + i))
    <3> DEFINE x == ref[i].key  y == ref[2].key  z == lastkey(file, off + i)
    <3>1. x \in Int /\ y \in Int /\ z \in Int /\ x < y /\ z >= y
      BY <1>2, <2>2, <2>3, <2>4
    <3>2. file[off + i].key = x
      BY <2>2
    <3> HIDE DEF x, y, z
    <3>3. ~(x >= z)
      BY <3>1
    <3> QED BY <3>2, <3>3 DEF z
  <2>6. ~(off + i = 2)
    OBVIOUS
  <2> QED BY <2>2, <2>5, <2>6 DEF prevblank
<1> QED BY <1>7, <1>8

\* The lines of a post.
Its(off, ref) == {off + i : i \in {j \in 1..Len(ref) : ref[j] # NL}}

\* Whose they are.
Posted(file, b, off, ref) ==
  /\ file \in Seq(Piece) /\ off \in Nat /\ ref \in Seq(Piece)
  /\ Form(b, ref) /\ Place(file, off, ref) /\ CleanIn(file, off, ref[2].key)
LEMMA RegionOwner ==
  ASSUME NEW file, NEW b, NEW off, NEW ref, Posted(file, b, off, ref), NEW x \in Its(off, ref)
  PROVE  owner(file, x) = b /\ \A start \in Nat : start <= NewLines(file, off) => owner_from(file, x, start) = b
<1>a. /\ file \in Seq(Piece) /\ off \in Nat /\ ref \in Seq(Piece)
      /\ Form(b, ref) /\ Place(file, off, ref) /\ CleanIn(file, off, ref[2].key)
  BY DEF Posted
<1>0. PICK i \in 2..Len(ref) : x = off + i
  <2>1. PICK i \in 1..Len(ref) : ref[i] # NL /\ x = off + i
    BY DEF Its
  <2>2. ref[1] = NL
    BY <1>a DEF Form
  <2> QED BY <1>a, <2>1, <2>2
<1> DEFINE at == {j \in 1..(off + i) : Opens(file, j)}
           from(start) == {j \in 1..(off + i) : Opens_from(file, j, start)}
<1>1. ASSUME NEW start \in Nat, start <= NewLines(file, off)
      PROVE  /\ Opens(file, off + 2) /\ Opens_from(file, off + 2, start) /\ file[off + 2].says = b
             /\ \A j \in 1..(off + i) : Opens(file, j) \/ Opens_from(file, j, start) => off + 2 >= j
  <2>1. /\ Opens(file, off + 2) /\ Opens_from(file, off + 2, start) /\ file[off + 2].says = b
        /\ \A k \in 3..Len(ref) : ~Opens(file, off + k) /\ ~Opens_from(file, off + k, start)
    BY <1>a, <1>1, RegionOpens
  <2>2. ASSUME NEW j \in 1..(off + i), off + 2 < j PROVE ~Opens(file, j) /\ ~Opens_from(file, j, start)
    <3> DEFINE k == j - off
    <3>1. k \in 3..Len(ref) /\ j = off + k
      BY <1>a, <2>2
    <3> HIDE DEF k
    <3> QED BY <2>1, <3>1
  <2>3. \A j \in 1..(off + i) : ~(off + 2 < j) => off + 2 >= j
    BY <1>a
  <2> QED BY <2>1, <2>2, <2>3
<1>2. off + 2 \in 1..(off + i) /\ \A j \in 1..(off + i) : j \in Int
  BY <1>a
<1>3. owner(file, off + i) = b
  <2>1. 0 <= NewLines(file, off)
    BY <1>a, NewLinesMonotonic
  <2>2. at \in SUBSET Int /\ off + 2 \in at /\ file[off + 2].says = b /\ \A j \in at : off + 2 >= j
    BY <1>1, <1>2, <2>1
  <2>3. owner(file, off + i) = IF at = {} THEN "nobody" ELSE file[Max(at)].says
    BY DEF owner
  <2> HIDE DEF at
  <2>4. Max(at) = off + 2
    BY <2>2, MaxIs
  <2> QED BY <2>2, <2>3, <2>4
<1>4. ASSUME NEW start \in Nat, start <= NewLines(file, off) PROVE owner_from(file, off + i, start) = b
  <2>1. /\ from(start) \in SUBSET Int /\ off + 2 \in from(start) /\ file[off + 2].says = b
        /\ \A j \in from(start) : off + 2 >= j
    BY <1>1, <1>2, <1>4
  <2>2. owner_from(file, off + i, start) = IF from(start) = {} THEN "nobody" ELSE file[Max(from(start))].says
    BY DEF owner_from
  <2> HIDE DEF from
  <2>3. Max(from(start)) = off + 2
    BY <2>1, MaxIs
  <2> QED BY <2>1, <2>2, <2>3
<1> QED BY <1>0, <1>3, <1>4
----------------------------------------------------------------------------
(* What a watcher has shown of a post.                                       *)

Turns == {"asleep", "counted", "viewed", "collected", "ordered"}
Poll == [at : Turns, last : Nat, n : Nat, shown : SUBSET Nat, maestro : SUBSET Nat, orders : SUBSET Nat]

\* A watcher knows nothing of what is not in the file yet.
Watched(file, v) ==
  /\ v \in Poll /\ v.last <= NewLines(file, Len(file)) /\ v.n <= NewLines(file, Len(file))
  /\ v.shown \cup v.maestro \cup v.orders \subseteq 1..Len(file)

\* A count of newlines is taken before an append or after it.
Apart(file, n, off, ref) == n <= NewLines(file, off) \/ n >= NewLines(file, off + Len(ref))

\* The post of b at the offset, as the watcher w has shown it so far: what is
\* behind its last count, and what is behind the present one in the reports it
\* has already made of this poll.
Past(file, v, turns, off, ref) ==
  LET end == NewLines(file, off + Len(ref)) IN v.last >= end \/ (v.at \in turns /\ v.n >= end)
Told(file, w, v, b, off, ref) ==
  /\ Apart(file, v.last, off, ref) /\ Apart(file, v.n, off, ref)
  /\ CleanIn(file, off, ref[2].key) =>
       /\ b # Maestro => Its(off, ref) \cap (v.maestro \cup v.orders) = {}
       /\ Its(off, ref) \cap v.orders \subseteq {off + 2}
       /\ b # w /\ Past(file, v, {"viewed", "collected", "ordered"}, off, ref) => Its(off, ref) \subseteq v.shown
       /\ b = Maestro /\ Past(file, v, {"collected", "ordered"}, off, ref) => Its(off, ref) \subseteq v.maestro
       /\ b = Maestro /\ Past(file, v, {"ordered"}, off, ref) => off + 2 \in v.orders

\* The append that a poster has made and can still certify is at its offset.
Pending(s) == post[s].at = "appended" /\ Len(bus) - post[s].off = Len(post[s].ref)

ReadInv ==
  /\ BusInv
  /\ watch \in [Watchers -> Poll] /\ \A w \in Watchers : Watched(bus, watch[w])
  /\ \A s \in Posters : post[s].at \in {"composed", "offset", "counted", "appended"} => Form(s, post[s].ref)
  /\ \A s \in Posters : Pending(s) =>
       /\ Place(bus, post[s].off, post[s].ref)
       /\ \A w \in Watchers : Told(bus, w, watch[w], s, post[s].off, post[s].ref)
  /\ \A r \in certified : Form(r.by, r.ref) /\ \A w \in Watchers : Told(bus, w, watch[w], r.by, r.off, r.ref)

\* Where the lines of a post are counted from.
LEMMA RegionLines ==
  ASSUME NEW file \in Seq(Piece), NEW b, NEW off \in Nat, NEW ref \in Seq(Piece),
         Form(b, ref), Place(file, off, ref)
  PROVE  /\ NewLines(file, off) \in Nat /\ NewLines(file, off + Len(ref)) \in Nat
         /\ NewLines(file, off) + 2 <= NewLines(file, off + Len(ref))
         /\ \A i \in 2..Len(ref) : /\ NewLines(file, off) + 2 <= LineOf(file, off + i)
                                   /\ LineOf(file, off + i) <= NewLines(file, off + Len(ref))
<1> DEFINE n == Len(ref)
<1>1. n \in Nat /\ Len(file) \in Nat /\ n >= 5 /\ off + n <= Len(file)
      /\ file[off + 1] = NL /\ file[off + n] = NL
  BY DEF Form, Place
<1> HIDE DEF n
<1>2. NewLines(file, off + 1) = NewLines(file, off) + 1
  BY <1>1, NewLinesAt
<1>3. NewLines(file, off + n) = NewLines(file, off + n - 1) + 1
  <2>1. off + n \in Nat \ {0}
    BY <1>1
  <2> QED BY <1>1, <2>1, NewLinesAt
<1>4. ASSUME NEW i \in 2..n
      PROVE  /\ NewLines(file, off) + 2 <= LineOf(file, off + i)
             /\ LineOf(file, off + i) <= NewLines(file, off + n)
  <2>1. LineOf(file, off + i) = 1 + NewLines(file, off + i - 1)
    BY <1>1, LineIs
  <2>2. /\ NewLines(file, off) \in Nat /\ NewLines(file, off + n - 1) \in Nat /\ NewLines(file, off + i - 1) \in Nat
        /\ NewLines(file, off + 1) <= NewLines(file, off + i - 1)
        /\ NewLines(file, off + i - 1) <= NewLines(file, off + n - 1)
    <3>1. off \in Nat /\ off + 1 \in Nat /\ off + i - 1 \in Nat /\ off + n - 1 \in Nat
      BY <1>1
    <3>2. off + 1 <= off + i - 1 /\ off + i - 1 <= off + n - 1
      BY <1>1
    <3> QED BY <3>1, <3>2, NewLinesMonotonic
  <2> QED BY <1>2, <1>3, <2>1, <2>2
<1>5. NewLines(file, off) \in Nat /\ NewLines(file, off + n) \in Nat
  BY <1>1, NewLinesMonotonic
<1>6. NewLines(file, off) + 2 <= NewLines(file, off + n)
  <2>1. 2 \in 2..n
    BY <1>1
  <2>2. LineOf(file, off + 2) = 1 + NewLines(file, off + 1)
    <3>1. off + 2 \in 1..(Len(file) + 1) /\ (off + 2) - 1 = off + 1
      BY <1>1
    <3> QED BY <3>1, LineIs
  <2> QED BY <1>2, <1>4, <1>5, <2>1, <2>2
<1> QED BY <1>4, <1>5, <1>6 DEF n

\* A report that begins before a post covers all of it, and one that covers some
\* of it begins before it.
LEMMA RegionAfter ==
  ASSUME NEW file \in Seq(Piece), NEW b, NEW off \in Nat, NEW ref \in Seq(Piece),
         Form(b, ref), Place(file, off, ref), NEW start \in Nat
  PROVE  /\ start <= NewLines(file, off) => Its(off, ref) \subseteq After(file, start) /\ off + 2 \in After(file, start)
         /\ Apart(file, start, off, ref) /\ Its(off, ref) \cap After(file, start) # {} => start <= NewLines(file, off)
<1>1. /\ Len(ref) \in Nat /\ Len(ref) >= 5 /\ Len(file) \in Nat /\ off + Len(ref) <= Len(file)
      /\ ref[1] = NL /\ ref[2].kind = "head" /\ NL.kind # "head"
      /\ \A i \in 1..Len(ref) : file[off + i] = ref[i]
  BY DEF Form, Place, NL
<1>2. /\ NewLines(file, off) \in Nat /\ NewLines(file, off + Len(ref)) \in Nat
      /\ \A i \in 2..Len(ref) : /\ NewLines(file, off) + 2 <= LineOf(file, off + i)
                                /\ LineOf(file, off + i) <= NewLines(file, off + Len(ref))
  BY RegionLines
<1>3. \A i \in 2..Len(ref) : LineOf(file, off + i) \in Nat
  <2> SUFFICES ASSUME NEW i \in 2..Len(ref) PROVE LineOf(file, off + i) \in Nat
    OBVIOUS
  <2>1. off + i \in 1..(Len(file) + 1) /\ (off + i) - 1 \in Nat
    BY <1>1
  <2>2. NewLines(file, (off + i) - 1) \in Nat
    BY <2>1, NewLinesMonotonic
  <2> QED BY <2>1, <2>2, LineIs
<1>4. ASSUME NEW x \in Its(off, ref)
      PROVE  \E i \in 2..Len(ref) : x = off + i /\ file[x] # NL /\ x \in 1..Len(file)
  <2>1. PICK i \in 1..Len(ref) : ref[i] # NL /\ x = off + i
    BY DEF Its
  <2>2. i \in 2..Len(ref)
    BY <1>1, <2>1
  <2> QED BY <1>1, <2>1, <2>2
<1>5. off + 2 \in Its(off, ref)
  <2>1. 2 \in 1..Len(ref) /\ ref[2] # NL
    BY <1>1
  <2> QED BY <2>1 DEF Its
<1>6. ASSUME start <= NewLines(file, off), NEW x \in Its(off, ref) PROVE x \in After(file, start)
  <2>1. PICK i \in 2..Len(ref) : x = off + i /\ file[x] # NL /\ x \in 1..Len(file)
    BY <1>4
  <2>2. LineOf(file, x) > start
    BY <1>2, <1>3, <1>6, <2>1
  <2> QED BY <2>1, <2>2 DEF After
<1>7. ASSUME Apart(file, start, off, ref), NEW x \in Its(off, ref) \cap After(file, start)
      PROVE  start <= NewLines(file, off)
  <2>1. PICK i \in 2..Len(ref) : x = off + i
    BY <1>4
  <2>2. LineOf(file, x) > start
    BY DEF After
  <2> QED BY <1>2, <1>3, <1>7, <2>1, <2>2 DEF Apart
<1> QED BY <1>5, <1>6, <1>7

\* The last key before a place is of what stands before it.
LEMMA LastKeyKept ==
  ASSUME NEW file \in Seq(Piece), NEW more \in Seq(Piece), NEW i \in 1..(Len(file) + 1)
  PROVE  lastkey(file \o more, i) = lastkey(file, i)
<1>1. \A k \in 1..Len(file) : (file \o more)[k] = file[k]
  BY Growth
<1>2. \A k \in 1..(i - 1) : (file \o more)[k] = file[k] /\ (k # 1 => (file \o more)[k - 1] = file[k - 1])
  <2> SUFFICES ASSUME NEW k \in 1..(i - 1)
               PROVE  (file \o more)[k] = file[k] /\ (k # 1 => (file \o more)[k - 1] = file[k - 1])
    OBVIOUS
  <2>1. k \in 1..Len(file) /\ (k # 1 => k - 1 \in 1..Len(file))
    OBVIOUS
  <2> QED BY <1>1, <2>1
<1> DEFINE grown == file \o more
<1>3. \A k \in 1..(i - 1) : grown[k] = file[k] /\ (IsHeader(grown, k) <=> IsHeader(file, k))
  BY <1>2 DEF IsHeader
<1> HIDE DEF grown
<1>4. {k \in 1..(i - 1) : IsHeader(grown, k)} = {k \in 1..(i - 1) : IsHeader(file, k)}
  BY <1>3
<1>5. {grown[j].key : j \in {k \in 1..(i - 1) : IsHeader(grown, k)}}
        = {file[j].key : j \in {k \in 1..(i - 1) : IsHeader(file, k)}}
  BY <1>3, <1>4
<1>6. lastkey(grown, i) = lastkey(file, i)
  BY <1>5 DEF lastkey
<1> QED BY <1>6 DEF grown

\* What was shown of a post does not change when the file grows.
LEMMA ToldKept ==
  ASSUME NEW file \in Seq(Piece), NEW more \in Seq(Piece), NEW b, NEW off \in Nat, NEW ref \in Seq(Piece),
         Place(file, off, ref), Len(ref) >= 1, NEW w, NEW v, Told(file, w, v, b, off, ref)
  PROVE  Place(file \o more, off, ref) /\ Told(file \o more, w, v, b, off, ref)
<1> DEFINE grown == file \o more
<1>1. /\ grown \in Seq(Piece) /\ Len(grown) = Len(file) + Len(more)
      /\ \A i \in 1..Len(file) : grown[i] = file[i]
      /\ \A k \in 0..Len(file) : NewLines(grown, k) = NewLines(file, k)
  BY Growth
<1>2. Len(file) \in Nat /\ Len(more) \in Nat /\ Len(ref) \in Nat /\ off + Len(ref) <= Len(file)
  BY DEF Place
<1>3. lastkey(grown, off + 2) = lastkey(file, off + 2)
  <2>1. off + 2 \in 1..(Len(file) + 1)
    BY <1>2
  <2> QED BY <2>1, LastKeyKept
<1> HIDE DEF grown
<1>4. NewLines(grown, off) = NewLines(file, off) /\ NewLines(grown, off + Len(ref)) = NewLines(file, off + Len(ref))
  BY <1>1, <1>2
<1>5. Place(grown, off, ref)
  <2>1. ASSUME NEW i \in 1..Len(ref) PROVE grown[off + i] = ref[i]
    <3>1. off + i \in 1..Len(file) /\ file[off + i] = ref[i]
      BY <1>2 DEF Place
    <3> QED BY <1>1, <3>1
  <2>2. off + Len(ref) <= Len(grown)
    BY <1>1, <1>2
  <2> QED BY <2>1, <2>2 DEF Place
<1>6. CleanIn(grown, off, ref[2].key) <=> CleanIn(file, off, ref[2].key)
  <2>1. off # 0 => off \in 1..Len(file)
    BY <1>2
  <2> QED BY <1>1, <1>3, <2>1 DEF CleanIn
<1>7. \A turns : Past(grown, v, turns, off, ref) <=> Past(file, v, turns, off, ref)
  BY <1>4 DEF Past
<1>8. Told(grown, w, v, b, off, ref)
  BY <1>4, <1>6, <1>7 DEF Told, Apart
<1> QED BY <1>5, <1>8 DEF grown

\* Of a post that is appended now nothing was shown.
LEMMA ToldAtFirst ==
  ASSUME NEW file \in Seq(Piece), NEW b, NEW ref \in Seq(Piece), Form(b, ref),
         NEW w, NEW v, Watched(file, v)
  PROVE  Place(file \o ref, Len(file), ref) /\ Told(file \o ref, w, v, b, Len(file), ref)
<1> DEFINE grown == file \o ref  off == Len(file)
<1>1. /\ grown \in Seq(Piece) /\ Len(grown) = off + Len(ref) /\ off \in Nat /\ Len(ref) \in Nat
      /\ \A i \in 1..Len(ref) : grown[off + i] = ref[i]
      /\ NewLines(grown, off) = NewLines(file, off)
  BY Growth
<1>2. v.last \in Nat /\ v.n \in Nat /\ v.last <= NewLines(file, off) /\ v.n <= NewLines(file, off)
  BY DEF Watched, Poll
<1>a. \A x \in v.shown \cup v.maestro \cup v.orders : x <= off
  BY DEF Watched
<1> HIDE DEF grown, off
<1>3. Place(grown, off, ref)
  <2>1. off + Len(ref) <= Len(grown)
    BY <1>1
  <2>2. \A i \in 1..Len(ref) : grown[off + i] = ref[i]
    BY <1>1
  <2> QED BY <2>1, <2>2 DEF Place
<1>4. NewLines(grown, off) + 2 <= NewLines(grown, off + Len(ref)) /\ NewLines(grown, off + Len(ref)) \in Nat
      /\ NewLines(grown, off) \in Nat
  BY <1>1, <1>3, RegionLines
<1>5. Apart(grown, v.last, off, ref) /\ Apart(grown, v.n, off, ref)
  BY <1>1, <1>2 DEF Apart
<1>6. \A turns : ~Past(grown, v, turns, off, ref)
  BY <1>1, <1>2, <1>4 DEF Past
<1>7. Its(off, ref) \cap (v.shown \cup v.maestro \cup v.orders) = {}
  <2>1. \A i \in 1..Len(ref) : ~(off + i <= off)
    BY <1>1
  <2> QED BY <1>a, <2>1 DEF Its
<1>8. Told(grown, w, v, b, off, ref)
  BY <1>5, <1>6, <1>7 DEF Told
<1> QED BY <1>3, <1>8 DEF grown, off
----------------------------------------------------------------------------
(* The steps of a poll.                                                      *)

\* What the steps of a poll make of a watcher.
Counted(file, v) == [v EXCEPT !.at = "counted", !.n = NewLines(file, Len(file))]
Viewed(file, w, v) ==
  [v EXCEPT !.at = "viewed", !.shown = @ \cup {i \in After(file, v.last) : owner(file, i) # w}]
Collected(file, v) ==
  [v EXCEPT !.at = "collected", !.maestro = @ \cup {i \in After(file, v.last) : owner_from(file, i, v.last) = Maestro}]
Ordered(file, v) ==
  [v EXCEPT !.at = "ordered", !.orders = @ \cup {i \in After(file, v.last) : Opens(file, i) /\ file[i].says = Maestro}]
Advanced(v) == [v EXCEPT !.at = "asleep", !.last = v.n, !.n = 0]

LEMMA CountTells ==
  ASSUME NEW file \in Seq(Piece), NEW b, NEW off \in Nat, NEW ref \in Seq(Piece), Place(file, off, ref),
         NEW w, NEW v \in Poll, Told(file, w, v, b, off, ref), v.at = "asleep"
  PROVE  Told(file, w, Counted(file, v), b, off, ref)
<1> DEFINE new == [v EXCEPT !.at = "counted", !.n = NewLines(file, Len(file))]
<1>1. /\ new.at = "counted" /\ new.last = v.last /\ new.n = NewLines(file, Len(file))
      /\ new.shown = v.shown /\ new.maestro = v.maestro /\ new.orders = v.orders
  BY DEF Poll
<1>2. NewLines(file, off + Len(ref)) <= NewLines(file, Len(file))
  <2>1. off + Len(ref) \in Nat /\ Len(file) \in Nat /\ off + Len(ref) <= Len(file)
    BY DEF Place
  <2> QED BY <2>1, NewLinesMonotonic
<1> HIDE DEF new
<1>3. Apart(file, new.last, off, ref) /\ Apart(file, new.n, off, ref)
  BY <1>1, <1>2 DEF Told, Apart
<1>4. \A turns \in {{"viewed", "collected", "ordered"}, {"collected", "ordered"}, {"ordered"}} :
        Past(file, new, turns, off, ref) => Past(file, v, turns, off, ref)
  BY <1>1 DEF Past
<1>5. Told(file, w, new, b, off, ref)
  BY <1>1, <1>3, <1>4 DEF Told
<1> QED BY <1>5 DEF new, Counted

LEMMA ViewTells ==
  ASSUME NEW file \in Seq(Piece), NEW b, NEW off \in Nat, NEW ref \in Seq(Piece),
         Form(b, ref), Place(file, off, ref),
         NEW w, NEW v \in Poll, Told(file, w, v, b, off, ref), v.at = "counted"
  PROVE  Told(file, w, Viewed(file, w, v), b, off, ref)
<1> DEFINE new == [v EXCEPT !.at = "viewed", !.shown = @ \cup {i \in After(file, v.last) : owner(file, i) # w}]
<1>1. /\ new.at = "viewed" /\ new.last = v.last /\ new.n = v.n
      /\ new.shown = v.shown \cup {i \in After(file, v.last) : owner(file, i) # w}
      /\ new.maestro = v.maestro /\ new.orders = v.orders /\ v.last \in Nat
  BY DEF Poll
<1> HIDE DEF new
<1>2. \A turns \in {{"collected", "ordered"}, {"ordered"}} :
        Past(file, new, turns, off, ref) => Past(file, v, turns, off, ref)
  BY <1>1 DEF Past
<1>3. ASSUME CleanIn(file, off, ref[2].key), b # w PROVE Its(off, ref) \subseteq new.shown
  <2>1. CASE v.last <= NewLines(file, off)
    <3>1. Its(off, ref) \subseteq After(file, v.last)
      BY <1>1, <2>1, RegionAfter
    <3>2. \A x \in Its(off, ref) : owner(file, x) = b
      <4>1. Posted(file, b, off, ref)
        BY <1>3 DEF Posted
      <4> QED BY <4>1, RegionOwner
    <3> QED BY <1>1, <1>3, <3>1, <3>2
  <2>2. CASE v.last >= NewLines(file, off + Len(ref))
    BY <1>1, <1>3, <2>2 DEF Told, Past
  <2> QED BY <2>1, <2>2 DEF Told, Apart
<1>4. Told(file, w, new, b, off, ref)
  BY <1>1, <1>2, <1>3 DEF Told
<1> QED BY <1>4 DEF new, Viewed

LEMMA CollectTells ==
  ASSUME NEW file \in Seq(Piece), NEW b, NEW off \in Nat, NEW ref \in Seq(Piece),
         Form(b, ref), Place(file, off, ref),
         NEW w, NEW v \in Poll, Told(file, w, v, b, off, ref), v.at = "viewed"
  PROVE  Told(file, w, Collected(file, v), b, off, ref)
<1> DEFINE said == {i \in After(file, v.last) : owner_from(file, i, v.last) = Maestro}
           new == [v EXCEPT !.at = "collected", !.maestro = @ \cup said]
<1>1. /\ new.at = "collected" /\ new.last = v.last /\ new.n = v.n /\ new.shown = v.shown
      /\ new.maestro = v.maestro \cup said /\ new.orders = v.orders /\ v.last \in Nat
  BY DEF Poll
<1>2. Past(file, new, {"ordered"}, off, ref) => Past(file, v, {"ordered"}, off, ref)
  BY <1>1 DEF Past
<1>3. Past(file, new, {"viewed", "collected", "ordered"}, off, ref) => Past(file, v, {"viewed", "collected", "ordered"}, off, ref)
  BY <1>1 DEF Past
<1>4. ASSUME CleanIn(file, off, ref[2].key), v.last <= NewLines(file, off), NEW x \in Its(off, ref)
      PROVE  owner_from(file, x, v.last) = b /\ x \in After(file, v.last)
  <2>1. Its(off, ref) \subseteq After(file, v.last)
    BY <1>1, <1>4, RegionAfter
  <2>2. owner_from(file, x, v.last) = b
    <3>1. Posted(file, b, off, ref)
      BY <1>4 DEF Posted
    <3> QED BY <1>1, <1>4, <3>1, RegionOwner
  <2> QED BY <2>1, <2>2
<1>5. ASSUME CleanIn(file, off, ref[2].key), b # Maestro PROVE Its(off, ref) \cap said = {}
  <2> SUFFICES ASSUME NEW x \in Its(off, ref) \cap said PROVE FALSE
    OBVIOUS
  <2>1. v.last <= NewLines(file, off)
    BY <1>1, RegionAfter DEF Told
  <2> QED BY <1>4, <1>5, <2>1
<1>6. ASSUME CleanIn(file, off, ref[2].key), b = Maestro PROVE Its(off, ref) \subseteq new.maestro
  <2>1. CASE v.last <= NewLines(file, off)
    BY <1>1, <1>4, <1>6, <2>1
  <2>2. CASE v.last >= NewLines(file, off + Len(ref))
    BY <1>1, <1>6, <2>2 DEF Told, Past
  <2> QED BY <2>1, <2>2 DEF Told, Apart
<1> HIDE DEF new, said
<1>7. Told(file, w, new, b, off, ref)
  BY <1>1, <1>2, <1>3, <1>5, <1>6 DEF Told
<1> QED BY <1>7 DEF new, Collected, said

LEMMA OrdersTell ==
  ASSUME NEW file \in Seq(Piece), NEW b, NEW off \in Nat, NEW ref \in Seq(Piece),
         Form(b, ref), Place(file, off, ref),
         NEW w, NEW v \in Poll, Told(file, w, v, b, off, ref), v.at = "collected"
  PROVE  Told(file, w, Ordered(file, v), b, off, ref)
<1> DEFINE said == {i \in After(file, v.last) : Opens(file, i) /\ file[i].says = Maestro}
           new == [v EXCEPT !.at = "ordered", !.orders = @ \cup said]
<1>1. /\ new.at = "ordered" /\ new.last = v.last /\ new.n = v.n /\ new.shown = v.shown
      /\ new.maestro = v.maestro /\ new.orders = v.orders \cup said /\ v.last \in Nat
  BY DEF Poll
<1>2. Past(file, new, {"collected", "ordered"}, off, ref) => Past(file, v, {"collected", "ordered"}, off, ref)
  BY <1>1 DEF Past
<1>3. Past(file, new, {"viewed", "collected", "ordered"}, off, ref) => Past(file, v, {"viewed", "collected", "ordered"}, off, ref)
  BY <1>1 DEF Past
<1>4. 0 <= NewLines(file, off)
  BY NewLinesMonotonic
<1>5. ASSUME CleanIn(file, off, ref[2].key)
      PROVE  Opens(file, off + 2) /\ file[off + 2].says = b /\ \A i \in 3..Len(ref) : ~Opens(file, off + i)
  BY <1>4, <1>5, RegionOpens
<1>6. ASSUME CleanIn(file, off, ref[2].key), NEW x \in Its(off, ref) \cap said
      PROVE  x = off + 2 /\ b = Maestro
  <2>1. ref[1] = NL
    BY DEF Form
  <2>2. PICK i \in 1..Len(ref) : ref[i] # NL /\ x = off + i
    BY DEF Its
  <2>3. i = 2 \/ i \in 3..Len(ref)
    BY <2>1, <2>2
  <2> QED BY <1>5, <1>6, <2>2, <2>3
<1>7. ASSUME CleanIn(file, off, ref[2].key), b = Maestro PROVE off + 2 \in new.orders
  <2>1. CASE v.last <= NewLines(file, off)
    <3>1. off + 2 \in After(file, v.last)
      BY <1>1, <2>1, RegionAfter
    <3> QED BY <1>1, <1>5, <1>7, <3>1
  <2>2. CASE v.last >= NewLines(file, off + Len(ref))
    BY <1>1, <1>7, <2>2 DEF Told, Past
  <2> QED BY <2>1, <2>2 DEF Told, Apart
<1> HIDE DEF new, said
<1>8. CleanIn(file, off, ref[2].key) => Its(off, ref) \cap new.orders \subseteq {off + 2}
  BY <1>1, <1>6 DEF Told
<1>9. CleanIn(file, off, ref[2].key) /\ b # Maestro => Its(off, ref) \cap (new.maestro \cup new.orders) = {}
  BY <1>1, <1>6 DEF Told
<1>10. Told(file, w, new, b, off, ref)
  BY <1>1, <1>2, <1>3, <1>7, <1>8, <1>9 DEF Told
<1> QED BY <1>10 DEF new, Ordered, said

LEMMA AdvanceTells ==
  ASSUME NEW file \in Seq(Piece), NEW b, NEW off \in Nat, NEW ref \in Seq(Piece),
         NEW w, NEW v \in Poll, Told(file, w, v, b, off, ref), v.at = "ordered"
  PROVE  Told(file, w, Advanced(v), b, off, ref)
<1> DEFINE new == [v EXCEPT !.at = "asleep", !.last = v.n, !.n = 0]
<1>1. /\ new.at = "asleep" /\ new.last = v.n /\ new.n = 0
      /\ new.shown = v.shown /\ new.maestro = v.maestro /\ new.orders = v.orders
  BY DEF Poll
<1>2. 0 <= NewLines(file, off)
  BY NewLinesMonotonic
<1> HIDE DEF new
<1>3. Apart(file, new.last, off, ref) /\ Apart(file, new.n, off, ref)
  BY <1>1, <1>2 DEF Told, Apart
<1>4. \A turns \in {{"viewed", "collected", "ordered"}, {"collected", "ordered"}, {"ordered"}} :
        Past(file, new, turns, off, ref) => Past(file, v, turns, off, ref)
  BY <1>1 DEF Past
<1>5. Told(file, w, new, b, off, ref)
  BY <1>1, <1>3, <1>4 DEF Told
<1> QED BY <1>5 DEF new, Advanced

----------------------------------------------------------------------------
(* The steps.                                                                *)

\* A poll takes a step: what it tells of every post stays right.
LEMMA WatchStep ==
  ASSUME ReadInv, BusInv', NEW w \in Watchers, NEW new \in Poll, Watched(bus, new),
         watch' = [watch EXCEPT ![w] = new], UNCHANGED <<bus, post, certified>>,
         ASSUME NEW b, NEW off \in Nat, NEW ref \in Seq(Piece), Form(b, ref), Place(bus, off, ref),
                Told(bus, w, watch[w], b, off, ref)
         PROVE  Told(bus, w, new, b, off, ref)
  PROVE  ReadInv'
<1>1. \A u \in Watchers : watch'[u] = IF u = w THEN new ELSE watch[u]
  BY DEF ReadInv
<1>2. watch' \in [Watchers -> Poll] /\ \A u \in Watchers : Watched(bus', watch'[u])
  BY <1>1 DEF ReadInv
<1>3. \A s \in Posters : post'[s].at \in {"composed", "offset", "counted", "appended"} => Form(s, post'[s].ref)
  BY DEF ReadInv
<1>4. ASSUME NEW s \in Posters, Pending(s)'
      PROVE  /\ Place(bus', post'[s].off, post'[s].ref)
             /\ \A u \in Watchers : Told(bus', u, watch'[u], s, post'[s].off, post'[s].ref)
  <2>1. Pending(s) /\ post'[s] = post[s] /\ bus' = bus
    BY <1>4 DEF Pending
  <2>2. post[s].off \in Nat /\ post[s].ref \in Seq(Piece)
    BY DEF ReadInv, BusInv, TypeOK
  <2>3. Form(s, post[s].ref) /\ Place(bus, post[s].off, post[s].ref)
    BY <2>1 DEF ReadInv, Pending
  <2>4. \A u \in Watchers : Told(bus, u, watch[u], s, post[s].off, post[s].ref)
    BY <2>1 DEF ReadInv
  <2> DEFINE off == post[s].off  ref == post[s].ref
  <2> HIDE DEF off, ref
  <2>5. Told(bus, w, new, s, off, ref)
    BY <2>2, <2>3, <2>4 DEF off, ref
  <2> QED BY <1>1, <2>1, <2>3, <2>4, <2>5 DEF off, ref
<1>5. ASSUME NEW r \in certified'
      PROVE  Form(r.by, r.ref) /\ \A u \in Watchers : Told(bus', u, watch'[u], r.by, r.off, r.ref)
  <2>1. r \in certified /\ bus' = bus
    BY <1>5
  <2>2. r.off \in Nat /\ r.ref \in Seq(Piece)
    BY <2>1 DEF ReadInv, BusInv, TypeOK
  <2>3. Form(r.by, r.ref) /\ Place(bus, r.off, r.ref)
    BY <2>1 DEF ReadInv, BusInv, Stands, Place
  <2>4. \A u \in Watchers : Told(bus, u, watch[u], r.by, r.off, r.ref)
    BY <2>1 DEF ReadInv
  <2>5. Told(bus, w, new, r.by, r.off, r.ref)
    BY <2>2, <2>3, <2>4
  <2> QED BY <1>1, <2>1, <2>3, <2>4, <2>5
<1> QED BY <1>2, <1>3, <1>4, <1>5 DEF ReadInv

\* What a watcher has shown is in the file.
LEMMA PollStays ==
  ASSUME NEW file \in Seq(Piece), NEW w, NEW v, Watched(file, v)
  PROVE  \A x \in {Counted(file, v), Viewed(file, w, v), Collected(file, v), Ordered(file, v), Advanced(v)} : Watched(file, x)
<1> DEFINE said == {i \in After(file, v.last) : owner(file, i) # w}
           from == {i \in After(file, v.last) : owner_from(file, i, v.last) = Maestro}
           orders == {i \in After(file, v.last) : Opens(file, i) /\ file[i].says = Maestro}
           lines == NewLines(file, Len(file))
<1>1. /\ v \in Poll /\ v.last <= lines /\ v.n <= lines
      /\ v.shown \subseteq 1..Len(file) /\ v.maestro \subseteq 1..Len(file) /\ v.orders \subseteq 1..Len(file)
  BY DEF Watched
<1>2. said \subseteq 1..Len(file) /\ from \subseteq 1..Len(file) /\ orders \subseteq 1..Len(file)
  BY DEF After
<1>3. lines \in Nat
  BY NewLinesMonotonic
<1>4. 1..Len(file) \subseteq Nat
  OBVIOUS
<1> HIDE DEF said, from, orders, lines
<1>5. ASSUME NEW x \in Poll, x.last <= lines, x.n <= lines, x.shown \subseteq 1..Len(file),
             x.maestro \subseteq 1..Len(file), x.orders \subseteq 1..Len(file)
      PROVE  Watched(file, x)
  BY <1>5 DEF Watched, lines
<1>6. Watched(file, [v EXCEPT !.at = "counted", !.n = lines])
  <2> DEFINE x == [v EXCEPT !.at = "counted", !.n = lines]
  <2>1. x \in Poll /\ x.last = v.last /\ x.n = lines /\ x.shown = v.shown /\ x.maestro = v.maestro /\ x.orders = v.orders
    BY <1>1, <1>3 DEF Poll, Turns
  <2> HIDE DEF x
  <2>2. x.n <= lines /\ x.last <= lines
    BY <2>1, <1>1, <1>3
  <2>3. Watched(file, x)
    BY <2>1, <2>2, <1>1, <1>5
  <2> QED BY <2>3 DEF x
<1>7. Watched(file, [v EXCEPT !.at = "viewed", !.shown = @ \cup said])
  <2> DEFINE x == [v EXCEPT !.at = "viewed", !.shown = @ \cup said]
  <2>0. v.shown \cup said \in SUBSET Nat /\ v.shown \cup said \subseteq 1..Len(file)
    BY <1>1, <1>2, <1>4
  <2>1. x \in Poll /\ x.last = v.last /\ x.n = v.n /\ x.shown = v.shown \cup said /\ x.maestro = v.maestro /\ x.orders = v.orders
    BY <1>1, <2>0 DEF Poll, Turns
  <2> HIDE DEF x
  <2>3. Watched(file, x)
    BY <2>0, <2>1, <1>1, <1>5
  <2> QED BY <2>3 DEF x
<1>8. Watched(file, [v EXCEPT !.at = "collected", !.maestro = @ \cup from])
  <2> DEFINE x == [v EXCEPT !.at = "collected", !.maestro = @ \cup from]
  <2>0. v.maestro \cup from \in SUBSET Nat /\ v.maestro \cup from \subseteq 1..Len(file)
    BY <1>1, <1>2, <1>4
  <2>1. x \in Poll /\ x.last = v.last /\ x.n = v.n /\ x.shown = v.shown /\ x.maestro = v.maestro \cup from /\ x.orders = v.orders
    BY <1>1, <2>0 DEF Poll, Turns
  <2> HIDE DEF x
  <2>3. Watched(file, x)
    BY <2>0, <2>1, <1>1, <1>5
  <2> QED BY <2>3 DEF x
<1>9. Watched(file, [v EXCEPT !.at = "ordered", !.orders = @ \cup orders])
  <2> DEFINE x == [v EXCEPT !.at = "ordered", !.orders = @ \cup orders]
  <2>0. v.orders \cup orders \in SUBSET Nat /\ v.orders \cup orders \subseteq 1..Len(file)
    BY <1>1, <1>2, <1>4
  <2>1. x \in Poll /\ x.last = v.last /\ x.n = v.n /\ x.shown = v.shown /\ x.maestro = v.maestro /\ x.orders = v.orders \cup orders
    BY <1>1, <2>0 DEF Poll, Turns
  <2> HIDE DEF x
  <2>3. Watched(file, x)
    BY <2>0, <2>1, <1>1, <1>5
  <2> QED BY <2>3 DEF x
<1>10. Watched(file, [v EXCEPT !.at = "asleep", !.last = v.n, !.n = 0])
  <2> DEFINE x == [v EXCEPT !.at = "asleep", !.last = v.n, !.n = 0]
  <2>1. x \in Poll /\ x.last = v.n /\ x.n = 0 /\ x.shown = v.shown /\ x.maestro = v.maestro /\ x.orders = v.orders
    BY <1>1 DEF Poll, Turns
  <2> HIDE DEF x
  <2>2. x.n <= lines /\ x.last <= lines
    BY <2>1, <1>1, <1>3
  <2>3. Watched(file, x)
    BY <2>1, <2>2, <1>1, <1>5
  <2> QED BY <2>3 DEF x
<1> QED BY <1>6, <1>7, <1>8, <1>9, <1>10 DEF Counted, Viewed, Collected, Ordered, Advanced, said, from, orders, lines

\* Every step of a poll.
LEMMA WatcherReads ==
  ASSUME ReadInv, BusInv', NEW w \in Watchers, Count_(w) \/ View(w) \/ Collect(w) \/ Orders(w) \/ Advance(w)
  PROVE  ReadInv'
<1>1. watch[w] \in Poll /\ Watched(bus, watch[w]) /\ bus \in Seq(Piece)
  BY DEF ReadInv, BusInv, TypeOK
<1>2. UNCHANGED <<bus, post, certified>>
  BY DEF Count_, View, Collect, Orders, Advance
<1>3. WcL(bus) = NewLines(bus, Len(bus))
  <2>1. Len(bus) \in 0..Len(bus)
    BY <1>1
  <2> QED BY <1>1, <2>1, PrefixLines
<1> DEFINE v == watch[w]
<1>4. \/ v.at = "asleep" /\ watch' = [watch EXCEPT ![w] = Counted(bus, v)]
      \/ v.at = "counted" /\ watch' = [watch EXCEPT ![w] = Viewed(bus, w, v)]
      \/ v.at = "viewed" /\ watch' = [watch EXCEPT ![w] = Collected(bus, v)]
      \/ v.at = "collected" /\ watch' = [watch EXCEPT ![w] = Ordered(bus, v)]
      \/ v.at = "ordered" /\ watch' = [watch EXCEPT ![w] = Advanced(v)]
  BY <1>3 DEF Count_, View, Collect, Orders, Advance, Turn, Counted, Viewed, Collected, Ordered, Advanced
<1> HIDE DEF v
<1>a. v \in Poll /\ Watched(bus, v) /\ v = watch[w]
  BY <1>1 DEF v
<1>5. PICK new \in {Counted(bus, v), Viewed(bus, w, v), Collected(bus, v), Ordered(bus, v), Advanced(v)} :
        /\ watch' = [watch EXCEPT ![w] = new]
        /\ \/ v.at = "asleep" /\ new = Counted(bus, v)
           \/ v.at = "counted" /\ new = Viewed(bus, w, v)
           \/ v.at = "viewed" /\ new = Collected(bus, v)
           \/ v.at = "collected" /\ new = Ordered(bus, v)
           \/ v.at = "ordered" /\ new = Advanced(v)
  BY <1>4
<1>6. Watched(bus, new)
  BY <1>1, <1>a, <1>5, PollStays
<1>7. new \in Poll
  BY <1>6 DEF Watched
<1>8. ASSUME NEW b, NEW off \in Nat, NEW ref \in Seq(Piece), Form(b, ref), Place(bus, off, ref),
             Told(bus, w, watch[w], b, off, ref)
      PROVE  Told(bus, w, new, b, off, ref)
  <2>1. Told(bus, w, v, b, off, ref)
    BY <1>8, <1>a
  <2>2. CASE v.at = "asleep" /\ new = Counted(bus, v)
    BY <1>1, <1>a, <1>8, <2>1, <2>2, CountTells
  <2>3. CASE v.at = "counted" /\ new = Viewed(bus, w, v)
    BY <1>1, <1>a, <1>8, <2>1, <2>3, ViewTells
  <2>4. CASE v.at = "viewed" /\ new = Collected(bus, v)
    BY <1>1, <1>a, <1>8, <2>1, <2>4, CollectTells
  <2>5. CASE v.at = "collected" /\ new = Ordered(bus, v)
    BY <1>1, <1>a, <1>8, <2>1, <2>5, OrdersTell
  <2>6. CASE v.at = "ordered" /\ new = Advanced(v)
    BY <1>1, <1>a, <1>8, <2>1, <2>6, AdvanceTells
  <2> QED BY <1>5, <2>2, <2>3, <2>4, <2>5, <2>6
<1> QED BY <1>2, <1>5, <1>6, <1>7, <1>8, WatchStep

\* A poster takes a step that leaves the file alone and certifies at most what it
\* could still certify.
LEMMA PosterReads ==
  ASSUME ReadInv, BusInv', NEW s \in Posters,
         \/ Anchor(s) \/ Offset(s) \/ CountLines(s) \/ Verify(s)
         \/ \E key \in Keys, quoted \in {{}, {Maestro} \ {s}} : Compose(s, key, quoted)
  PROVE  ReadInv'
<1>1. bus' = bus /\ watch' = watch
  BY DEF Anchor, Offset, CountLines, Verify, Compose
<1>2. /\ \A t \in Posters : t # s => post'[t] = post[t]
      /\ post'[s].at # "appended"
      /\ post'[s].at \in {"composed", "offset", "counted", "appended"} => Form(s, post'[s].ref)
  <2>1. post \in [Posters -> Poster] /\ post[s] \in Poster
    BY DEF ReadInv, BusInv, TypeOK, Poster
  <2>2. CASE Anchor(s) \/ Verify(s)
    <3>1. PICK new \in {Asleep, [Asleep EXCEPT !.at = "read", !.seen = WcL(bus)]} : post' = [post EXCEPT ![s] = new]
      BY <2>2 DEF Anchor, Verify, Goes
    <3>2. new.at \in {"idle", "read"}
      <4>1. CASE new = Asleep
        BY <4>1 DEF Asleep
      <4>2. CASE new = [Asleep EXCEPT !.at = "read", !.seen = WcL(bus)]
        BY <4>2 DEF Asleep
      <4> QED BY <4>1, <4>2
    <3>3. post'[s] = new /\ \A t \in Posters : t # s => post'[t] = post[t]
      BY <2>1, <3>1
    <3> QED BY <3>2, <3>3
  <2>3. CASE Offset(s) \/ CountLines(s)
    <3>1. PICK new \in {[post[s] EXCEPT !.at = "offset", !.off = Len(bus)], [post[s] EXCEPT !.at = "counted", !.pre = WcL(bus)]} :
            post' = [post EXCEPT ![s] = new] /\ post[s].at \in {"composed", "offset"}
      BY <2>3 DEF Offset, CountLines, Goes
    <3>2. new.at \in {"offset", "counted"} /\ new.ref = post[s].ref
      BY <2>1 DEF Poster
    <3>3. Form(s, post[s].ref)
      BY <3>1 DEF ReadInv
    <3> QED BY <2>1, <3>1, <3>2, <3>3
  <2>4. CASE \E key \in Keys, quoted \in {{}, {Maestro} \ {s}} : Compose(s, key, quoted)
    <3>1. PICK key \in Keys, quoted \in {{}, {Maestro} \ {s}} : Compose(s, key, quoted)
      BY <2>4
    <3> DEFINE ref == Reference(s, key, quoted)  new == [post[s] EXCEPT !.at = "composed", !.ref = ref]
    <3>2. post' = [post EXCEPT ![s] = new]
      BY <3>1 DEF Compose, Goes
    <3>3. Form(s, ref)
      BY ReferenceForm
    <3> HIDE DEF ref
    <3>4. new.at = "composed" /\ new.ref = ref
      BY <2>1 DEF Poster
    <3> HIDE DEF new
    <3> QED BY <2>1, <3>2, <3>3, <3>4
  <2> QED BY <2>2, <2>3, <2>4
<1>3. ASSUME NEW r \in certified' \ certified
      PROVE  Pending(s) /\ r.by = s /\ r.off = post[s].off /\ r.ref = post[s].ref
  <2>1. Verify(s) /\ Verified(s)
    BY <1>3 DEF Anchor, Offset, CountLines, Verify, Compose
  <2>2. r = [by |-> s, off |-> post[s].off, ref |-> post[s].ref, seen |-> post[s].seen, gap |-> Interval(s)]
    BY <1>3, <2>1 DEF Verify
  <2> QED BY <2>1, <2>2 DEF Pending, Verify, Verified, Goes
<1>4. watch' \in [Watchers -> Poll] /\ \A w \in Watchers : Watched(bus', watch'[w])
  BY <1>1 DEF ReadInv
<1>5. \A t \in Posters : post'[t].at \in {"composed", "offset", "counted", "appended"} => Form(t, post'[t].ref)
  BY <1>2 DEF ReadInv
<1>6. ASSUME NEW t \in Posters, Pending(t)'
      PROVE  /\ Place(bus', post'[t].off, post'[t].ref)
             /\ \A w \in Watchers : Told(bus', w, watch'[w], t, post'[t].off, post'[t].ref)
  <2>1. post'[t] = post[t] /\ Pending(t)
    BY <1>1, <1>2, <1>6 DEF Pending
  <2> QED BY <1>1, <2>1 DEF ReadInv
<1>7. ASSUME NEW r \in certified'
      PROVE  Form(r.by, r.ref) /\ \A w \in Watchers : Told(bus', w, watch'[w], r.by, r.off, r.ref)
  <2>1. CASE r \in certified
    BY <1>1, <2>1 DEF ReadInv
  <2>2. CASE r \notin certified
    <3>1. Pending(s) /\ r.by = s /\ r.off = post[s].off /\ r.ref = post[s].ref
      BY <1>3, <2>2
    <3>2. Form(s, post[s].ref)
      BY <3>1 DEF ReadInv, Pending
    <3>3. \A w \in Watchers : Told(bus, w, watch[w], s, post[s].off, post[s].ref)
      BY <3>1 DEF ReadInv
    <3> QED BY <1>1, <3>1, <3>2, <3>3
  <2> QED BY <2>1, <2>2
<1> QED BY <1>4, <1>5, <1>6, <1>7 DEF ReadInv

\* The file grows: what is behind a watcher stays behind it, nobody else's append
\* can still be certified, and nothing was shown of what is new.
LEMMA GrowthReads ==
  ASSUME ReadInv, BusInv', NEW more \in Seq(Piece), Len(more) >= 1, bus' = bus \o more, UNCHANGED <<certified, watch>>,
         \A s \in Posters :
           \/ post'[s] = post[s]
           \/ post[s].at = "counted" /\ more = post[s].ref /\ post'[s] = [post[s] EXCEPT !.at = "appended"]
  PROVE  ReadInv'
<1>1. bus \in Seq(Piece) /\ Len(bus) \in Nat /\ Len(more) \in Nat
  BY DEF ReadInv, BusInv, TypeOK
<1>2. /\ Len(bus') = Len(bus) + Len(more) /\ NewLines(bus', Len(bus)) = NewLines(bus, Len(bus))
  <2>1. Len(bus) \in 0..Len(bus)
    BY <1>1
  <2> QED BY <1>1, <2>1, Growth
<1>3. /\ NewLines(bus', Len(bus)) <= NewLines(bus', Len(bus')) /\ NewLines(bus', Len(bus)) \in Nat
      /\ NewLines(bus', Len(bus')) \in Nat
  <2>1. Len(bus') \in Nat /\ Len(bus) <= Len(bus')
    BY <1>1, <1>2
  <2> QED BY <1>1, <2>1, NewLinesMonotonic
<1>4. ASSUME NEW w \in Watchers PROVE Watched(bus', watch[w])
  <2>1. Watched(bus, watch[w])
    BY DEF ReadInv
  <2>2. watch[w].last \in Nat /\ watch[w].n \in Nat
    BY <2>1 DEF Watched, Poll
  <2>3. watch[w].last <= NewLines(bus', Len(bus')) /\ watch[w].n <= NewLines(bus', Len(bus'))
    BY <1>2, <1>3, <2>1, <2>2 DEF Watched
  <2>4. 1..Len(bus) \subseteq 1..Len(bus')
    BY <1>1, <1>2
  <2> QED BY <2>1, <2>3, <2>4 DEF Watched
<1>5. watch' \in [Watchers -> Poll] /\ \A w \in Watchers : Watched(bus', watch'[w])
  BY <1>4 DEF ReadInv
<1>6. ASSUME NEW s \in Posters
      PROVE  /\ post[s].off \in Nat /\ post[s].ref \in Seq(Piece) /\ Len(post[s].ref) \in Nat
             /\ post'[s].off = post[s].off /\ post'[s].ref = post[s].ref
             /\ \/ post'[s].at = post[s].at
                \/ post[s].at = "counted" /\ more = post[s].ref /\ post'[s].at = "appended"
  <2>1. post[s] \in Poster
    BY DEF ReadInv, BusInv, TypeOK, Poster
  <2>2. post[s].off \in Nat /\ post[s].ref \in Seq(Piece) /\ Len(post[s].ref) \in Nat
    BY <2>1 DEF Poster
  <2>3. CASE post'[s] = post[s]
    BY <2>2, <2>3
  <2>4. CASE post[s].at = "counted" /\ more = post[s].ref /\ post'[s] = [post[s] EXCEPT !.at = "appended"]
    <3>1. post'[s].off = post[s].off /\ post'[s].ref = post[s].ref /\ post'[s].at = "appended"
      BY <2>1, <2>4 DEF Poster
    <3> QED BY <2>2, <2>4, <3>1
  <2> QED BY <2>3, <2>4
<1>7. \A s \in Posters : post'[s].at \in {"composed", "offset", "counted", "appended"} => Form(s, post'[s].ref)
  BY <1>6 DEF ReadInv
<1>8. ASSUME NEW s \in Posters, Pending(s)'
      PROVE  /\ Place(bus', post'[s].off, post'[s].ref)
             /\ \A w \in Watchers : Told(bus', w, watch'[w], s, post'[s].off, post'[s].ref)
  <2> DEFINE off == post[s].off  ref == post[s].ref
  <2>1. off \in Nat /\ ref \in Seq(Piece) /\ Len(ref) \in Nat /\ post'[s].off = off /\ post'[s].ref = ref
    BY <1>6
  <2>2. post'[s].at = "appended" /\ Len(bus) + Len(more) - off = Len(ref)
    BY <1>2, <1>8, <2>1 DEF Pending
  <2>3. Measured(bus, post[s])
    BY DEF ReadInv, BusInv
  <2>4. post[s].at # "appended"
    <3> SUFFICES ASSUME post[s].at = "appended" PROVE FALSE
      OBVIOUS
    <3>1. PICK k \in off..Len(bus) : k + Len(ref) <= Len(bus)
      BY <2>3 DEF Measured
    <3> HIDE DEF off, ref
    <3> QED BY <1>1, <2>1, <2>2, <3>1
  <2>5. more = ref /\ post[s].at = "counted"
    BY <1>6, <2>2, <2>4
  <2> HIDE DEF off, ref
  <2>6. off = Len(bus)
    BY <1>1, <2>1, <2>2, <2>5
  <2>7. Form(s, ref)
    BY <2>5 DEF ReadInv, ref
  <2>8. \A w \in Watchers : Watched(bus, watch[w])
    BY DEF ReadInv
  <2>9. Place(bus \o ref, off, ref) /\ \A w \in Watchers : Told(bus \o ref, w, watch[w], s, off, ref)
    <3>1. ASSUME NEW w, Watched(bus, watch[w]) PROVE Told(bus \o ref, w, watch[w], s, off, ref)
      BY <1>1, <2>1, <2>6, <2>7, <3>1, ToldAtFirst
    <3>2. Place(bus \o ref, off, ref)
      <4>1. Len(bus \o ref) = Len(bus) + Len(ref) /\ \A i \in 1..Len(ref) : (bus \o ref)[Len(bus) + i] = ref[i]
        BY <1>1, <2>1, Growth
      <4>2. off + Len(ref) <= Len(bus \o ref)
        BY <1>1, <2>1, <2>6, <4>1
      <4> QED BY <2>6, <4>1, <4>2 DEF Place
    <3> QED BY <2>8, <3>1, <3>2
  <2> QED BY <2>1, <2>5, <2>9
<1>9. ASSUME NEW r \in certified'
      PROVE  Form(r.by, r.ref) /\ \A w \in Watchers : Told(bus', w, watch'[w], r.by, r.off, r.ref)
  <2>1. r \in certified /\ r.off \in Nat /\ r.ref \in Seq(Piece)
    BY DEF ReadInv, BusInv, TypeOK
  <2>2. Form(r.by, r.ref) /\ Place(bus, r.off, r.ref) /\ \A w \in Watchers : Told(bus, w, watch[w], r.by, r.off, r.ref)
    BY <2>1 DEF ReadInv, BusInv, Stands, Place
  <2>3. Len(r.ref) >= 1
    BY <2>1, <2>2 DEF Form
  <2>4. ASSUME NEW w \in Watchers PROVE Told(bus \o more, w, watch[w], r.by, r.off, r.ref)
    BY <1>1, <2>1, <2>2, <2>3, ToldKept
  <2> QED BY <2>2, <2>4
<1> QED BY <1>5, <1>7, <1>8, <1>9 DEF ReadInv

LEMMA AppendReads ==
  ASSUME ReadInv, BusInv', NEW s \in Posters, Append_(s)
  PROVE  ReadInv'
<1>1. post \in [Posters -> Poster] /\ post[s].at = "counted"
  BY DEF ReadInv, BusInv, TypeOK, Poster, Append_, Goes
<1>2. post[s].ref \in Seq(Piece) /\ Form(s, post[s].ref)
  BY <1>1 DEF ReadInv, Poster
<1>3. Len(post[s].ref) >= 1
  BY <1>2 DEF Form
<1>4. bus' = bus \o post[s].ref /\ UNCHANGED <<certified, watch>> /\ post' = [post EXCEPT ![s] = [post[s] EXCEPT !.at = "appended"]]
  BY DEF Append_, Goes
<1>5. \A t \in Posters :
        \/ post'[t] = post[t]
        \/ post[t].at = "counted" /\ post[s].ref = post[t].ref /\ post'[t] = [post[t] EXCEPT !.at = "appended"]
  BY <1>1, <1>4
<1> QED BY <1>2, <1>3, <1>4, <1>5, GrowthReads

LEMMA ByHandReads ==
  ASSUME ReadInv, BusInv', NEW h \in Hands, NEW key \in Keys, NEW ended \in BOOLEAN, ByHand(h, key, ended)
  PROVE  ReadInv'
<1> DEFINE line == <<Header(h, h, key), NL, Text(h)>>
           ending == IF ended THEN <<NL>> ELSE <<>>
<1>1. NL \in Piece /\ Header(h, h, key) \in Piece /\ Text(h) \in Piece
  BY BusAssumption DEF Piece, Seat
<1>2. line \in Seq(Piece) /\ ending \in Seq(Piece) /\ Len(line) = 3 /\ Len(ending) \in Nat
  BY <1>1
<1>3. bus' = bus \o line \o ending /\ UNCHANGED <<post, certified, watch>> /\ bus \in Seq(Piece)
  BY DEF ByHand, ReadInv, BusInv, TypeOK
<1> HIDE DEF line, ending
<1>a. line \o ending \in Seq(Piece) /\ Len(line \o ending) = Len(line) + Len(ending)
  BY <1>2, Growth
<1>b. bus' = bus \o (line \o ending)
  <2>1. bus \in Seq(Piece) /\ line \in Seq(Piece) /\ ending \in Seq(Piece)
    BY <1>2, <1>3
  <2>2. (bus \o line) \o ending = bus \o (line \o ending)
    BY <2>1, ConcatAssociative
  <2> QED BY <1>3, <2>2
<1>4. line \o ending \in Seq(Piece) /\ Len(line \o ending) = 3 + Len(ending) /\ bus' = bus \o (line \o ending)
  BY <1>2, <1>a, <1>b
<1>5. Len(line \o ending) >= 1
  BY <1>2, <1>4
<1> QED BY <1>3, <1>4, <1>5, GrowthReads

\* At first nothing was appended and nothing shown.
LEMMA InitReads == BusInit => ReadInv
<1> SUFFICES ASSUME BusInit PROVE ReadInv
  OBVIOUS
<1>1. BusInv /\ certified = {} /\ Len(bus) = 0
  BY InitHolds DEF BusInit
<1>2. \A s \in Posters : post[s].at = "idle"
  BY DEF BusInit, Asleep
<1>3. NewLines(bus, Len(bus)) \in Nat
  BY <1>1, NewLinesMonotonic
<1> DEFINE v == [at |-> "asleep", last |-> 0, n |-> 0, shown |-> {}, maestro |-> {}, orders |-> {}]
<1>4. v \in Poll /\ Watched(bus, v)
  BY <1>3 DEF Poll, Turns, Watched
<1>5. watch = [w \in Watchers |-> v]
  BY DEF BusInit
<1> HIDE DEF v
<1>6. watch \in [Watchers -> Poll] /\ \A w \in Watchers : Watched(bus, watch[w])
  BY <1>4, <1>5
<1> QED BY <1>1, <1>2, <1>6 DEF ReadInv, Pending

LEMMA ReadStep == ReadInv /\ [BusNext]_board => ReadInv'
<1> SUFFICES ASSUME ReadInv, [BusNext]_board PROVE ReadInv'
  OBVIOUS
<1>1. BusInv'
  BY StepKeeps DEF ReadInv
<1>2. CASE UNCHANGED board
  BY <1>1, <1>2 DEF board, ReadInv, Pending
<1>3. ASSUME NEW s \in Posters, Append_(s) PROVE ReadInv'
  BY <1>1, <1>3, AppendReads
<1>4. ASSUME NEW s \in Posters,
             \/ Anchor(s) \/ Offset(s) \/ CountLines(s) \/ Verify(s)
             \/ \E key \in Keys, quoted \in {{}, {Maestro} \ {s}} : Compose(s, key, quoted)
      PROVE  ReadInv'
  BY <1>1, <1>4, PosterReads
<1>5. ASSUME NEW h \in Hands, NEW key \in Keys, NEW ended \in BOOLEAN, ByHand(h, key, ended) PROVE ReadInv'
  BY <1>1, <1>5, ByHandReads
<1>6. ASSUME NEW w \in Watchers, Count_(w) \/ View(w) \/ Collect(w) \/ Orders(w) \/ Advance(w) PROVE ReadInv'
  BY <1>1, <1>6, WatcherReads
<1> QED BY <1>2, <1>3, <1>4, <1>5, <1>6 DEF BusNext

\* What is known of every post says what the readers of a certified one were shown.
LEMMA ReadIsTold == ReadInv => PostsReachReaders
<1> SUFFICES ASSUME ReadInv PROVE PostsReachReaders
  OBVIOUS
<1>1. ReceiptsAreTrue
  BY StandingIsTrue DEF ReadInv
<1>2. ASSUME NEW r \in certified, Clean(r.off, r.ref[2].key), NEW w \in Watchers
      PROVE  LET its == Fragments(r)  polled == LineOf(bus, r.off + 2) <= watch[w].last IN
             /\ r.by # Maestro => its \cap (watch[w].maestro \cup watch[w].orders) = {}
             /\ its \cap watch[w].orders \subseteq {r.off + 2}
             /\ polled /\ r.by # w => its \subseteq watch[w].shown
             /\ polled /\ r.by = Maestro => its \subseteq watch[w].maestro /\ r.off + 2 \in watch[w].orders
  <2> DEFINE off == r.off  ref == r.ref  b == r.by  v == watch[w]
  <2>1. off \in Nat /\ ref \in Seq(Piece) /\ Len(ref) \in Nat /\ bus \in Seq(Piece) /\ Len(bus) \in Nat /\ v.last \in Nat
    BY DEF ReadInv, BusInv, TypeOK, Poll
  <2>2. Form(b, ref) /\ Place(bus, off, ref) /\ Told(bus, w, v, b, off, ref)
    BY DEF ReadInv, BusInv, Stands, Place
  <2>3. CleanIn(bus, off, ref[2].key)
    BY <1>2 DEF Clean, CleanIn
  <2>4. Fragments(r) = Its(off, ref)
    <3>1. Fragments(r) = {i \in (off + 1)..(off + Len(ref)) : bus[i] # NL}
      BY DEF Fragments
    <3> HIDE DEF off, ref
    <3>2. ASSUME NEW i \in (off + 1)..(off + Len(ref)), bus[i] # NL PROVE i \in Its(off, ref)
      <4>1. i - off \in 1..Len(ref) /\ off + (i - off) = i
        BY <2>1
      <4>2. bus[i] = ref[i - off]
        BY <2>2, <4>1 DEF Place
      <4> QED BY <3>2, <4>1, <4>2 DEF Its
    <3>3. ASSUME NEW i \in Its(off, ref) PROVE i \in (off + 1)..(off + Len(ref)) /\ bus[i] # NL
      <4>1. PICK j \in 1..Len(ref) : ref[j] # NL /\ i = off + j
        BY DEF Its
      <4>2. bus[off + j] = ref[j]
        BY <2>2 DEF Place
      <4> QED BY <2>1, <4>1, <4>2
    <3> QED BY <3>1, <3>2, <3>3
  <2> HIDE DEF off, ref, b, v
  <2>5. LineOf(bus, off + 2) <= v.last => v.last >= NewLines(bus, off + Len(ref))
    <3>1. /\ NewLines(bus, off) \in Nat /\ NewLines(bus, off + Len(ref)) \in Nat
          /\ \A i \in 2..Len(ref) : NewLines(bus, off) + 2 <= LineOf(bus, off + i)
      BY <2>1, <2>2, RegionLines
    <3>2. 2 \in 2..Len(ref)
      BY <2>1, <2>2 DEF Form
    <3>3. NewLines(bus, off) + 2 <= LineOf(bus, off + 2)
      BY <3>1, <3>2
    <3>4. LineOf(bus, off + 2) \in Int
      <4>1. off + 2 \in 1..(Len(bus) + 1) /\ (off + 2) - 1 \in Nat
        BY <2>1, <2>2, <3>2 DEF Place
      <4>2. NewLines(bus, (off + 2) - 1) \in Nat
        BY <4>1, NewLinesMonotonic
      <4> QED BY <2>1, <4>1, <4>2, LineIs
    <3>5. Apart(bus, v.last, off, ref)
      BY <2>2 DEF Told
    <3> QED BY <2>1, <3>1, <3>3, <3>4, <3>5 DEF Apart
  <2>6. LineOf(bus, off + 2) <= v.last => \A turns : Past(bus, v, turns, off, ref)
    BY <2>5 DEF Past
  <2>7. /\ b # Maestro => Its(off, ref) \cap (v.maestro \cup v.orders) = {}
        /\ Its(off, ref) \cap v.orders \subseteq {off + 2}
        /\ LineOf(bus, off + 2) <= v.last /\ b # w => Its(off, ref) \subseteq v.shown
        /\ LineOf(bus, off + 2) <= v.last /\ b = Maestro => Its(off, ref) \subseteq v.maestro /\ off + 2 \in v.orders
    BY <2>2, <2>3, <2>6 DEF Told
  <2> QED BY <2>4, <2>7 DEF off, ref, b, v
<1> QED BY <1>1, <1>2 DEF PostsReachReaders

\* However posters, hands and polls interleave, receipts are true; a watcher that
\* has polled past a certified post has shown all its lines to everyone but its
\* author, the maestro's as the maestro's and as an order; and no line of a post
\* is taken for the maestro's, or held back as the reader's own, for a header it
\* quotes (bus_append.sh: the read-back; bus_watch.sh: the poll and its views).
THEOREM PostsArrive == BusSpec => []PostsReachReaders
<1>1. BusInit => ReadInv
  BY InitReads
<1>2. ReadInv /\ [BusNext]_board => ReadInv'
  BY ReadStep
<1>3. ReadInv => PostsReachReaders
  BY ReadIsTold
<1> QED BY <1>1, <1>2, <1>3, PTL DEF BusSpec
=============================================================================
