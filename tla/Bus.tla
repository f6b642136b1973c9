--------------------------------- MODULE Bus ---------------------------------
(***************************************************************************)
(* The bus: one log that every seat appends to and nobody locks.           *)
(* bus_append.sh appends a post and certifies it from the file;            *)
(* bus_watch.sh polls the file and shows a seat what its peers wrote.      *)
(* Others append by hand.                                                  *)
(*                                                                         *)
(* The file is a sequence of newlines and pieces of lines.  A piece that   *)
(* begins a line and has the form of a header makes a header of the line:  *)
(* `says' is the seat it names, `by' is who wrote it, `key' its minute.    *)
(* One append is one write; the file is never cut.                         *)
(***************************************************************************)
EXTENDS Integers, Sequences, FiniteSets, FiniteSetsExt

CONSTANTS Posters, Hands, Watchers, Maestro, Keys, MaxPosts

ASSUME BusAssumption == Keys \subseteq Int /\ MaxPosts \in Nat

VARIABLES
  bus,
  post,       \* the command each poster runs
  written,    \* how many posts were begun
  certified,  \* the receipts printed
  watch       \* where each watcher is in its poll, and what it has shown

board == <<bus, post, written, certified, watch>>

NL == [kind |-> "nl"]
Header(by, says, key) == [kind |-> "head", by |-> by, says |-> says, key |-> key]
Text(by) == [kind |-> "text", by |-> by]
WcL(file) == Cardinality({i \in DOMAIN file : file[i] = NL})
----------------------------------------------------------------------------
(* bus_watch: whose a line is. *)

LineOf(file, i) == 1 + WcL(SubSeq(file, 1, i - 1))

\* Each header comes after a blank line or is no older than the newest so far.
IsHeader(file, i) == file[i].kind = "head" /\ (i = 1 \/ file[i - 1] = NL)
prevblank(file, i) == i > 1 /\ file[i - 1] = NL /\ (i = 2 \/ file[i - 2] = NL)
lastkey(file, i) == Max({0} \cup {file[j].key : j \in {k \in 1..(i - 1) : IsHeader(file, k)}})
hdrok_blank(file, i) == prevblank(file, i)      \* Faulty form: the blank line alone.
hdrok(file, i) == prevblank(file, i) \/ file[i].key >= lastkey(file, i)
Opens(file, i) == IsHeader(file, i) /\ hdrok(file, i)
owner(file, i) ==
  LET opened_by == {j \in 1..i : Opens(file, j)}
  IN  IF opened_by = {} THEN "nobody" ELSE file[Max(opened_by)].says
\* The same where blank lines are only noticed past the baseline.
prevblank_from(file, i, start) == prevblank(file, i) /\ LineOf(file, i) > start + 1
Opens_from(file, i, start) ==
  IsHeader(file, i) /\ (prevblank_from(file, i, start) \/ file[i].key >= lastkey(file, i))
owner_from(file, i, start) ==
  LET opened_by == {j \in 1..i : Opens_from(file, j, start)}
  IN  IF opened_by = {} THEN "nobody" ELSE file[Max(opened_by)].says
After(file, start) == {i \in DOMAIN file : file[i] # NL /\ LineOf(file, i) > start}
----------------------------------------------------------------------------
(* bus_append. *)

Asleep == [at |-> "idle", seen |-> -1, ref |-> <<>>, off |-> 0, pre |-> 0]
Begin == written < MaxPosts /\ written' = written + 1
Goes(s, from, new) == post[s].at = from /\ post' = [post EXCEPT ![s] = new]

\* The author opens the bus, or only posts; the anchor says which.
Anchor(s) ==
  /\ Goes(s, "idle", [Asleep EXCEPT !.at = "read", !.seen = WcL(bus)])
  /\ UNCHANGED <<bus, written, certified, watch>>
\* The reference: a header after a newline, a body that may quote a header of an
\* earlier minute, and a newline at its end.
Reference(s, key, quoted) ==
  <<NL, Header(s, s, key), NL, Text(s)>>
    \o (IF quoted = {} THEN <<>> ELSE <<NL, Header(s, CHOOSE q \in quoted : TRUE, key - 1), NL, Text(s)>>)
    \o <<NL>>
Compose(s, key, quoted) ==
  /\ post[s].at \in {"idle", "read"} /\ Begin
  /\ Goes(s, post[s].at, [post[s] EXCEPT !.at = "composed", !.ref = Reference(s, key, quoted)])
  /\ UNCHANGED <<bus, certified, watch>>
Offset(s) ==
  /\ Goes(s, "composed", [post[s] EXCEPT !.at = "offset", !.off = Len(bus)])
  /\ UNCHANGED <<bus, written, certified, watch>>
CountLines(s) ==
  /\ Goes(s, "offset", [post[s] EXCEPT !.at = "counted", !.pre = WcL(bus)])
  /\ UNCHANGED <<bus, written, certified, watch>>
Append_(s) ==
  /\ Goes(s, "counted", [post[s] EXCEPT !.at = "appended"])
  /\ bus' = bus \o post[s].ref /\ UNCHANGED <<written, certified, watch>>

\* The growth of the file and the region at the offset, and the lines that
\* landed since the anchor.
Verified(s) ==
  LET n == Len(post[s].ref) IN
  /\ Len(bus) - post[s].off = n
  /\ SubSeq(bus, post[s].off + 1, post[s].off + n) = post[s].ref
Interval(s) == IF post[s].seen = -1 THEN -1 ELSE Max({0, post[s].pre - post[s].seen})
Verify(s) ==
  /\ Goes(s, "appended", Asleep)
  /\ certified' = IF Verified(s)
       THEN certified \cup {[by |-> s, off |-> post[s].off, ref |-> post[s].ref, seen |-> post[s].seen, gap |-> Interval(s)]}
       ELSE certified
  /\ UNCHANGED <<bus, written, watch>>
----------------------------------------------------------------------------
(* A post made by hand: its header stands wherever the file ends, and its    *)
(* last line may want a newline.                                             *)

ByHand(h, key, ended) ==
  /\ Begin
  /\ bus' = bus \o <<Header(h, h, key), NL, Text(h)>> \o (IF ended THEN <<NL>> ELSE <<>>)
  /\ UNCHANGED <<post, certified, watch>>
----------------------------------------------------------------------------
(* A poll of bus_watch: the lines are counted, then the whole file is read   *)
(* for the peers' view, for what the maestro said and for its orders.        *)

Turn(w, from, new) == watch[w].at = from /\ watch' = [watch EXCEPT ![w] = new]
Count_(w) ==
  /\ WcL(bus) > watch[w].last
  /\ Turn(w, "asleep", [watch[w] EXCEPT !.at = "counted", !.n = WcL(bus)])
  /\ UNCHANGED <<bus, post, written, certified>>
View(w) ==
  /\ Turn(w, "counted", [watch[w] EXCEPT !.at = "viewed",
       !.shown = @ \cup {i \in After(bus, watch[w].last) : owner(bus, i) # w}])
  /\ UNCHANGED <<bus, post, written, certified>>
Collect(w) ==
  /\ Turn(w, "viewed", [watch[w] EXCEPT !.at = "collected",
       !.maestro = @ \cup {i \in After(bus, watch[w].last) : owner_from(bus, i, watch[w].last) = Maestro}])
  /\ UNCHANGED <<bus, post, written, certified>>
Orders(w) ==
  /\ Turn(w, "collected", [watch[w] EXCEPT !.at = "ordered",
       !.orders = @ \cup {i \in After(bus, watch[w].last) : Opens(bus, i) /\ bus[i].says = Maestro}])
  /\ UNCHANGED <<bus, post, written, certified>>
Advance(w) ==
  /\ Turn(w, "ordered", [watch[w] EXCEPT !.at = "asleep", !.last = watch[w].n, !.n = 0])
  /\ UNCHANGED <<bus, post, written, certified>>

BusInit ==
  /\ bus = <<>> /\ written = 0 /\ certified = {}
  /\ post = [s \in Posters |-> Asleep]
  /\ watch = [w \in Watchers |-> [at |-> "asleep", last |-> 0, n |-> 0, shown |-> {}, maestro |-> {}, orders |-> {}]]
BusNext ==
  \/ \E s \in Posters :
       \/ Anchor(s) \/ Offset(s) \/ CountLines(s) \/ Append_(s) \/ Verify(s)
       \/ \E key \in Keys, quoted \in {{}, {Maestro} \ {s}} : Compose(s, key, quoted)
  \/ \E h \in Hands, key \in Keys, ended \in BOOLEAN : ByHand(h, key, ended)
  \/ \E w \in Watchers : Count_(w) \/ View(w) \/ Collect(w) \/ Orders(w) \/ Advance(w)
BusSpec == BusInit /\ [][BusNext]_board
----------------------------------------------------------------------------
(* Correctness. *)

\* The header of the post at the offset can be told: it stands after a blank
\* line, since what was before ended its last line, or is not older than that.
Clean(off, key) == off = 0 \/ bus[off] = NL \/ key >= lastkey(bus, off + 2)
Fragments(r) == {i \in (r.off + 1)..(r.off + Len(r.ref)) : bus[i] # NL}

\* What a receipt says.  The post stands in the bus, whole, where its receipt
\* says, and where it says that nothing, or so many lines, landed while it was
\* composed, that is what landed between the reading and the post.
ReceiptsAreTrue ==
  \A r \in certified :
    /\ SubSeq(bus, r.off + 1, r.off + Len(r.ref)) = r.ref
    /\ r.seen # -1 => r.gap = WcL(SubSeq(bus, 1, r.off)) - r.seen

\* INVARIANT. From the author to the reader: receipts are true, whoever appends
\* between the commands of a poster.  A watcher that has polled past a certified
\* post has shown it, every line, to everyone but its author, as the maestro's
\* if it is and as an order; and no line of it, though it quotes a header of
\* someone's, is shown as the maestro's if it is not, or is held back as the
\* reader's own.
PostsReachReaders ==
  /\ ReceiptsAreTrue
  /\ \A r \in certified : Clean(r.off, r.ref[2].key) => \A w \in Watchers :
       LET its == Fragments(r)  polled == LineOf(bus, r.off + 2) <= watch[w].last IN
       /\ r.by # Maestro => its \cap (watch[w].maestro \cup watch[w].orders) = {}
       /\ its \cap watch[w].orders \subseteq {r.off + 2}
       /\ polled /\ r.by # w => its \subseteq watch[w].shown
       /\ polled /\ r.by = Maestro => its \subseteq watch[w].maestro /\ r.off + 2 \in watch[w].orders
============================================================================
