------------------------------- MODULE Reports -------------------------------
(***************************************************************************)
(* The reports that the tools of docs/ledger-tools write: the tables of    *)
(* silence_windows, human_time, token_meter, nudge_detect and              *)
(* fleet_hygiene, as records of the counts they print.  Each is computed   *)
(* from the readers of Transcript at the moment it is asked for; insertion *)
(* counts, names and wording are left out.                                 *)
(***************************************************************************)
EXTENDS Transcript

CONSTANTS Repo,           \* the seat of the repository whose commits are read
          THRESHOLDS_H, Buckets, Day, Floor, ActiveHours

Count(S) == Cardinality(S)
day_local(t) == t \div Day
----------------------------------------------------------------------------
(* silence_windows.build *)

\* Section 2, for the fleet or for the repository's own seat alone.
shares(cs, times, start) ==
  [h \in THRESHOLDS_H |-> {c \in cs : length_s(enclosing_window(c, times, start)) >= h}]
\* Section 3: a gap of at least the last edge falls in the last bucket.
gap_of(c, times, start) == c.at - enclosing_window(c, times, start).prev
buckets(cs, times, start) ==
  [k \in DOMAIN Buckets |->
     {c \in cs : /\ Buckets[k] <= gap_of(c, times, start)
                 /\ k < Len(Buckets) => gap_of(c, times, start) < Buckets[k + 1]}]
\* Section 4: the commits of each window, and the exhibit with most of them.
groups(cs, times, start) ==
  {[from |-> enclosing_window(c, times, start).prev, to |-> enclosing_window(c, times, start).nxt,
    landed |-> {d \in cs : enclosing_window(d, times, start) = enclosing_window(c, times, start)}] : c \in cs}
exhibit(gs) == Max({Count(g.landed) : g \in gs})

\* Section 5: only commits that were observed are in a run.
LongestUnbroken(cs, times) == IF cs = <<>> THEN 0 ELSE longest_run(cs, times).count
\* The touches between the first commit and the last, and the claim that those
\* of the repository's own seat are all of them.
InWindow(seats, cs) == {p \in human_touches(seats) : \E c, d \in cs : c.at <= p.when /\ p.when <= d.at}
coincide(touches) == \A p \in touches : p.seat = Repo

silence_report(seats) ==
  LET times    == Times(human_touches(seats))
      start    == corpus_start(seats)
      own      == Times(human_touches({Repo}))
      mine     == corpus_start({Repo})
      all      == ToSet(commits)
      seen     == observed(all, times, start)
      ordered  == InOrder(seen)
  IN  [holes      |-> unrecorded_commits(all, activity_trace(seats)),
       unobserved |-> all \ seen,
       inSilence  |-> shares(seen, times, start),
       seatAlone  |-> IF own = {} THEN [h \in THRESHOLDS_H |-> {}]
                      ELSE shares(observed(all, own, mine), own, mine),
       gaps       |-> buckets(seen, times, start),
       windows    |-> groups(seen, times, start),
       run        |-> LongestUnbroken(ordered, times),
       coincide   |-> coincide(InWindow(seats, all)),
       perDay     |-> [d \in {day_local(c.at) : c \in all} |->
                         {c \in seen : day_local(c.at) = d /\ length_s(enclosing_window(c, times, start)) >= 1}]]
----------------------------------------------------------------------------
(* human_time.build *)

CLAIM_CATEGORIES == {"DIRECTING", "REVIEWING", "UNBLOCKING"}
categories(b) == {tag.cat : tag \in {t \in tags : tagged(t, b)}}
\* Faulty form: the first tag of the block decides.
category_of_first(b) ==
  LET mine == {t \in tags : tagged(t, b)} IN
  IF mine = {} THEN "UNTAGGED"
  ELSE (CHOOSE t \in mine : \A u \in mine : t.id <= u.id).cat
category_of(b) ==
  IF categories(b) = {} THEN "UNTAGGED"
  ELSE IF Cardinality(categories(b)) > 1 THEN "CONFLICTED"
  ELSE CHOOSE cat \in categories(b) : TRUE
dur(b) == Max({b.hi - b.lo, Floor})
human_report(seats) ==
  LET bs == blocks(human_touches(seats))
      time(S) == MapThenSumSet(dur, S)
      claimed == {b \in bs : category_of(b) \in CLAIM_CATEGORIES}
  IN  [blocks   |-> bs,
       claimed  |-> claimed,
       claim    |-> time(claimed),
       total    |-> time(bs),
       byCat    |-> [cat \in {category_of(b) : b \in bs} |-> {b \in bs : category_of(b) = cat}],
       perDay   |-> [d \in {day_local(b.lo) : b \in bs} |-> time({b \in bs : day_local(b.lo) = d})],
       orphaned |-> orphaned(bs)]
----------------------------------------------------------------------------
(* token_meter.build: requests and output per row.  The join by waves       *)
(* takes the repository's own seat alone.                                   *)

rows(events, key(_)) ==
  [k \in {key(at) : at \in events} |->
     [requests |-> Count({at \in events : key(at) = k}),
      output   |-> table(events, [at \in events |-> key(at) = k])]]
token_report(seats) ==
  LET events == usage_events(seats)
      joined == {at \in events : Transcripts[at[1]].seat = Repo}
      lost   == {at \in joined : charged(at, git_commits) = {}}
      wave(at) == CHOOSE i \in charged(at, git_commits) : TRUE
  IN  [grand        |-> rows(events, LAMBDA at : "total"),
       byProject    |-> rows(events, LAMBDA at : Transcripts[at[1]].seat),
       byDay        |-> rows(events, LAMBDA at : day_local(Rec(at).at)),
       byWhere      |-> rows(events, LAMBDA at : Transcripts[at[1]].sub),
       byWave       |-> rows(joined \ lost, wave),
       unattributed |-> rows(lost, LAMBDA at : "none")]
TableSum(t) == MapThenSumSet(LAMBDA k : t[k].output, DOMAIN t)
----------------------------------------------------------------------------
(* nudge_detect.main: refuses to divide when nothing could be compared.     *)

nudge_report(seats) ==
  LET touches == human_records(seats) IN
  [injections |-> sends(seats), human |-> touches, machine |-> match(seats)]
----------------------------------------------------------------------------
(* fleet_hygiene.build: the seats seen in the last ActiveHours and the two   *)
(* alarms; a seat not seen in that time is in no table.                      *)

\* How the threshold stands to the gaps between a seat's posts of the day.
post_gap_calibration(seats) ==
  LET same(s) == {t \in scan_fleet_md_all(s) : day_local(t) = day_local(clock)}
      gap(s, t) == Earliest({u \in same(s) : u > t}, t) - t
  IN  UNION {{gap(s, t) : t \in same(s)} \ {0} : s \in seats}
hygiene_report ==
  LET idle(s) == clock - last_activity(s)
      seen == {s \in scan_seats : last_activity(s) > 0 /\ idle(s) <= ActiveHours}
  IN  [rows    |-> seen,
       stalled |-> {s \in seen : verdict(s) = "STALLED"},
       silent  |-> {s \in seen : verdict(s) = "SILENT"},
       largest |-> Latest(post_gap_calibration(DOMAIN Lane), 0)]
all_clear(r) == r.stalled = {} /\ r.silent = {}
============================================================================
