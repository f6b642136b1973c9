----------------------------- MODULE Transcript -----------------------------
(***************************************************************************)
(* The readers of docs/ledger-tools: what ledger_common, silence_windows,  *)
(* human_time, token_meter, fleet_hygiene and nudge_detect compute from    *)
(* the session transcripts, the git log and the bus.                       *)
(*                                                                         *)
(* `files' are the transcripts in the order they are read, each a sequence *)
(* of records; Transcripts[f] says whose a file is, and whether it is a    *)
(* subagent's.  A moment is a number of ticks; a text is a model value;    *)
(* what a text begins with is the `shape' of the record.                   *)
(***************************************************************************)
EXTENDS Integers, Sequences, FiniteSets, SequencesExt, FiniteSetsExt

CONSTANTS Transcripts,     \* <<[seat, sub], ...>>
          Lane,            \* the lane of each seat's directory
          Quotes,          \* the texts each text contains, itself included
          MaxShift, RecordTol, Gap, Minute, Lag, QuietHours, Window, Early

VARIABLES clock, files, commits, posts, tags

Seats == {Transcripts[f].seat : f \in DOMAIN Transcripts}
Never == 1000000
Recs(fs) == UNION {{<<f, i>> : i \in DOMAIN files[f]} : f \in fs}
Rec(at) == files[at[1]][at[2]]
Moments(recs) == {Rec(at).at : at \in recs}
Latest(S, none) == IF S = {} THEN none ELSE Max(S)
Earliest(S, none) == IF S = {} THEN none ELSE Min(S)
----------------------------------------------------------------------------
(* ledger_common: the lanes. *)

lane_refusal(seat) == Lane[seat] \in {"employer", "unlisted"}
session_files(seats) == {f \in DOMAIN Transcripts : Transcripts[f].seat \in seats /\ ~Transcripts[f].sub
                                                    /\ files[f] # <<>>}
subagent_files(seats) == {f \in DOMAIN Transcripts : Transcripts[f].seat \in seats /\ Transcripts[f].sub}
discover_personal_projects ==
  {s \in Seats : Lane[s] # "scratchpad" /\ ~lane_refusal(s) /\ session_files({s}) # {}}
----------------------------------------------------------------------------
(* ledger_common: presence. *)

HUMAN_KINDS == {"typed", "slash-command", "interrupt", "legacy-fallback"}
by_text(r) ==
  CASE r.shape = "interrupt" -> "interrupt"
    [] r.shape = "image" -> "legacy-fallback"
    [] r.shape = "command" -> "slash-command"
    [] r.shape = "injection" -> "injection"
    [] r.shape = "loop" -> "loop-tick"
    [] r.shape = "plain" -> "legacy-fallback"
classify_user_record(r) ==
  IF r.result THEN "tool-result"
  ELSE IF r.sidechain THEN "sidechain"
  ELSE IF r.origin = "human" THEN "typed"
  ELSE IF r.origin \in {"task-notification", "peer", "coordinator"} THEN r.origin
  ELSE IF r.meta THEN "harness-injection"
  ELSE by_text(r)
Human(r) == r.type = "user" /\ classify_user_record(r) \in HUMAN_KINDS

\* The moment of a human record is that of the nearest enqueue of its text in
\* that file, if it comes less than MaxShift before it.
enqueues(f, text) == {r.at : r \in {q \in ToSet(files[f]) : q.type = "enqueue" /\ q.text = text}}
touch_when_raw(f, r) == r.at        \* Faulty form: no queue correction.
touch_when(f, r) ==
  LET cands == enqueues(f, r.text)
      far(t) == IF t > r.at THEN t - r.at ELSE r.at - t
      best == CHOOSE t \in cands : \A u \in cands : far(t) < far(u) \/ (far(t) = far(u) /\ t <= u)
  IN  IF cands # {} /\ best < r.at /\ r.at - best < MaxShift THEN best ELSE r.at
human_touches(seats) ==
  {[when |-> touch_when(at[1], Rec(at)), seat |-> Transcripts[at[1]].seat, rec |-> at] :
     at \in {p \in Recs(session_files(seats)) : Human(Rec(p))}}
Times(touches) == {t.when : t \in touches}
corpus_start(seats) == Earliest(Moments(Recs(session_files(seats))), Never)
----------------------------------------------------------------------------
(* ledger_common: the record's own holes, and the commits. *)

activity_trace(seats) == Moments(Recs(session_files(seats) \cup subagent_files(seats)))
record_distance(c, trace) ==
  LET before == Latest({t \in trace : t < c.at}, -Never)
      after  == Earliest({t \in trace : t >= c.at}, Never)
  IN  Min({c.at - before, after - c.at})
unrecorded_commits(cs, trace) == {c \in cs : record_distance(c, trace) > RecordTol}

\* git log lists the newest first and the sort by moment is stable.
Earlier(c, d) == c.at < d.at \/ (c.at = d.at /\ c.n > d.n)
InOrder(cs) ==
  LET rank(c) == Cardinality({d \in cs : Earlier(d, c)})
  IN  [k \in 1..Cardinality(cs) |-> CHOOSE c \in cs : rank(c) = k - 1]
git_commits == InOrder(ToSet(commits))
----------------------------------------------------------------------------
(* silence_windows. *)

enclosing_window(c, times, start) ==
  [observed |-> start <= c.at,
   prev |-> Latest({t \in times : t <= c.at}, start),
   nxt  |-> Earliest({t \in times : t > c.at}, clock),
   open_start |-> \A t \in times : t > c.at,
   open_end   |-> \A t \in times : t <= c.at]
length_s(w) == IF w.nxt > w.prev THEN w.nxt - w.prev ELSE 0
observed(cs, times, start) == {c \in cs : enclosing_window(c, times, start).observed}
inside_silence(cs, times, start, h) ==
  {c \in observed(cs, times, start) : length_s(enclosing_window(c, times, start)) >= h}

\* The end of the run that starts at i, and the first longest of the runs.
Broken(cs, j, times) == \E t \in times : cs[j].at < t /\ t <= cs[j + 1].at
RunEnd(cs, i, times) ==
  Min({j \in i..Len(cs) : j = Len(cs) \/ Broken(cs, j, times)})
RunStart(cs, i, times) == i = 1 \/ Broken(cs, i - 1, times)
longest_run(cs, times) ==
  LET starts == {i \in DOMAIN cs : RunStart(cs, i, times)}
      count(i) == RunEnd(cs, i, times) - i + 1
      span(i)  == cs[RunEnd(cs, i, times)].at - cs[i].at
      better(i, k) == \/ count(i) > count(k)
                      \/ count(i) = count(k) /\ span(i) > span(k)
                      \/ count(i) = count(k) /\ span(i) = span(k) /\ i < k
      best == CHOOSE i \in starts : \A k \in starts \ {i} : better(i, k)
  IN  [first |-> best, count |-> count(best)]
----------------------------------------------------------------------------
(* human_time. *)

blocks(touches) ==
  LET times == Times(touches)
      opens(t) == \A u \in times : u < t => t - u > Gap
      end(t) == Max({u \in times : u >= t /\ \A v \in times : (t < v /\ v <= u) => ~opens(v)})
  IN  {[lo |-> t, hi |-> end(t)] : t \in {u \in times : opens(u)}}
Truncated(t) == t - (t % Minute)
block_id(b) == Truncated(b.lo)
tagged(tag, b) == Truncated(b.lo) <= tag.id /\ tag.id <= b.hi
orphaned(bs) == {tag \in tags : \A b \in bs : ~tagged(tag, b)}
----------------------------------------------------------------------------
(* ledger_common and token_meter: the requests. *)

Answers(seats) ==
  {at \in Recs(session_files(seats) \cup subagent_files(seats)) :
     Rec(at).type = "assistant" /\ ~Rec(at).synthetic}
Before(p, q) == p[1] < q[1] \/ (p[1] = q[1] /\ p[2] < q[2])
usage_events_records(seats) == Answers(seats)   \* Faulty form: a record is a request.
usage_events(seats) ==
  {at \in Answers(seats) : \A p \in Answers(seats) : Before(p, at) => Rec(p).request # Rec(at).request}
table(events, here) == LET tokens(at) == Rec(at).tokens IN MapThenSumSet(tokens, {at \in events : here[at]})

\* A request is charged to the next commit at or after it, if that is not late.
nearest(at, cs) ==   \* Faulty form: the nearest commit, before or after.
  LET far(c) == IF c.at > Rec(at).at THEN c.at - Rec(at).at ELSE Rec(at).at - c.at
  IN  {i \in DOMAIN cs : 
          /\ far(cs[i]) <= Lag
          /\ \A j \in DOMAIN cs \ {i} : far(cs[i]) < far(cs[j]) \/ (far(cs[i]) = far(cs[j]) /\ i < j)}
charged(at, cs) ==
  {i \in DOMAIN cs : /\ cs[i].at >= Rec(at).at /\ cs[i].at - Rec(at).at <= Lag
                     /\ \A j \in 1..(i - 1) : cs[j].at < Rec(at).at}
----------------------------------------------------------------------------
(* fleet_hygiene. *)

scan_seats == {s \in discover_personal_projects : Lane[s] # "employer"}
last_activity(s) == Latest(Moments(Recs(session_files({s}))), 0)
POST_RE_closed == {"bracket"}                 \* Faulty form: `]' right after the name.
POST_RE == {"bracket", "annotated"}
DASH_RE == {"dash"}
scan_fleet_md_all(s) == {p.at : p \in {q \in posts : q.seat = s /\ q.form \in POST_RE \cup DASH_RE}}
scan_fleet_md(s) == Latest(scan_fleet_md_all(s), -Never)
verdict(s) ==
  IF clock - last_activity(s) > QuietHours THEN "STALLED"
  ELSE IF clock - scan_fleet_md(s) > QuietHours THEN "SILENT" ELSE "ok"
----------------------------------------------------------------------------
(* nudge_detect. *)

sends(seats) == {at \in Recs(session_files(seats) \cup subagent_files(seats)) : Rec(at).type = "send"}
human_records(seats) == {at \in Recs(session_files(seats)) : Human(Rec(at))}
explains_any(inj, at) ==    \* Faulty form: a session may nudge itself.
  LET dt == Rec(at).at - Rec(inj).at
  IN  -Early <= dt /\ dt <= Window /\ Rec(inj).text \in Quotes[Rec(at).text]
explains(inj, at) ==
  LET dt == Rec(at).at - Rec(inj).at
  IN  -Early <= dt /\ dt <= Window /\ Rec(inj).text \in Quotes[Rec(at).text] /\ inj[1] # at[1]
match(seats) == {at \in human_records(seats) : \E inj \in sends(seats) : explains(inj, at)}
============================================================================
