------------------------------- MODULE Ledger -------------------------------
(***************************************************************************)
(* The sessions the ledger reads about: people and machines write to the   *)
(* seats, the harness injects records of its own, requests stream in, work *)
(* lands, the record has a hole.  The reports of Reports are written at   *)
(* every moment, and compared with what happened.                          *)
(*                                                                         *)
(* `menu' bounds a behaviour: who acts and how, the texts, the steps and   *)
(* the last tick.  A menu is `distinct' when no text is typed twice into a *)
(* seat.  What happened is kept in acts (the human acts and nudges that    *)
(* reached a transcript), nudged, requests and hole.                       *)
(***************************************************************************)
EXTENDS Reports

CONSTANTS Menus

VARIABLES menu, steps, busy, queued, wire, recording, acts, nudged, requests, hole, typed
session == <<busy, queued, wire>>
truth   == <<acts, nudged, requests, typed>>
vars == <<clock, files, commits, posts, tags, menu, steps, session, recording, truth, hole>>

Main(s) == CHOOSE f \in DOMAIN Transcripts : Transcripts[f].seat = s /\ ~Transcripts[f].sub

\* Every seat has a transcript of its own, and a lane.
ASSUME SeatsAssumption == Seats \subseteq DOMAIN Lane /\ \A s \in Seats :
  \E f \in DOMAIN Transcripts : Transcripts[f].seat = s /\ ~Transcripts[f].sub
\* Each seat's directory is on one of the lists, and the repository's own is a personal one.
ASSUME LanesAssumption ==
  /\ Transcripts \in Seq([seat : Seats, sub : BOOLEAN])
  /\ \A s \in Seats : Lane[s] \in {"personal", "employer", "unlisted", "scratchpad"}
  /\ Repo \in Seats /\ Lane[Repo] = "personal"
\* A minute and the floor of a block are not longer than the gap that ends it (60 s of 20 minutes);
\* the thresholds start with the first hour and the buckets at nothing.
ASSUME SettingsAssumption ==
  /\ {MaxShift, RecordTol, Lag, Gap, Floor} \subseteq Nat /\ Minute \in Nat \ {0}
  /\ Minute <= Gap + 1 /\ Floor <= Gap + 1
  /\ 1 \in THRESHOLDS_H /\ THRESHOLDS_H \subseteq Nat
  /\ Buckets \in Seq(Nat) /\ Buckets # <<>> /\ Buckets[1] = 0
\* A seat is quiet for a shorter time than it is seen (6 hours of 48).
ASSUME HoursAssumption == {QuietHours, ActiveHours} \subseteq Nat /\ QuietHours <= ActiveHours /\ QuietHours < Never
\* What people type quotes a sent text in the sending session alone; "none" is no text that
\* anyone types, and what is pasted is known for a human's by a client that stamps its records.
ASSUME MenusAssumption == \A m \in Menus :
  /\ {m.modern, m.distinct} \subseteq BOOLEAN /\ m.steps \in Nat
  /\ m.last \in Nat /\ m.last + RecordTol < Never
  /\ m.seats \cup m.targets \subseteq Seats /\ m.senders \subseteq DOMAIN Transcripts
  /\ m.touches \subseteq {"command", "interrupt", "image", "pasted"}
  /\ m.injects \subseteq {"tick", "task-notification", "peer", "coordinator", "summary", "result", "sidechain"}
  /\ m.texts \cup m.payloads \cup {"none"} \subseteq DOMAIN Quotes /\ Quotes["none"] \cap m.payloads = {}
  /\ "none" \notin m.texts \cup m.payloads /\ (~m.modern => "pasted" \notin m.touches)
  /\ (\E t \in m.texts : Quotes[t] \cap m.payloads # {}) => \A s \in m.seats : m.senders \subseteq {Main(s)}

Init ==
  /\ menu \in Menus /\ clock = 1 /\ steps = 0
  /\ files = [f \in DOMAIN Transcripts |-> <<>>]
  /\ commits = <<>> /\ posts = {} /\ tags = {} /\ typed = {}
  /\ busy = {} /\ queued = [s \in Seats |-> <<>>] /\ wire = {}
  /\ recording = TRUE /\ acts = {} /\ nudged = {} /\ requests = {} /\ hole = [from |-> 0, to |-> 0]

Step(act) == act \in menu.acts /\ steps < menu.steps /\ steps' = steps + 1 /\ UNCHANGED <<menu, clock>>
Alive(f) == Transcripts[f].sub => files[Main(Transcripts[f].seat)] # <<>>
Write(f, rec) == files' = IF recording THEN [files EXCEPT ![f] = Append(@, rec)] ELSE files
Next1(f) == <<f, Len(files[f]) + 1>>      \* the place of the record being written
Blank == [type |-> "user", at |-> clock, text |-> "none", shape |-> "plain", origin |-> "none",
          meta |-> FALSE, result |-> FALSE, sidechain |-> FALSE, synthetic |-> FALSE,
          request |-> 0, tokens |-> 0]
----------------------------------------------------------------------------
(* The records Claude Code writes, by a client that stamps them and by an older one. *)

By(kind) == IF menu.modern THEN kind ELSE "none"
HumanRecord(kind, text) ==
  CASE kind = "typed" -> [Blank EXCEPT !.text = text, !.origin = By("human")]
    [] kind = "pasted" -> [Blank EXCEPT !.text = text, !.origin = By("human"), !.shape = "injection"]
    [] kind \in {"command", "interrupt", "image"} -> [Blank EXCEPT !.shape = kind]
InjectedRecord(kind, text) ==
  CASE kind = "tick" -> [Blank EXCEPT !.text = text, !.meta = menu.modern,
                           !.shape = IF menu.modern THEN "plain" ELSE "loop"]
    [] kind \in {"task-notification", "peer", "coordinator"} ->
         [Blank EXCEPT !.origin = By(kind), !.shape = IF menu.modern THEN "plain" ELSE "injection"]
    [] kind = "summary" -> [Blank EXCEPT !.shape = "injection"]
    [] kind = "result" -> [Blank EXCEPT !.result = TRUE]
    [] kind = "sidechain" -> [Blank EXCEPT !.sidechain = TRUE]

\* What reaches a busy seat is queued, with a record of the moment.
Reach(s, text, machine) ==
  IF s \in busy
  THEN /\ Write(Main(s), [Blank EXCEPT !.type = "enqueue", !.text = text])
       /\ queued' = [queued EXCEPT ![s] = Append(@, [text |-> text, at |-> clock, machine |-> machine])]
       /\ UNCHANGED <<acts, nudged>>
  ELSE /\ Write(Main(s), HumanRecord("typed", text))
       /\ acts' = acts \cup {[seat |-> s, at |-> clock, read |-> clock, text |-> text]}
       /\ nudged' = IF machine THEN nudged \cup {Next1(Main(s))} ELSE nudged
       /\ UNCHANGED queued
Type(s, text) ==
  /\ Step("type")
  /\ menu.distinct => <<s, text>> \notin typed
  /\ Reach(s, text, FALSE) /\ typed' = typed \cup {<<s, text>>}
  /\ UNCHANGED <<commits, posts, tags, busy, wire, recording, requests, hole>>
Touch(s, kind) ==
  /\ Step("touch") /\ Write(Main(s), HumanRecord(kind, "none"))
  /\ acts' = acts \cup {[seat |-> s, at |-> clock, read |-> clock, text |-> "none"]}
  /\ UNCHANGED <<commits, posts, tags, session, recording, nudged, requests, hole, typed>>
Inject(s, kind, text) ==
  /\ Step("inject") /\ Write(Main(s), InjectedRecord(kind, text))
  /\ UNCHANGED <<commits, posts, tags, session, recording, truth, hole>>
Start(s) ==
  /\ Step("busy") /\ s \notin busy /\ busy' = busy \cup {s}
  /\ UNCHANGED <<files, commits, posts, tags, queued, wire, recording, truth, hole>>
Dequeue(s) ==
  /\ queued[s] # <<>> /\ menu' = menu /\ UNCHANGED <<clock, steps>>
  /\ Write(Main(s), HumanRecord("typed", Head(queued[s]).text))
  /\ acts' = acts \cup {[seat |-> s, at |-> Head(queued[s]).at, read |-> clock, text |-> Head(queued[s]).text]}
  /\ nudged' = IF Head(queued[s]).machine THEN nudged \cup {Next1(Main(s))} ELSE nudged
  /\ queued' = [queued EXCEPT ![s] = Tail(@)]
  /\ UNCHANGED <<commits, posts, tags, busy, wire, recording, requests, hole, typed>>
Finish(s) ==
  /\ s \in busy /\ queued[s] = <<>> /\ busy' = busy \ {s}
  /\ UNCHANGED <<clock, files, commits, posts, tags, menu, steps, queued, wire, recording, truth, hole>>

\* A seat sends keys to another one's input box; they arrive later.
Send(f, s, text) ==
  /\ Step("send") /\ Transcripts[f].seat # s /\ Alive(f)
  /\ menu.distinct => <<s, text>> \notin typed
  /\ Write(f, [Blank EXCEPT !.type = "send", !.text = text])
  /\ wire' = wire \cup {<<s, text>>} /\ typed' = typed \cup {<<s, text>>}
  /\ UNCHANGED <<commits, posts, tags, busy, queued, recording, acts, nudged, requests, hole>>
Deliver(s, text) ==
  /\ <<s, text>> \in wire /\ wire' = wire \ {<<s, text>>}
  /\ Reach(s, text, TRUE)
  /\ UNCHANGED <<clock, commits, posts, tags, menu, steps, busy, recording, requests, hole, typed>>

\* One record of the answer to a request, which may have several.
Answer(f, id) ==
  /\ Step("answer") /\ Alive(f) /\ id \in 1..(Cardinality(requests) + 1)
  /\ \A q \in requests : q.id = id => q.file = f
  /\ Write(f, [Blank EXCEPT !.type = "assistant", !.request = id, !.tokens = 10 * id])
  /\ requests' = requests \cup {[id |-> id, file |-> f]}
  /\ UNCHANGED <<commits, posts, tags, session, recording, acts, nudged, hole, typed>>
Fail(f) ==
  /\ Step("answer") /\ Alive(f) /\ Write(f, [Blank EXCEPT !.type = "assistant", !.synthetic = TRUE])
  /\ UNCHANGED <<commits, posts, tags, session, recording, truth, hole>>

\* A session commits, and writes of it.
Commit(f) ==
  /\ Step("commit") /\ Alive(f) /\ Write(f, [Blank EXCEPT !.type = "assistant", !.synthetic = TRUE])
  /\ commits' = Append(commits, [n |-> Len(commits) + 1, at |-> clock, seat |-> Transcripts[f].seat, kept |-> recording])
  /\ UNCHANGED <<posts, tags, session, recording, truth, hole>>
\* The transcripts are left behind, once, and taken up again.
Lose ==
  /\ Step("lose") /\ hole.from = 0 /\ recording' = FALSE /\ hole' = [hole EXCEPT !.from = clock]
  /\ UNCHANGED <<files, commits, posts, tags, session, truth>>
Resume ==
  /\ ~recording /\ recording' = TRUE /\ hole' = [hole EXCEPT !.to = clock]
  /\ UNCHANGED <<clock, files, commits, posts, tags, menu, steps, session, truth>>
Post(s, form) ==
  /\ Step("post") /\ posts' = posts \cup {[seat |-> s, at |-> clock, form |-> form]}
  /\ UNCHANGED <<files, commits, tags, session, recording, truth, hole>>

Fleet == discover_personal_projects
Tag(b, cat) ==
  /\ Step("tag")
  /\ tags' = {t \in tags : t.id # block_id(b)} \cup {[id |-> block_id(b), cat |-> cat]}
  /\ tags' # tags
  /\ UNCHANGED <<files, commits, posts, session, recording, truth, hole>>
Tick ==
  /\ clock < menu.last /\ clock' = clock + 1
  /\ UNCHANGED <<files, commits, posts, tags, menu, steps, session, recording, truth, hole>>

Next ==
  \/ Tick \/ Lose \/ Resume
  \/ \E s \in Seats : Dequeue(s) \/ Finish(s)
  \/ \E s \in menu.seats \cup menu.targets : Start(s)
  \/ \E s \in menu.seats :
       \/ \E text \in menu.texts : Type(s, text)
       \/ \E kind \in menu.touches : Touch(s, kind)
       \/ \E kind \in menu.injects, text \in menu.texts : Inject(s, kind, text)
       \/ \E form \in {"bracket", "annotated", "dash"} : Post(s, form)
       \/ \E f \in {g \in DOMAIN Transcripts : Transcripts[g].seat = s} :
            \/ Commit(f) \/ Fail(f) \/ \E id \in 1..menu.steps : Answer(f, id)
  \/ \E s \in menu.targets, text \in menu.payloads :
       Deliver(s, text) \/ \E f \in menu.senders : Send(f, s, text)
  \/ \E b \in blocks(human_touches(Fleet)), cat \in {"DIRECTING", "WATCHING"} : Tag(b, cat)
Spec == Init /\ [][Next]_vars
----------------------------------------------------------------------------
(* Correctness. *)

Personal == {s \in Seats : Lane[s] = "personal"}
Whole == hole.from = 0
\* When the human act a happened: when it was typed, unless it sat in the
\* queue for longer than a correction may reach.
Moment(a) == IF a.read - a.at < MaxShift THEN a.at ELSE a.read
TrueMoments == {Moment(a) : a \in {b \in acts : b.seat \in Personal}}
Landed == ToSet(commits)

\* A commit made while the record was kept is never reported as unrecorded, be it
\* a subagent's, and one made in the hole, more than the tolerance from both its
\* ends, always is.
HolesAreFlagged ==
  LET flagged == unrecorded_commits(Landed, activity_trace(Fleet)) IN
  \A c \in Landed :
    /\ (c.kept /\ c.seat \in Personal) => c \notin flagged
    /\ (~c.kept /\ c.at - hole.from > RecordTol /\ (recording => hole.to - c.at > RecordTol))
         => c \in flagged

\* The tables of the silence report agree where they are computed in different ways: the gaps of section 3 understate the windows of section 2,
\* the exhibit of section 4 carries as many commits as the longest run of
\* section 5, the days add up to the shares, and the repository's own seat, once
\* it was touched, sees no less silence than the fleet (silence_windows.py:320-372).
TablesAgree ==
  LET r == silence_report(Fleet)
      touched(c) == \E t \in Times(human_touches({Repo})) : t <= c.at
  IN  /\ UNION {r.gaps[k] : k \in DOMAIN Buckets} = Landed \ r.unobserved
      /\ \A h \in THRESHOLDS_H :
           /\ UNION {r.gaps[k] : k \in {i \in DOMAIN Buckets : Buckets[i] >= h}} \subseteq r.inSilence[h]
           /\ {c \in r.inSilence[h] : touched(c)} \subseteq r.seatAlone[h]
      /\ r.windows # {} => exhibit(r.windows) = r.run
      /\ UNION {r.perDay[d] : d \in DOMAIN r.perDay} = r.inSilence[1]

\* INVARIANT. With a whole record and no text typed twice, the moments the
\* ledger counts as human presence are those of the human acts of the personal
\* seats, queued messages at the moment they were typed and nothing the harness
\* wrote.  So a commit counted inside a silence of h has h around it with no act
\* in it, and the longest run of commits without a human has none in it and is
\* the longest.  And a hole in the record is never taken for a silence, and the
\* tables made of all this agree with each other.
SilenceIsExact ==
  /\ HolesAreFlagged /\ TablesAgree
  /\ (Whole /\ menu.distinct) =>
    LET times == Times(human_touches(Fleet))
        start == corpus_start(Fleet)
        cs    == InOrder(observed(Landed, times, start))
        quiet(from, to) == \A t \in TrueMoments : ~(from < t /\ t <= to)
        run   == longest_run(cs, times)
    IN  /\ times = TrueMoments
        /\ \A h \in 1..menu.last : \A c \in inside_silence(Landed, times, start, h) :
             \E from \in 1..c.at : from + h <= clock /\ c.at <= from + h /\ quiet(from, from + h - 1)
        /\ cs # <<>> =>
             /\ quiet(cs[run.first].at, cs[run.first + run.count - 1].at)
             /\ \A i, j \in DOMAIN cs :
                  (i <= j /\ quiet(cs[i].at, cs[j].at)) => j - i + 1 <= run.count

\* INVARIANT. The meter counts each request of a personal seat once, however
\* many records its answer takes, in the row of its seat and in that of the
\* main loop or the subagents; days add up to the total, and waves and the
\* unattributed to what the repository's seat asked for.
Asked(S) == MapThenSumSet(LAMBDA q : 10 * q.id, S)
MeterCountsRequestsOnce ==
  Whole =>
    LET r == token_report(Fleet)
        asked == {q \in requests : Transcripts[q.file].seat \in Personal}
        row(t, k) == IF k \in DOMAIN t THEN t[k] ELSE [requests |-> 0, output |-> 0]
        is(got, S) == got = [requests |-> Count(S), output |-> Asked(S)]
    IN  /\ \A s \in Seats : is(row(r.byProject, s), {q \in asked : Transcripts[q.file].seat = s})
        /\ \A sub \in BOOLEAN : is(row(r.byWhere, sub), {q \in asked : Transcripts[q.file].sub = sub})
        /\ TableSum(r.byDay) = Asked(asked)
        /\ TableSum(r.byWave) + TableSum(r.unattributed)
             = Asked({q \in asked : Transcripts[q.file].seat = Repo})

\* INVARIANT. A tag once given to a block of human time keeps one block, and
\* only one, though a message dequeued later starts that block earlier or joins
\* it to another; no block that was called WATCHING, whole or in part, is in the
\* claim, and the floor for single touches makes no time that did not pass.
TagsKept ==
  menu.distinct =>
    LET r == human_report(Fleet) IN
    /\ r.orphaned = {}
    /\ \A tag \in tags : Cardinality({b \in r.blocks : tagged(tag, b)}) = 1
    /\ \A b \in r.claimed : \A tag \in tags : tagged(tag, b) => tag.cat # "WATCHING"
    /\ r.claim <= r.total /\ r.total <= clock - 1 + Floor

\* ACTION PROPERTY. The commit a request is charged to does not move: work
\* that lands later never takes a request from work that landed before.
ChargesStay ==
  [][\A at \in Answers(Fleet) : \A i \in charged(at, git_commits) :
       \E j \in charged(at, git_commits)' : git_commits'[j].at = git_commits[i].at]_vars

\* INVARIANT. What nudge_detect reports was typed by a machine, as long as what
\* people type quotes a sent text in the sending session alone: a session's own
\* words in its own prompt are not a nudge.
NudgesAreAFloor == nudge_report(Fleet).machine \subseteq nudged

\* INVARIANT. Of the seats seen lately, the stalled are those that have written
\* nothing to their transcript in the quiet hours, and the silent those that
\* have but have not posted to the bus, in any form of a post: the report is
\* all clear if and only if each of them has done both.  The largest gap of the
\* day, by which the threshold is judged, exceeds it if and only if someone has
\* come back to the bus after quiet hours since the first post of the day.
VerdictsAreTrue ==
  LET r == hygiene_report
      recent(t) == clock - t <= QuietHours
      wrote(s) == \E at \in Recs(session_files({s})) : recent(Rec(at).at)
      posted(s) == \E p \in posts : p.seat = s /\ recent(p.at)
      today == {p \in posts : day_local(p.at) = day_local(clock)}
      back(p) == /\ \E q \in today : q.seat = p.seat /\ q.at < p.at
                 /\ \A q \in today : q.seat = p.seat /\ q.at < p.at => p.at - q.at > QuietHours
  IN  Whole =>
        /\ \A s \in r.rows : /\ s \in r.stalled <=> ~wrote(s)
                             /\ s \in r.silent <=> wrote(s) /\ ~posted(s)
        /\ all_clear(r) => \A s \in Personal : wrote(s) => posted(s)
        /\ r.largest > QuietHours <=> \E p \in today : back(p)
============================================================================
