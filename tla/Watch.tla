---- MODULE Watch ----
(* Watching a hosted video and the progress that is confirmed for it: the       *)
(* player of a browser tab observes its media element and reports in order,     *)
(* the API turns two observations that follow each other into a watched          *)
(* interval, and the progress of the purchase is the length of the union of its   *)
(* intervals (video/progress.ts, video/service.ts, src/utils/videoHeartbeat.js,   *)
(* src/components/CourseVideoPlayer.jsx).  One purchase; several sessions: two    *)
(* tabs, or one tab whose authorisation was renewed.  Time and positions are      *)
(* counted in ticks, and media plays one tick of video per tick of time.          *)
EXTENDS Integers, FiniteSets, Sequences

CONSTANTS
  PlaySessions,  \* course_video_progress_sessions rows
  Duration,      \* length of the video
  MaxGap,        \* VIDEO_HEARTBEAT_MAX_GAP_SECONDS
  MaxAge,        \* age from which an observation is not sent any more
  SeekTargets,   \* positions that seeks go to
  MaxReports,    \* bound on the observations of all sessions
  MaxPlayers,    \* bound on the players open at a time
  MaxTail,       \* bound on the observations that wait to be sent
  MaxWatchClock  \* bound on time

ASSUME WatchAssumption ==
  /\ {Duration, MaxGap, MaxAge, MaxReports, MaxPlayers, MaxTail, MaxWatchClock} \subseteq Nat \ {0}
  /\ SeekTargets \subseteq 0..Duration

VARIABLES
  watchClock,
  player,     \* the media element of each session and its reporter's sequence
  tail,       \* observations that wait to be sent
  awaited,    \* sequence number of the one whose answer is awaited, or 0
  heartbeats, \* observations on their way to the API
  baseline,   \* the session's last observation that the API has stored
  authorised, \* sessions whose playback authorisation holds
  intervals,  \* course_video_watch_intervals: session, start, end
  progress,   \* course_access_progress.watched_seconds
  seen,       \* history: the ticks of video each session has really played
  lossless    \* history: sessions whose observations all arrived in order

watchVars == <<watchClock, player, tail, awaited, heartbeats, baseline, authorised, 
               intervals, progress, seen, lossless>>

-----------------------------------------------------------------------------
NoMedia == [state |-> "none", playing |-> FALSE, pos |-> 0, seq |-> 0]
NoBaseline == [seq |-> 0, event |-> "none", pos |-> 0, at |-> 0, received |-> 0]
Ticks(i) == i.from..(i.to - 1)

(* mergeIntervals: sorted by start and end; an interval that starts inside the  *)
(* last one of the merged list extends it, any other is appended.  Of the list,    *)
(* its last interval is kept and, as done, the seconds of those before it, which   *)
(* nothing changes any more.                                                       *)
Before(i, j) == i.from < j.from \/ (i.from = j.from /\ i.to <= j.to)
LastOf(T) == CHOOSE i \in T : \A j \in T : Before(j, i)

NoneMerged == [done |-> 0, from |-> 0, to |-> 0]
Merge(merged, isFirst, i) ==
  IF ~isFirst /\ i.from <= merged.to
  THEN [merged EXCEPT !.to = IF i.to > @ THEN i.to ELSE @]
  ELSE [done |-> merged.done + (merged.to - merged.from), from |-> i.from, to |-> i.to]

MergeIntervals(S) ==
  LET merged[T \in SUBSET S] ==
        IF T = {} THEN NoneMerged
        ELSE Merge(merged[T \ {LastOf(T)}], T = {LastOf(T)}, LastOf(T))
  IN  merged[S]

(* uniqueWatchedSeconds. *)
UniqueWatchedSeconds(S) ==
  LET merged == MergeIntervals(S) IN merged.done + (merged.to - merged.from)

(* intervalFromHeartbeat: what the observation h, received now, adds to prev.   *)
(* Forward distance counts up to the lesser of the client's and the server's     *)
(* elapsed time and a quarter.                                                   *)
Lesser(a, b) == IF a < b THEN a ELSE b

Follows(prev, h) == prev.event # "none" /\ h.seq > prev.seq

Contiguous(prev, h, received) ==
  /\ Follows(prev, h) /\ prev.event = "playing" /\ h.event # "seeking"
  /\ h.pos > prev.pos /\ h.at > prev.at
  /\ received > prev.received /\ received - prev.received <= MaxGap

OutOfBounds(prev, h, received) ==
  /\ Contiguous(prev, h, received)
  /\ 4 * (h.pos - prev.pos) > 5 * Lesser(h.at - prev.at, received - prev.received)

IntervalFromHeartbeat(prev, h, received) ==
  IF Contiguous(prev, h, received) THEN {[from |-> prev.pos, to |-> h.pos]} ELSE {}

WatchInit ==
  /\ watchClock = 0 /\ intervals = {} /\ progress = 0
  /\ player = [s \in PlaySessions |-> NoMedia] /\ tail = [s \in PlaySessions |-> <<>>]
  /\ awaited = [s \in PlaySessions |-> 0] /\ heartbeats = {}
  /\ baseline = [s \in PlaySessions |-> NoBaseline] /\ authorised = {}
  /\ seen = [s \in PlaySessions |-> {}] /\ lossless = PlaySessions

-----------------------------------------------------------------------------
(* The reporter: an observation is numbered and stamped when it is made. *)
Observed(s, event, media) ==
  [session |-> s, seq |-> player[s].seq + 1, event |-> event, pos |-> media.pos, at |-> watchClock]

MayReport(s) ==
  /\ Cardinality({o \in PlaySessions \X (1..MaxReports) : o[2] <= player[o[1]].seq}) < MaxReports
  /\ Len(tail[s]) < MaxTail

Report(s, event, media) ==
  /\ player[s].state = "open" /\ MayReport(s)
  /\ player' = [player EXCEPT ![s] = [media EXCEPT !.seq = @ + 1]]
  /\ tail' = [tail EXCEPT ![s] = Append(@, Observed(s, event, media))]

(* createPlaybackSession.  A session resumes at the end of the furthest          *)
(* interval, or where the player was whose authorisation it renews.               *)
ResumeAt == IF intervals = {} THEN 0 ELSE CHOOSE p \in {i.to : i \in intervals} :
                                            \A i \in intervals : i.to <= p

CreatePlaybackSession(s) ==
  /\ player[s].state = "none"
  /\ Cardinality({t \in PlaySessions : player[t].state = "open"}) < MaxPlayers
  /\ \E p \in {ResumeAt} \cup {player[t].pos : t \in {u \in PlaySessions : player[u].state = "closed"}} :
       player' = [player EXCEPT ![s] = [NoMedia EXCEPT !.state = "open", !.pos = p]]
  /\ authorised' = authorised \cup {s}
  /\ UNCHANGED <<watchClock, tail, awaited, heartbeats, baseline, intervals, progress, seen, lossless>>

(* detach: the player leaves its session, to renew it or for good; the reporter  *)
(* reports a pause and closes, but still sends what it has.                      *)
Detach(s) ==
  /\ Report(s, "pause", [player[s] EXCEPT !.state = "closed", !.playing = FALSE])
  /\ UNCHANGED <<watchClock, awaited, heartbeats, baseline, authorised, intervals, progress, seen, lossless>>

(* The media element's events, and the report of every seven seconds.  A stall  *)
(* and a change of rate report a pause and then playing.                         *)
Play(s) ==
  /\ player[s].pos < Duration
  /\ Report(s, "playing", [player[s] EXCEPT !.playing = TRUE])
  /\ UNCHANGED <<watchClock, awaited, heartbeats, baseline, authorised, intervals, progress, seen, lossless>>

Pause(s) ==
  /\ player[s].playing
  /\ Report(s, "pause", [player[s] EXCEPT !.playing = FALSE])
  /\ UNCHANGED <<watchClock, awaited, heartbeats, baseline, authorised, intervals, progress, seen, lossless>>

(* A seek is reported with its new position.  The report of its end, like the     *)
(* sync button's of a media that does not play, has the effect of a pause.         *)
Seek(s, p) ==
  /\ p # player[s].pos
  /\ Report(s, "seeking", [player[s] EXCEPT !.pos = p, !.playing = FALSE])
  /\ UNCHANGED <<watchClock, awaited, heartbeats, baseline, authorised, intervals, progress, seen, lossless>>

(* Time: what is playing advances and is seen; the end is reported. *)
WatchTick ==
  /\ watchClock < MaxWatchClock
  /\ watchClock' = watchClock + 1
  /\ LET playing == {s \in PlaySessions : player[s].playing}
         ending == {s \in playing : player[s].pos + 1 = Duration} IN
     /\ \A s \in ending : MayReport(s) /\ Cardinality(ending) = 1
     /\ player' = [s \in PlaySessions |->
          IF s \in playing
          THEN [player[s] EXCEPT !.pos = @ + 1, !.playing = s \notin ending,
                                 !.seq = IF s \in ending THEN @ + 1 ELSE @]
          ELSE player[s]]
     /\ tail' = [s \in PlaySessions |->
          IF s \in ending
          THEN Append(tail[s], [session |-> s, seq |-> player[s].seq + 1, event |-> "ended",
                                pos |-> Duration, at |-> watchClock + 1])
          ELSE tail[s]]
     /\ seen' = [s \in PlaySessions |-> IF s \in playing \cap lossless THEN seen[s] \cup {player[s].pos} ELSE seen[s]]
  /\ UNCHANGED <<awaited, heartbeats, baseline, authorised, intervals, progress, lossless>>

(* The history of a session that an observation of is lost or late is dropped. *)
Lose(s) ==
  /\ lossless' = lossless \ {s}
  /\ seen' = [seen EXCEPT ![s] = {}]

(* The tail of promises: one observation is sent at a time, and one that has    *)
(* become too old is discarded.                                                 *)
SendHeartbeat(s) ==
  /\ awaited[s] = 0 /\ tail[s] # <<>>
  /\ tail' = [tail EXCEPT ![s] = Tail(@)]
  /\ IF watchClock - Head(tail[s]).at > MaxAge
     THEN Lose(s) /\ UNCHANGED <<awaited, heartbeats>>
     ELSE /\ heartbeats' = heartbeats \cup {Head(tail[s])}
          /\ awaited' = [awaited EXCEPT ![s] = Head(tail[s]).seq]
          /\ UNCHANGED <<seen, lossless>>
  /\ UNCHANGED <<watchClock, player, baseline, authorised, intervals, progress>>

(* The request times out at the client, or its connection breaks: what is still *)
(* on its way may arrive later, behind the next one, or never.                   *)
GiveUpHeartbeat(s) ==
  /\ awaited[s] # 0
  /\ awaited' = [awaited EXCEPT ![s] = 0]
  /\ LET late == {h \in heartbeats : h.session = s /\ h.seq = awaited[s]} IN
     \E gone \in {{}, late} : heartbeats' = heartbeats \ gone
  /\ Lose(s)
  /\ UNCHANGED <<watchClock, player, tail, baseline, authorised, intervals, progress>>

(* Mutant: only an observation that plays moves the baseline. *)
StorePlaying(prev, h) ==
  IF h.seq > prev.seq /\ h.event \in {"playing", "pause"}
  THEN [seq |-> h.seq, event |-> h.event, pos |-> h.pos, at |-> h.at, received |-> watchClock]
  ELSE prev

StoreObservation(prev, h) ==
  IF h.seq > prev.seq
  THEN [seq |-> h.seq, event |-> h.event, pos |-> h.pos, at |-> h.at, received |-> watchClock]
  ELSE prev

(* recordVideoProgress, under the locks of the item and the session.  Without a   *)
(* valid authorisation it changes nothing (the update that marks the session        *)
(* expired is rolled back with the error) and the player leaves the session; an     *)
(* observation that is out of bounds changes nothing either, and the player goes     *)
(* on.  An answer that is lost changes nothing that the API holds.                    *)
RecordVideoProgress(h) ==
  LET s == h.session
      added == {[session |-> s, from |-> i.from, to |-> i.to] :
                  i \in IntervalFromHeartbeat(baseline[s], h, watchClock)} IN
  /\ h \in heartbeats
  /\ heartbeats' = heartbeats \ {h}
  /\ IF s \in authorised /\ ~OutOfBounds(baseline[s], h, watchClock)
     THEN /\ intervals' = intervals \cup added
          /\ progress' = UniqueWatchedSeconds(intervals \cup added)
          /\ baseline' = [baseline EXCEPT ![s] = StoreObservation(@, h)]
          /\ UNCHANGED player
     ELSE /\ player' = IF s \in authorised THEN player
                       ELSE [player EXCEPT ![s].state = "closed", ![s].playing = FALSE]
          /\ UNCHANGED <<intervals, progress, baseline>>
  /\ awaited' = [awaited EXCEPT ![s] = IF @ = h.seq THEN 0 ELSE @]
  /\ UNCHANGED <<watchClock, tail, authorised, seen, lossless>>

(* The authorisation of a session expires, or the purchase loses its access,     *)
(* which takes all of them and lets no other begin.                              *)
ExpirePlayback(s) ==
  /\ s \in authorised
  /\ authorised' = authorised \ {s}
  /\ UNCHANGED <<watchClock, player, tail, awaited, heartbeats, baseline, intervals, progress, seen, lossless>>

WithdrawAccess ==
  /\ authorised # {}
  /\ authorised' = {}
  /\ player' = [s \in PlaySessions |-> IF player[s].state = "none"
                                      THEN [player[s] EXCEPT !.state = "closed"] ELSE player[s]]
  /\ UNCHANGED <<watchClock, tail, awaited, heartbeats, baseline, intervals, progress, seen, lossless>>

WatchNext ==
  \/ \E s \in PlaySessions :
       \/ CreatePlaybackSession(s) \/ Play(s) \/ Pause(s)
       \/ \E p \in SeekTargets : Seek(s, p)
       \/ Detach(s) \/ SendHeartbeat(s) \/ GiveUpHeartbeat(s) \/ ExpirePlayback(s)
  \/ \E h \in heartbeats : RecordVideoProgress(h)
  \/ WatchTick \/ WithdrawAccess

WatchSpec == WatchInit /\ [][WatchNext]_watchVars

-----------------------------------------------------------------------------
WatchTypeOK ==
  /\ watchClock \in 0..MaxWatchClock /\ progress \in 0..Duration
  /\ player \in [PlaySessions -> [state : {"none", "open", "closed"}, playing : BOOLEAN,
                                  pos : 0..Duration, seq : Nat]]
  /\ intervals \subseteq [session : PlaySessions, from : 0..Duration, to : 0..Duration]
  /\ authorised \subseteq PlaySessions /\ lossless \subseteq PlaySessions

(* What is confirmed as watched was played: whatever is paused, sought, stalled,  *)
(* renewed or sent late, an interval of a session whose observations all came      *)
(* through in order holds only ticks that this session has played                  *)
(* (progress.ts:17-45, videoHeartbeat.js:5-20).  When a report of a seek is lost,  *)
(* the jump may count up to a quarter more than the elapsed time.  What two tabs    *)
(* have both played counts once (progress.ts:47-65).                                *)
CreditedWasSeen ==
  /\ \A i \in intervals : i.session \in lossless => Ticks(i) \subseteq seen[i.session]
  /\ lossless = PlaySessions =>
       progress <= Cardinality(UNION {seen[s] : s \in PlaySessions})
====
