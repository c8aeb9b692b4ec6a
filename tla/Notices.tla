---- MODULE Notices ----
(* How a refund decision reaches the member: the transaction of the decision     *)
(* stores a notification and signals the member's id, each API process keeps one   *)
(* LISTEN connection that wakes the requests that wait for it, and the page polls,  *)
(* shows one notice at a time and confirms it (refunds/notifications.ts,            *)
(* refunds/notification-events.ts, src/components/RefundDecisionNotice.jsx).        *)
(* One member, one API process, one page; connections and requests may fail.       *)
EXTENDS Integers, FiniteSets

CONSTANTS
  Decisions,  \* refund requests of the member that are decided
  Polls       \* requests of the page in progress at a time

ASSUME NoticeAssumption == "none" \notin Decisions \cup Polls

VARIABLES
  notification,  \* state of each decision's notification: none, unread, read
  connection,    \* the LISTEN connection: none, starting, listening
  signals,       \* notifications on their way to this process
  poll,          \* the page's requests at the API
  page,          \* current: the request whose answer counts; timer; notice shown
  dismissed      \* history: notices that the page has seen confirmed

noticeVars == <<notification, connection, signals, poll, page, dismissed>>

-----------------------------------------------------------------------------
NoPoll == "none"
NoNotice == "none"
Free == [at |-> "free", wait |-> FALSE, listening |-> FALSE, woken |-> FALSE, found |-> {}]
Unread == {d \in Decisions : notification[d] = "unread"}

NoticeInit ==
  /\ notification = [d \in Decisions |-> "none"]
  /\ connection = "none" /\ signals = {}
  /\ poll = [q \in Polls |-> Free]
  /\ page = [current |-> NoPoll, timer |-> "now", notice |-> NoNotice, saving |-> FALSE]
  /\ dismissed = {}

Subscribed(q) == poll[q].at \in {"starting", "read", "waiting", "reread"} /\ poll[q].wait
WakeAll == [q \in Polls |-> [poll[q] EXCEPT !.woken = @ \/ Subscribed(q)]]

(* recordRefundNotification, with the decision's transaction: PostgreSQL         *)
(* delivers the signal after the commit to the connections that listen by then.   *)
DecideRefund(d) ==
  /\ notification[d] = "none"
  /\ notification' = [notification EXCEPT ![d] = "unread"]
  /\ signals' = IF connection = "listening" THEN signals \cup {d} ELSE signals
  /\ UNCHANGED <<connection, poll, page, dismissed>>

(* A signal arrives: every subscriber of the member is called. *)
ReceiveSignal(d) ==
  /\ d \in signals
  /\ signals' = signals \ {d}
  /\ poll' = WakeAll
  /\ UNCHANGED <<notification, connection, page, dismissed>>

(* start: the requests that wait for the connection learn whether it listens; a  *)
(* failure is a disconnect as well.                                              *)
Listen(listens) ==
  /\ connection = "starting"
  /\ connection' = IF listens THEN "listening" ELSE "none"
  /\ poll' = [q \in Polls |->
       IF poll[q].at = "starting"
       THEN [poll[q] EXCEPT !.at = "read", !.listening = listens, !.woken = @ \/ ~listens]
       ELSE [poll[q] EXCEPT !.woken = @ \/ (Subscribed(q) /\ ~listens)]]
  /\ UNCHANGED <<notification, signals, page, dismissed>>

(* disconnect: what was on its way is lost, and everybody who waits is woken. *)
Disconnect ==
  /\ connection = "listening"
  /\ connection' = "none" /\ signals' = {}
  /\ poll' = WakeAll
  /\ UNCHANGED <<notification, page, dismissed>>

-----------------------------------------------------------------------------
(* poll: the first one, and one after a failure or a focus, answers at once; the *)
(* others wait.  listRefundNotifications subscribes, which starts a connection    *)
(* when there is none, before it reads.                                           *)
Subscribe(wait) ==
  IF ~wait THEN [Free EXCEPT !.at = "read"]
  ELSE [Free EXCEPT !.wait = TRUE, !.at = IF connection = "listening" THEN "read" ELSE "starting",
                    !.listening = connection = "listening"]

StartPoll(q) ==
  /\ poll[q].at = "free" /\ page.timer \in {"now", "next"}
  /\ poll' = [poll EXCEPT ![q] = Subscribe(page.timer = "next")]
  /\ connection' = IF page.timer = "next" /\ connection = "none" THEN "starting" ELSE connection
  /\ page' = [page EXCEPT !.current = q, !.timer = "none"]
  /\ UNCHANGED <<notification, signals, dismissed>>

ReadUnread(q) ==
  /\ poll[q].at = "read"
  /\ poll' = [poll EXCEPT ![q].at = IF Unread = {} /\ poll[q].wait THEN "waiting" ELSE "answer",
                          ![q].found = Unread]
  /\ UNCHANGED <<notification, connection, signals, page, dismissed>>

(* The race of the wake-up, which counts while the connection listened, and the *)
(* timer of twenty seconds or one.                                               *)
Wake(q) ==
  /\ poll[q].at = "waiting" /\ poll[q].listening /\ poll[q].woken
  /\ poll' = [poll EXCEPT ![q].at = "reread"]
  /\ UNCHANGED <<notification, connection, signals, page, dismissed>>

WaitEnds(q) ==
  /\ poll[q].at = "waiting"
  /\ poll' = [poll EXCEPT ![q].at = "reread"]
  /\ UNCHANGED <<notification, connection, signals, page, dismissed>>

ReadAgain(q) ==
  /\ poll[q].at = "reread"
  /\ poll' = [poll EXCEPT ![q].at = "answer", ![q].found = Unread]
  /\ UNCHANGED <<notification, connection, signals, page, dismissed>>

(* The page takes the answer of its current poll only: it shows the first        *)
(* notice and stops, or polls again, waiting, after 250 ms.                       *)
ReceiveAnswer(q) ==
  /\ poll[q].at = "answer"
  /\ poll' = [poll EXCEPT ![q] = Free]
  /\ page' = IF page.current # q THEN page
             ELSE IF poll[q].found # {}
             THEN [page EXCEPT !.current = NoPoll, !.notice = CHOOSE d \in poll[q].found : TRUE]
             ELSE [page EXCEPT !.current = NoPoll, !.timer = "next"]
  /\ UNCHANGED <<notification, connection, signals, dismissed>>

(* Mutant: a failure ends the polling. *)
LosePollForGood(q) ==
  /\ poll[q].at # "free"
  /\ poll' = [poll EXCEPT ![q] = Free]
  /\ page' = IF page.current = q THEN [page EXCEPT !.current = NoPoll] ELSE page
  /\ UNCHANGED <<notification, connection, signals, dismissed>>

(* A request fails, or the API notices that the page is gone; the page polls      *)
(* again after a growing delay, without waiting.                                  *)
LosePoll(q) ==
  /\ poll[q].at # "free"
  /\ poll' = [poll EXCEPT ![q] = Free]
  /\ page' = IF page.current = q THEN [page EXCEPT !.current = NoPoll, !.timer = "now"] ELSE page
  /\ UNCHANGED <<notification, connection, signals, dismissed>>

(* resume: focus, online or visible again, unless a notice is shown.  The poll     *)
(* in progress is aborted, which the API may notice late.                         *)
Resume ==
  /\ page.notice = NoNotice /\ page.current # NoPoll
  /\ page' = [page EXCEPT !.current = NoPoll, !.timer = "now"]
  /\ UNCHANGED <<notification, connection, signals, poll, dismissed>>

(* dismiss: acknowledgeRefundNotification, at most one at a time; its answer      *)
(* closes the notice and starts to poll anew.                                     *)
Dismiss ==
  /\ page.notice # NoNotice /\ ~page.saving
  /\ page' = [page EXCEPT !.saving = TRUE]
  /\ notification' \in {notification, [notification EXCEPT ![page.notice] = "read"]}
  /\ UNCHANGED <<connection, signals, poll, dismissed>>

ConfirmDismissal ==
  /\ page.saving
  /\ \/ /\ notification[page.notice] = "read"
        /\ dismissed' = dismissed \cup {page.notice}
        /\ page' = [current |-> NoPoll, timer |-> "now", notice |-> NoNotice, saving |-> FALSE]
     \/ page' = [page EXCEPT !.saving = FALSE] /\ UNCHANGED dismissed
  /\ UNCHANGED <<notification, connection, signals, poll>>

NoticeNext ==
  \/ \E d \in Decisions : DecideRefund(d) \/ ReceiveSignal(d)
  \/ \E listens \in BOOLEAN : Listen(listens)
  \/ Disconnect \/ Resume \/ Dismiss \/ ConfirmDismissal
  \/ \E q \in Polls :
       \/ StartPoll(q) \/ ReadUnread(q) \/ Wake(q) \/ WaitEnds(q) \/ ReadAgain(q)
       \/ ReceiveAnswer(q) \/ LosePoll(q)

NoticeSpec == NoticeInit /\ [][NoticeNext]_noticeVars

-----------------------------------------------------------------------------
(* Fairness: a connection attempt ends, timers fire.  Requests and answers may be  *)
(* lost again and again, but not all of them, and the page is not resumed before    *)
(* every single answer.                                                            *)
NoticeFairness ==
  /\ WF_noticeVars(\E listens \in BOOLEAN : Listen(listens))
  /\ \A q \in Polls :
       /\ WF_noticeVars(WaitEnds(q) \/ ReadAgain(q))
       /\ SF_noticeVars(ReadUnread(q) /\ page.current = q)
       /\ WF_noticeVars(LosePoll(q) \/ ReceiveAnswer(q))
       /\ SF_noticeVars(ReceiveAnswer(q) /\ page.current = q)
  /\ WF_noticeVars(\E q \in Polls : StartPoll(q))

FairNoticeSpec == NoticeSpec /\ NoticeFairness

NoticeTypeOK ==
  /\ notification \in [Decisions -> {"none", "unread", "read"}]
  /\ connection \in {"none", "starting", "listening"} /\ signals \subseteq Decisions
  /\ poll \in [Polls -> [at : {"free", "starting", "read", "waiting", "reread", "answer"},
                         wait : BOOLEAN, listening : BOOLEAN, woken : BOOLEAN,
                         found : SUBSET Decisions]]
  /\ page \in [current : Polls \cup {NoPoll}, timer : {"none", "now", "next"},
               notice : Decisions \cup {NoNotice}, saving : BOOLEAN]
  /\ dismissed \subseteq Decisions

(* A decision that commits between the read and the wait of a request, or while  *)
(* its connection is lost, does not leave it waiting out its twenty seconds: the   *)
(* request is woken, or a signal is on its way (notifications.ts:47-66,            *)
(* notification-events.ts:21-52).                                                  *)
NoLostWakeUp ==
  \A q \in Polls :
    poll[q].at = "waiting" /\ poll[q].listening /\ Unread # {} => poll[q].woken \/ signals # {}

(* A notice whose confirmation the page has seen is not shown again, although    *)
(* older polls may still be answered (RefundDecisionNotice.jsx:24-37).            *)
DismissedStaysGone == page.notice \notin dismissed

(* A waiting request learns of what it waits for, and the page shows nothing that *)
(* is over (notifications.ts:47-66, RefundDecisionNotice.jsx:24-37).             *)
NoticesKeepUp == NoLostWakeUp /\ DismissedStaysGone

(* Every decision comes to be shown or read, whatever fails on the way, without   *)
(* the member reloading the page (RefundDecisionNotice.jsx:20-49).                *)
DecisionReachesMember == Unread # {} ~> (page.notice # NoNotice \/ Unread = {})

(* Both: nothing a request waits for is missed on the way, and all of it arrives  *)
(* (notifications.ts:47-66, RefundDecisionNotice.jsx:20-49).                     *)
NoticesArrive == []NoticesKeepUp /\ DecisionReachesMember
====
