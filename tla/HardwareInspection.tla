------------------------- MODULE HardwareInspection -------------------------
(***************************************************************************)
(* A page of the hardware tools and the readers behind it.  Each refresh   *)
(* is either a worker process of its own or, in an application started as  *)
(* administrator, a fresh InspectorAccess: a thread that asks a native     *)
(* helper one fixed query after the other over a socket.  The page polls   *)
(* the thread's status; it drops a reader it has cancelled, which then     *)
(* goes on until it notices.                                               *)
(*                                                                         *)
(* A reading is the sequence of its answers: the number of the query the   *)
(* helper answered, 0 for what the reader got by itself or, its budget     *)
(* spent, left out.                                                        *)
(***************************************************************************)
EXTENDS Naturals, Sequences

CONSTANTS
  Queries,     \* queries of one snapshot
  MaxRequests  \* bound: refreshes

\* Of the constants.
InspectionAssumption == Queries \in Nat \ {0} /\ MaxRequests \in Nat \ {0}

Requests == 1..MaxRequests

VARIABLES
  asked,    \* history: refreshes so far
  access,   \* the page's InspectorAccess, by its request, 0 for none
  process,  \* the page's worker process
  snapshot, \* what the page shows: request and answers, request 0 for nothing
  status,   \* status_key
  reason,   \* stop_reason
  deadline, \* is the page's deadline timer running
  closing,  \* window.closing
  session   \* each request's InspectorAccess, its thread, helper and socket

page == <<asked, access, process, snapshot, status, reason, deadline, closing>>
vars == <<page, session>>

Nothing == [request |-> 0, answers |-> <<>>]
Idle == [pc |-> "none", status |-> "idle", stop |-> FALSE, open |-> FALSE, answers |-> <<>>,
         ready |-> FALSE, query |-> 0, replies |-> <<>>]

Init ==
  /\ asked = 0 /\ access = 0 /\ process = "off" /\ snapshot = Nothing
  /\ status = "not_read" /\ reason = "" /\ deadline = FALSE /\ closing = FALSE
  /\ session = [r \in Requests |-> Idle]

-----------------------------------------------------------------------------
(* The page, desktop_hardware.py.                                          *)

\* self.access is not None or self.process.state() != NotRunning
NotBusy == access = 0 /\ process = "off"

\* Mutant: what was shown stays until the new reading is there.
KeepShown == snapshot

\* A failed refresh must not present an old reading as current.
ClearShown == Nothing

Refresh ==
  /\ NotBusy /\ ~closing /\ asked < MaxRequests
  /\ asked' = asked + 1 /\ snapshot' = ClearShown
  /\ status' = "reading" /\ reason' = "" /\ deadline' = TRUE    \* of 55 or 35 seconds
  /\ \/ \* in this process, through the privileged helper
        /\ access' = asked + 1 /\ UNCHANGED process
        /\ session' = [session EXCEPT ![asked + 1].pc = "start", ![asked + 1].status = "starting"]
     \/ process' = "starting" /\ UNCHANGED <<access, session>>
  /\ UNCHANGED closing

\* InspectorAccess.close
CloseAccess(r) == [session EXCEPT ![r].stop = TRUE, ![r].open = FALSE, ![r].status = "cancelled"]

Cancel(why) ==
  /\ reason' = why /\ status' = why /\ deadline' = FALSE
  /\ access' = 0
  /\ session' = IF access = 0 THEN session ELSE CloseAccess(access)
  /\ process' = IF process = "off" THEN "off" ELSE "killed"
  /\ UNCHANGED <<asked, snapshot>>

CancelButton == ~NotBusy /\ Cancel("interrupted") /\ UNCHANGED closing
Deadline == deadline /\ Cancel("timeout") /\ UNCHANGED closing
\* The worker writes more than MAX_OUTPUT.
Overflow == process = "running" /\ Cancel("hardware_read_failed") /\ UNCHANGED closing
\* closeEvent: shutdown of the page
CloseWindow == ~closing /\ status = "reading" /\ closing' = TRUE /\ Cancel("interrupted")

\* finished: the reading is taken over if it has the right shape.
Finished(answers, whole) ==
  /\ deadline' = FALSE
  /\ IF reason = "" /\ whole
     THEN snapshot' = [request |-> asked, answers |-> answers] /\ status' = "snapshot"
     ELSE /\ status' = IF reason = "" THEN "hardware_read_failed" ELSE reason
          /\ UNCHANGED snapshot
  /\ UNCHANGED <<asked, reason, closing>>

Ended(r) == session[r].status \notin {"starting", "reading"}

PollAccess ==
  /\ access # 0 /\ Ended(access)
  /\ LET s == session[access]
     IN  IF s.status = "ready" /\ s.ready
         THEN \E whole \in BOOLEAN : Finished(s.answers, whole)
         ELSE /\ status' = IF s.status = "timeout" THEN "timeout" ELSE "hardware_read_failed"
              /\ deadline' = FALSE /\ UNCHANGED <<asked, snapshot, reason, closing>>
  /\ session' = CloseAccess(access) /\ access' = 0
  /\ UNCHANGED process

\* FailedToStart emits no finished.
ProcessStarts ==
  /\ process = "starting"
  /\ \/ process' = "running" /\ UNCHANGED <<status, deadline>>
     \/ process' = "off" /\ status' = "hardware_read_failed" /\ deadline' = FALSE
  /\ UNCHANGED <<asked, access, snapshot, reason, closing, session>>

\* Its own tools answer, fail or run out of time.
ProcessEnds ==
  /\ process = "running" /\ process' = "off"
  /\ \E whole \in BOOLEAN : Finished([q \in 1..Queries |-> 0], whole)
  /\ UNCHANGED <<access, session>>

KilledProcessEnds ==
  /\ process = "killed" /\ process' = "off"
  /\ Finished(<<>>, FALSE)
  /\ UNCHANGED <<access, session>>

PageStep ==
  \/ Refresh \/ CancelButton \/ Deadline \/ Overflow \/ CloseWindow \/ PollAccess
  \/ ProcessStarts \/ ProcessEnds \/ KilledProcessEnds

-----------------------------------------------------------------------------
(* InspectorAccess._run, Reader.run and request: the thread of a request.  *)

Thread(r, s) == session' = [session EXCEPT ![r] = s] /\ UNCHANGED page

\* `if not self.stop.is_set(): self.status = ...`
Fail(s, why) ==
  [s EXCEPT !.pc = "cleanup", !.open = FALSE, !.status = IF s.stop THEN @ ELSE why]

Launch(r) ==
  LET s == session[r]
  IN  /\ s.pc = "start"
      /\ \/ Thread(r, [s EXCEPT !.pc = IF s.stop THEN "cleanup" ELSE "connecting"])
         \/ Thread(r, [s EXCEPT !.pc = "cleanup", !.status = "unavailable"])

\* A cancel after the last check of the loop is overwritten by "reading": the
\* page has dropped this reader by then.
Connect(r) ==
  LET s == session[r]
  IN  /\ s.pc = "connecting"
      /\ \/ Thread(r, [s EXCEPT !.pc = "collect", !.open = TRUE, !.status = "reading"])
         \/ s.stop /\ Thread(r, [s EXCEPT !.pc = "cleanup"])
         \/ Thread(r, [s EXCEPT !.pc = "cleanup", !.status = "error"])   \* the helper has ended
         \/ \E why \in {"error", "timeout"} : Thread(r, Fail(s, why))

Query(s) == Len(s.answers) + 1

\* A query no fixed operation covers, or one the budget has no time for.
WithoutHelper(r) ==
  LET s == session[r]
  IN  /\ s.pc = "collect" /\ Query(s) <= Queries
      /\ Thread(r, [s EXCEPT !.answers = Append(@, 0)])

Send(r) ==
  LET s == session[r]
  IN  /\ s.pc = "collect" /\ Query(s) <= Queries
      /\ Thread(r, IF s.stop THEN Fail(s, "cancelled")
                   ELSE IF ~s.open THEN Fail(s, "error")
                   ELSE [s EXCEPT !.pc = "waiting", !.query = Query(s)])

\* Whatever arrives next on the connection is the answer.
Receive(r) ==
  LET s == session[r]
  IN  /\ s.pc = "waiting" /\ s.replies # <<>>
      /\ Thread(r, IF s.stop THEN Fail(s, "cancelled")
                   ELSE [s EXCEPT !.pc = "collect", !.answers = Append(@, Head(s.replies)),
                                  !.replies = Tail(@)])

\* Mutant: a query that failed is left out and the next one asked.
CarryOn(s, why) == [s EXCEPT !.pc = "collect", !.answers = Append(@, 0)]

\* The connection is shut down and the failure is none collect would catch.
EndSession(s, why) == Fail(s, why)

\* The query's time is over, or the helper is lost or answers nonsense.
RequestFails(r) ==
  LET s == session[r]
  IN  /\ s.pc = "waiting"
      /\ \E why \in {"timeout", "error"} : Thread(r, EndSession(s, why))

\* self.snapshot, then self.status: a cancel may come between the two.
Store(r) ==
  LET s == session[r]
  IN  /\ s.pc = "collect" /\ Query(s) > Queries
      /\ Thread(r, IF s.stop THEN [s EXCEPT !.pc = "cleanup"]
                   ELSE [s EXCEPT !.pc = "stored", !.ready = TRUE])

Report(r) ==
  LET s == session[r]
  IN  /\ s.pc = "stored"
      /\ Thread(r, [s EXCEPT !.pc = "cleanup", !.status = "ready"])

\* The peer is closed, the helper reaped.
Cleanup(r) ==
  LET s == session[r]
  IN  /\ s.pc = "cleanup"
      /\ Thread(r, [s EXCEPT !.pc = "end", !.open = FALSE, !.query = 0, !.replies = <<>>])

\* External: the helper, one query at a time, in its own time.
Answer(r) ==
  LET s == session[r]
  IN  /\ s.query # 0
      /\ Thread(r, [s EXCEPT !.replies = Append(@, s.query), !.query = 0])

ThreadStep(r) ==
  \/ Launch(r) \/ Connect(r) \/ WithoutHelper(r) \/ Send(r) \/ Receive(r) \/ RequestFails(r)
  \/ Store(r) \/ Report(r) \/ Cleanup(r)

Next == PageStep \/ \E r \in Requests : ThreadStep(r) \/ Answer(r)

\* The page's timer fires.  Threads, processes and helpers may hang.
Spec == Init /\ [][Next]_vars /\ WF_vars(Deadline)

-----------------------------------------------------------------------------
Contract == INSTANCE PageContract WITH
  phase <- IF status = "reading" THEN "reading"
           ELSE IF snapshot.request # 0 THEN "shown" ELSE "empty",
  shown <- snapshot.request

(* The page keeps its contract: a reading shown is the answer to the last  *)
(* request, none is shown while one is asked for, and a cancelled request  *)
(* never shows one, whenever its thread or its process gets to know; and a *)
(* page that reads stops reading, even if process or helper hangs.         *)
PageKeepsContract == Contract!Spec

(* Every answer in a reading that is shown answers the query it stands     *)
(* for: no late reply is taken for the answer to a later query.            *)
ReplyMatchesQuery ==
  \A q \in DOMAIN snapshot.answers : snapshot.answers[q] \in {0, q}
=============================================================================
