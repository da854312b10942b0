---------------------- MODULE HardwareInspectionProofs ----------------------
(***************************************************************************)
(* A hardware page for any number of refreshes and queries.  Two things    *)
(* are shown: the page implements the safety of PageContract, whatever the *)
(* readers it has dropped still do; and no answer is taken for the answer  *)
(* to another query, because a session ends with the first query that      *)
(* fails.                                                                  *)
(***************************************************************************)
EXTENDS HardwareInspection, SequenceTheorems, TLAPS

-----------------------------------------------------------------------------
(* The page.                                                               *)

Reasons == {"interrupted", "timeout", "hardware_read_failed"}

\* A page is reading exactly as long as it waits for a reader; until the answer
\* it shows nothing, and it has one reader at a time.
Page ==
  /\ asked \in 0..MaxRequests /\ access \in 0..asked /\ snapshot.request \in 0..asked
  /\ process \in {"off", "starting", "running", "killed"} /\ reason \in Reasons \cup {""}
  /\ status = "reading" <=> access # 0 \/ process \in {"starting", "running"}
  /\ status = "reading" => asked # 0 /\ reason = "" /\ snapshot.request = 0
  /\ access # 0 => process = "off"
  /\ deadline => status = "reading"

-----------------------------------------------------------------------------
(* The readers.                                                            *)

SessionType ==
  [pc : {"none", "start", "connecting", "collect", "waiting", "stored", "cleanup", "end"},
   status : {"idle", "starting", "unavailable", "cancelled", "reading", "error", "timeout", "ready"},
   stop : BOOLEAN, open : BOOLEAN, answers : Seq(Nat), ready : BOOLEAN, query : Nat, replies : Seq(Nat)]

\* A reader's answers are to the queries they stand for, and while it can still
\* read one, no other answer than the one it waits for is on its way.
Fits(answers) == \A q \in 1..Len(answers) : answers[q] \in {0, q}

InStep(s) ==
  /\ Fits(s.answers)
  /\ s.pc \notin {"waiting", "cleanup", "end"} => s.query = 0 /\ s.replies = <<>>
  /\ s.pc = "waiting" =>
       \/ s.query = Query(s) /\ s.replies = <<>>
       \/ s.query = 0 /\ s.replies = <<Query(s)>>

Readers ==
  /\ session \in [Requests -> SessionType] /\ \A r \in Requests : InStep(session[r])
  /\ \A r \in Requests : r > asked => session[r].pc = "none"
  /\ snapshot.answers \in Seq(Nat) /\ Fits(snapshot.answers)

IInv == Page /\ Readers

LEMMA InitIInv ==
  ASSUME InspectionAssumption, Init
  PROVE  IInv
<1>1. Page
  <2>1. MaxRequests \in Nat /\ snapshot.request = 0
    BY DEF InspectionAssumption, Init, Nothing
  <2>5. asked = 0 /\ access = 0 
    BY DEF Init
  <2>2. process = "off" /\ status = "not_read" /\ reason = "" /\ ~deadline
    BY DEF Init
  <2>3. asked \in 0..MaxRequests
    BY <2>1, <2>5
  <2>4. access \in 0..asked /\ snapshot.request \in 0..asked
    BY <2>1, <2>5
  <2>. QED
    BY <2>1, <2>5, <2>2, <2>3, <2>4 DEF Page
<1>2. Idle \in SessionType /\ Idle.pc = "none" /\ Idle.query = 0 /\ Idle.replies = <<>> /\ Fits(Idle.answers)
  BY EmptySeq DEF Idle, SessionType, Fits
<1>3. session = [r \in Requests |-> Idle] /\ snapshot.answers = <<>>
  BY DEF Init, Nothing
<1>4. Readers
  BY <1>2, <1>3, EmptySeq DEF Readers, InStep, Fits
<1>. QED
  BY <1>1, <1>4 DEF IInv

-----------------------------------------------------------------------------
(* A thread.                                                               *)

LEMMA ThreadKeeps ==
  ASSUME IInv, NEW r \in Requests, session[r].pc # "none", NEW s \in SessionType, InStep(s), Thread(r, s)
  PROVE  IInv'
<1>1. UNCHANGED <<asked, access, process, snapshot, status, reason, deadline, closing>>
  BY DEF Thread, page
<1>2. session' = [session EXCEPT ![r] = s]
  BY DEF Thread
<1>3. session' \in [Requests -> SessionType] /\ \A q \in Requests : session'[q] = IF q = r THEN s ELSE session[q]
  BY <1>2 DEF IInv, Readers
<1>4. Readers'
  <2>1. \A q \in Requests : InStep(session'[q])
    BY <1>3 DEF IInv, Readers
  <2>2. snapshot'.answers \in Seq(Nat) /\ Fits(snapshot'.answers)
    BY <1>1 DEF IInv, Readers
  <2>3. \A q \in Requests : q > asked' => session'[q].pc = "none"
    BY <1>1, <1>3 DEF IInv, Readers
  <2>. QED
    BY <1>3, <2>1, <2>2, <2>3 DEF Readers, InStep, Query, Fits
<1>5. Page'
  BY <1>1 DEF IInv, Page
<1>. QED
  BY <1>4, <1>5 DEF IInv

\* A failure, whatever its reason, ends the session.
LEMMA Failing ==
  ASSUME NEW s \in SessionType, InStep(s), NEW why \in {"cancelled", "error", "timeout"}
  PROVE  Fail(s, why) \in SessionType /\ InStep(Fail(s, why))
<1>1. /\ Fail(s, why) \in SessionType /\ Fail(s, why).pc = "cleanup" /\ Fail(s, why).answers = s.answers
  BY DEF Fail, SessionType
<1>. QED
  BY <1>1 DEF InStep

\* One more answer, to the query it stands for or to none.
LEMMA Answered ==
  ASSUME NEW answers \in Seq(Nat), Fits(answers), NEW a \in {0, Len(answers) + 1}
  PROVE  Append(answers, a) \in Seq(Nat) /\ Fits(Append(answers, a))
<1>1. Len(answers) \in Nat /\ a \in Nat
  BY LenProperties
<1>2. /\ Append(answers, a) \in Seq(Nat) /\ Len(Append(answers, a)) = Len(answers) + 1
      /\ \A i \in 1..Len(answers) : Append(answers, a)[i] = answers[i]
      /\ Append(answers, a)[Len(answers) + 1] = a
  BY <1>1, AppendProperties
<1>3. \A q \in 1..Len(answers) + 1 : q \in 1..Len(answers) \/ q = Len(answers) + 1
  BY <1>1
<1>. QED
  BY <1>2, <1>3 DEF Fits

LEMMA ThreadSteps ==
  ASSUME IInv, NEW r \in Requests, ThreadStep(r) \/ Answer(r)
  PROVE  IInv'
<1>. DEFINE s == session[r]
<1>0. s \in SessionType /\ InStep(s)
  BY DEF IInv, Readers
<1>a. s.answers \in Seq(Nat) /\ Len(s.answers) \in Nat /\ s.replies \in Seq(Nat) /\ s.query \in Nat
  BY <1>0, LenProperties DEF SessionType
<1>b. s.pc # "none"
  BY <1>0 DEF ThreadStep, Launch, Connect, WithoutHelper, Send, Receive, RequestFails, Store, Report, Cleanup, Answer, InStep
<1>c. \A t \in SessionType : InStep(t) /\ Thread(r, t) => IInv'
  BY <1>b, ThreadKeeps
<1>. HIDE DEF s
<1>1. ASSUME NEW t \in SessionType, t.pc \in {"collect", "waiting", "connecting", "stored", "cleanup"}, t.answers = s.answers,
             t.query = s.query, t.replies = s.replies, s.pc \notin {"waiting", "cleanup", "end"}, t.pc # "waiting",
             Thread(r, t)
      PROVE  IInv'
  <2>1. InStep(t)
    BY <1>0, <1>1 DEF InStep
  <2>. QED
    BY <1>1, <2>1, <1>c
<1>2. ASSUME NEW why \in {"cancelled", "error", "timeout"}, Thread(r, Fail(s, why))
      PROVE  IInv'
  BY <1>0, <1>2, Failing, <1>c
<1>3. CASE Launch(r)
  <2>1. /\ s.pc = "start"
        /\ \/ Thread(r, [s EXCEPT !.pc = IF s.stop THEN "cleanup" ELSE "connecting"])
           \/ Thread(r, [s EXCEPT !.pc = "cleanup", !.status = "unavailable"])
    BY <1>3 DEF Launch, s
  <2>. QED
    BY <1>0, <1>1, <2>1 DEF SessionType
<1>4. CASE Connect(r)
  <2>1. /\ s.pc = "connecting"
        /\ \/ Thread(r, [s EXCEPT !.pc = "collect", !.open = TRUE, !.status = "reading"])
           \/ Thread(r, [s EXCEPT !.pc = "cleanup"])
           \/ Thread(r, [s EXCEPT !.pc = "cleanup", !.status = "error"])
           \/ \E why \in {"error", "timeout"} : Thread(r, Fail(s, why))
    BY <1>4 DEF Connect, s
  <2>2. CASE \E why \in {"error", "timeout"} : Thread(r, Fail(s, why))
    BY <1>2, <2>2
  <2>3. CASE ~\E why \in {"error", "timeout"} : Thread(r, Fail(s, why))
    BY <1>0, <1>1, <2>1, <2>3 DEF SessionType
  <2>. QED
    BY <2>2, <2>3
<1>5. CASE WithoutHelper(r)
  <2>. DEFINE t == [s EXCEPT !.answers = Append(@, 0)]
  <2>1. s.pc = "collect" /\ Thread(r, t)
    BY <1>5 DEF WithoutHelper, s
  <2>2. Append(s.answers, 0) \in Seq(Nat) /\ Fits(Append(s.answers, 0))
    BY <1>0, <1>a, Answered DEF InStep
  <2>3. t \in SessionType /\ t.pc = s.pc /\ t.answers = Append(s.answers, 0) /\ t.query = s.query /\ t.replies = s.replies
    BY <1>0, <2>2 DEF SessionType
  <2>4. InStep(t)
    BY <1>0, <2>1, <2>2, <2>3 DEF InStep
  <2>. QED
    BY <2>1, <2>3, <2>4, <1>c
<1>6. CASE Send(r)
  <2>1. /\ s.pc = "collect"
        /\ \/ Thread(r, Fail(s, "cancelled")) \/ Thread(r, Fail(s, "error"))
           \/ Thread(r, [s EXCEPT !.pc = "waiting", !.query = Query(s)])
    BY <1>6 DEF Send, s
  <2>2. CASE Thread(r, [s EXCEPT !.pc = "waiting", !.query = Query(s)])
    <3>. DEFINE t == [s EXCEPT !.pc = "waiting", !.query = Query(s)]
    <3>0. Query(s) \in Nat
      BY <1>a DEF Query
    <3>1. t \in SessionType /\ t.pc = "waiting" /\ t.answers = s.answers /\ t.query = Query(s) /\ t.replies = s.replies
      BY <1>0, <3>0 DEF SessionType
    <3>2. InStep(t)
      BY <1>0, <2>1, <3>1 DEF InStep, Query
    <3>. QED
      BY <2>2, <3>1, <3>2, <1>c
  <2>. QED
    BY <1>2, <2>1, <2>2
<1>7. CASE Receive(r)
  <2>. DEFINE t == [s EXCEPT !.pc = "collect", !.answers = Append(@, Head(s.replies)), !.replies = Tail(@)]
  <2>1. s.pc = "waiting" /\ s.replies # <<>> /\ (Thread(r, Fail(s, "cancelled")) \/ Thread(r, t))
    BY <1>7 DEF Receive, s
  <2>2. CASE Thread(r, t)
    <3>1. s.query = 0 /\ s.replies = <<Query(s)>>
      BY <1>0, <2>1 DEF InStep
    <3>2. Head(s.replies) = Query(s) /\ Tail(s.replies) = <<>>
      BY <3>1
    <3>3. Append(s.answers, Query(s)) \in Seq(Nat) /\ Fits(Append(s.answers, Query(s)))
      BY <1>0, <1>a, Answered DEF InStep, Query
    <3>4. <<>> \in Seq(Nat)
      BY EmptySeq
    <3>5. /\ t \in SessionType /\ t.pc = "collect" /\ t.answers = Append(s.answers, Query(s))
          /\ t.query = 0 /\ t.replies = <<>>
      BY <1>0, <3>1, <3>2, <3>3, <3>4 DEF SessionType
    <3>6. InStep(t)
      BY <3>3, <3>5 DEF InStep
    <3>. QED
      BY <2>2, <3>5, <3>6, <1>c
  <2>. QED
    BY <1>2, <2>1, <2>2
<1>8. CASE RequestFails(r)
  BY <1>2, <1>8 DEF RequestFails, EndSession, s
<1>9. CASE Store(r)
  <2>1. /\ s.pc = "collect"
        /\ \/ Thread(r, [s EXCEPT !.pc = "cleanup"]) \/ Thread(r, [s EXCEPT !.pc = "stored", !.ready = TRUE])
    BY <1>9 DEF Store, s
  <2>. QED
    BY <1>0, <1>1, <2>1 DEF SessionType
<1>10. CASE Report(r)
  <2>1. s.pc = "stored" /\ Thread(r, [s EXCEPT !.pc = "cleanup", !.status = "ready"])
    BY <1>10 DEF Report, s
  <2>. QED
    BY <1>0, <1>1, <2>1 DEF SessionType
<1>11. CASE Cleanup(r)
  <2>. DEFINE t == [s EXCEPT !.pc = "end", !.open = FALSE, !.query = 0, !.replies = <<>>]
  <2>1. Thread(r, t)
    BY <1>11 DEF Cleanup, s
  <2>2. t \in SessionType /\ t.pc = "end" /\ t.answers = s.answers
    BY <1>0, EmptySeq DEF SessionType
  <2>3. InStep(t)
    BY <1>0, <2>2 DEF InStep
  <2>. QED
    BY <2>1, <2>2, <2>3, <1>c
<1>12. CASE Answer(r)
  <2>. DEFINE t == [s EXCEPT !.replies = Append(@, s.query), !.query = 0]
  <2>1. s.query # 0 /\ Thread(r, t)
    BY <1>12 DEF Answer, s
  <2>2. Append(s.replies, s.query) \in Seq(Nat)
    BY <1>a, AppendProperties
  <2>3. /\ t \in SessionType /\ t.pc = s.pc /\ t.answers = s.answers /\ t.query = 0
        /\ t.replies = Append(s.replies, s.query)
    BY <1>0, <2>2 DEF SessionType
  <2>4. CASE s.pc = "waiting"
    <3>1. s.query = Query(s) /\ s.replies = <<>>
      BY <1>0, <2>1, <2>4 DEF InStep
    <3>2. t.replies = <<Query(s)>> /\ Query(t) = Query(s)
      BY <2>3, <3>1 DEF Query
    <3>. QED
      BY <1>0, <2>1, <2>3, <2>4, <3>2, <1>c DEF InStep
  <2>5. CASE s.pc # "waiting"
    <3>1. InStep(t)
      BY <1>0, <2>1, <2>3, <2>5 DEF InStep
    <3>. QED
      BY <2>1, <2>3, <3>1, <1>c
  <2>. QED
    BY <2>4, <2>5
<1>. QED
  BY <1>3, <1>4, <1>5, <1>6, <1>7, <1>8, <1>9, <1>10, <1>11, <1>12 DEF ThreadStep

-----------------------------------------------------------------------------
(* The page, and what each of its steps is to the user of the page.        *)

Keeps == IInv' /\ [Contract!Next]_Contract!vars

\* Closing an InspectorAccess does not touch its answers.
LEMMA Closing ==
  ASSUME IInv, NEW r \in Requests
  PROVE  /\ CloseAccess(r) \in [Requests -> SessionType]
         /\ \A q \in Requests : InStep(CloseAccess(r)[q]) /\ CloseAccess(r)[q].pc = session[q].pc
<1>0. session \in [Requests -> SessionType] /\ \A q \in Requests : InStep(session[q])
  BY DEF IInv, Readers
<1>. DEFINE s == session[r]
            t == [s EXCEPT !.stop = TRUE, !.open = FALSE, !.status = "cancelled"]
<1>1. CloseAccess(r) = [session EXCEPT ![r] = t]
  BY <1>0 DEF CloseAccess, SessionType
<1>2. t \in SessionType /\ t.pc = s.pc /\ t.answers = s.answers /\ t.query = s.query /\ t.replies = s.replies
  BY <1>0 DEF SessionType
<1>3. InStep(s) /\ s = session[r]
  BY <1>0
<1>. HIDE DEF s, t
<1>4. InStep(t)
  BY <1>2, <1>3 DEF InStep, Query
<1>. QED
  BY <1>0, <1>1, <1>2, <1>3, <1>4

LEMMA CancelStep ==
  ASSUME InspectionAssumption, IInv, NEW why \in Reasons, Cancel(why)
  PROVE  Keeps
<1>1. /\ reason' = why /\ status' = why /\ ~deadline' /\ access' = 0 /\ UNCHANGED <<asked, snapshot>>
      /\ process' = IF process = "off" THEN "off" ELSE "killed"
      /\ session' = IF access = 0 THEN session ELSE CloseAccess(access)
  BY DEF Cancel
<1>2. why # "reading" /\ why # ""
  BY DEF Reasons
<1>3. asked \in 0..MaxRequests /\ access \in 0..asked /\ (access # 0 => access \in Requests)
  <2>1. asked \in 0..MaxRequests /\ access \in 0..asked /\ MaxRequests \in Nat
    BY DEF InspectionAssumption, IInv, Page
  <2>. QED
    BY <2>1 DEF Requests
<1>4. Page'
  BY <1>1, <1>2, <1>3 DEF IInv, Page
<1>5. Readers'
  <2>1. /\ session' \in [Requests -> SessionType]
        /\ \A q \in Requests : InStep(session'[q]) /\ session'[q].pc = session[q].pc
    BY <1>1, <1>3, Closing DEF IInv, Readers
  <2>. QED
    BY <1>1, <2>1 DEF IInv, Readers, InStep, Query, Fits
<1>6. [Contract!Next]_Contract!vars
  <2>1. CASE status = "reading"
    BY <1>1, <1>2, <2>1 DEF IInv, Page, Contract!Next, Contract!GiveUp
  <2>2. CASE status # "reading"
    BY <1>1, <1>2, <2>2 DEF Contract!vars
  <2>. QED
    BY <2>1, <2>2
<1>. QED
  BY <1>4, <1>5, <1>6 DEF Keeps, IInv

LEMMA RefreshStep ==
  ASSUME InspectionAssumption, IInv, Refresh
  PROVE  Keeps
<1>0. /\ asked \in 0..MaxRequests /\ access = 0 /\ process = "off" /\ asked < MaxRequests /\ status # "reading"
      /\ MaxRequests \in Nat
  BY DEF InspectionAssumption, IInv, Page, Refresh, NotBusy
<1>1. /\ asked' = asked + 1 /\ snapshot' = Nothing /\ status' = "reading" /\ reason' = ""
      /\ \/ /\ access' = asked + 1 /\ process' = "off"
            /\ session' = [session EXCEPT ![asked + 1].pc = "start", ![asked + 1].status = "starting"]
         \/ process' = "starting" /\ access' = 0 /\ session' = session
  BY <1>0 DEF Refresh, ClearShown
<1>2. asked + 1 \in 1..MaxRequests /\ asked + 1 # 0
  BY <1>0
<1>3. snapshot'.request = 0 /\ snapshot'.answers = <<>>
  BY <1>1 DEF Nothing
<1>4. Page'
  <2>1. asked' = asked + 1 /\ access' \in {0, asked + 1} /\ snapshot'.request = 0
    BY <1>1, <1>3
  <2>2. /\ asked' \in 0..MaxRequests /\ access' \in 0..asked' /\ snapshot'.request \in 0..asked'
        /\ asked' # 0
    BY <1>0, <2>1
  <2>. QED
    BY <1>1, <1>3, <2>2, <1>2 DEF IInv, Page, Refresh
<1>5. /\ session' \in [Requests -> SessionType]
      /\ \A q \in Requests : InStep(session'[q]) /\ (q > asked + 1 => session'[q].pc = "none")
  <2>0. /\ session \in [Requests -> SessionType]
        /\ \A q \in Requests : InStep(session[q]) /\ (q > asked => session[q].pc = "none")
    BY DEF IInv, Readers
  <2>1. \A q \in Requests : q > asked + 1 => q > asked
    BY <1>0 DEF Requests
  <2>2. CASE session' = session
    BY <2>0, <2>1, <2>2
  <2>3. CASE session' = [session EXCEPT ![asked + 1].pc = "start", ![asked + 1].status = "starting"]
    <3>. DEFINE r == asked + 1
                s == session[r]
                t == [s EXCEPT !.pc = "start", !.status = "starting"]
    <3>0. r \in Requests /\ r > asked
      BY <1>0, <1>2 DEF Requests
    <3>1. session' = [session EXCEPT ![r] = t]
      BY <3>0, <2>0, <2>3 DEF SessionType
    <3>2. s \in SessionType /\ InStep(s) /\ s.pc = "none"
      BY <2>0, <3>0
    <3>3. t \in SessionType /\ t.pc = "start" /\ t.answers = s.answers /\ t.query = s.query /\ t.replies = s.replies
      BY <3>2 DEF SessionType
    <3>. HIDE DEF s, t
    <3>4. InStep(t)
      BY <3>2, <3>3 DEF InStep
    <3>5. ~(r > asked + 1)
      BY <1>0
    <3>. HIDE DEF r
    <3>. QED
      BY <2>0, <2>1, <3>0, <3>1, <3>3, <3>4, <3>5
  <2>. QED
    BY <1>1, <2>2, <2>3
<1>6. Readers'
  <2>1. asked' = asked + 1
    BY <1>1
  <2>2. snapshot'.answers \in Seq(Nat) /\ Fits(snapshot'.answers)
    BY <1>3, EmptySeq DEF Fits
  <2>. QED
    BY <1>5, <2>1, <2>2 DEF Readers, InStep, Query, Fits
<1>7. [Contract!Next]_Contract!vars
  BY <1>0, <1>1, <1>3 DEF Contract!Next, Contract!Ask
<1>. QED
  BY <1>4, <1>6, <1>7 DEF Keeps, IInv

LEMMA FinishedStep ==
  ASSUME InspectionAssumption, IInv, NEW answers \in Seq(Nat), Fits(answers), NEW whole \in BOOLEAN, Finished(answers, whole),
         access' = 0, process' = "off", session' = session \/ (access # 0 /\ session' = CloseAccess(access)),
         status = "reading" \/ whole = FALSE
  PROVE  Keeps
<1>0. asked \in 0..MaxRequests /\ access \in 0..asked /\ snapshot.request \in 0..asked /\ MaxRequests \in Nat
  BY DEF InspectionAssumption, IInv, Page
<1>1. (access # 0 => access \in Requests) /\ asked \in 0..asked
  BY <1>0 DEF Requests
<1>2. \/ /\ reason = "" /\ status = "reading" /\ status' = "snapshot"
         /\ snapshot' = [request |-> asked, answers |-> answers]
      \/ status' \in Reasons /\ snapshot' = snapshot
  BY DEF IInv, Page, Finished, Reasons
<1>a. snapshot' = snapshot \/ (snapshot'.request = asked /\ snapshot'.answers = answers)
  <2>1. CASE snapshot' = [request |-> asked, answers |-> answers]
    BY <2>1
  <2>2. CASE snapshot' = snapshot
    BY <2>2
  <2>. QED
    BY <1>2, <2>1, <2>2
<1>b. asked' = asked /\ reason' = reason /\ reason \in Reasons \cup {""}
  BY DEF IInv, Page, Finished
<1>c. status = "reading" => asked # 0
  BY DEF IInv, Page
<1>d. ~deadline'
  BY DEF Finished
<1>3. status' # "reading"
  BY <1>2 DEF Reasons
<1>4. Page'
  <2>1. snapshot'.request \in 0..asked
    BY <1>0, <1>1, <1>a
  <2>. QED
    BY <1>0, <1>b, <1>d, <1>3, <2>1 DEF IInv, Page
<1>5. Readers'
  <2>1. /\ session' \in [Requests -> SessionType]
        /\ \A q \in Requests : InStep(session'[q]) /\ session'[q].pc = session[q].pc
    BY <1>1, Closing DEF IInv, Readers
  <2>2. snapshot'.answers \in Seq(Nat) /\ Fits(snapshot'.answers)
    <3>1. snapshot.answers \in Seq(Nat) /\ Fits(snapshot.answers)
      BY DEF IInv, Readers
    <3>2. CASE snapshot' = snapshot
      BY <3>1, <3>2
    <3>3. CASE snapshot'.answers = answers
      BY <3>3
    <3>. QED
      BY <1>a, <3>2, <3>3
  <2>. QED
    BY <1>b, <2>1, <2>2 DEF IInv, Readers, InStep, Query, Fits
<1>6. [Contract!Next]_Contract!vars
  <2>1. CASE status = "reading" /\ status' = "snapshot" /\ snapshot' = [request |-> asked, answers |-> answers]
    BY <1>b, <1>c, <2>1 DEF Contract!Next, Contract!Show
  <2>2. CASE status = "reading" /\ status' \in Reasons /\ UNCHANGED snapshot
    BY <1>b, <1>c, <1>3, <2>2 DEF IInv, Page, Contract!Next, Contract!GiveUp
  <2>3. CASE status # "reading" /\ UNCHANGED snapshot
    BY <1>b, <1>3, <2>3 DEF Contract!vars
  <2>. QED
    BY <1>2, <2>1, <2>2, <2>3
<1>. QED
  BY <1>4, <1>5, <1>6 DEF Keeps, IInv

LEMMA PageSteps ==
  ASSUME InspectionAssumption, IInv, PageStep
  PROVE  Keeps
<1>1. CASE CancelButton \/ Deadline \/ Overflow \/ CloseWindow
  BY <1>1, CancelStep DEF CancelButton, Deadline, Overflow, CloseWindow, Reasons
<1>2. CASE Refresh
  BY <1>2, RefreshStep
<1>3. CASE PollAccess
  <2>0. access # 0 /\ access \in Requests /\ process = "off" /\ process' = "off" /\ access' = 0 /\ status = "reading"
    <3>1. access # 0 /\ process' = process /\ access' = 0 /\ process = "off" /\ status = "reading"
      BY <1>3 DEF PollAccess, IInv, Page
    <3>2. asked \in 0..MaxRequests /\ access \in 0..asked /\ MaxRequests \in Nat
      BY DEF InspectionAssumption, IInv, Page
    <3>. QED
      BY <3>1, <3>2 DEF Requests
  <2>1. session' = CloseAccess(access)
    BY <1>3 DEF PollAccess
  <2>2. session[access].answers \in Seq(Nat) /\ Fits(session[access].answers)
    BY <2>0 DEF IInv, Readers, InStep, SessionType
  <2>3. CASE \E whole \in BOOLEAN : Finished(session[access].answers, whole)
    BY <2>0, <2>1, <2>2, <2>3, FinishedStep
  <2>4. CASE /\ status' \in {"timeout", "hardware_read_failed"}
             /\ deadline' = FALSE /\ UNCHANGED <<asked, snapshot, reason, closing>>
    <3>1. Page'
      BY <2>0, <2>4 DEF IInv, Page
    <3>2. Readers'
      <4>1. /\ session' \in [Requests -> SessionType]
            /\ \A q \in Requests : InStep(session'[q]) /\ session'[q].pc = session[q].pc
        BY <2>0, <2>1, Closing DEF IInv, Readers
      <4>. QED
        BY <2>4, <4>1 DEF IInv, Readers, InStep, Query, Fits
    <3>3. [Contract!Next]_Contract!vars
      BY <2>0, <2>4 DEF IInv, Page, Contract!Next, Contract!GiveUp
    <3>. QED
      BY <3>1, <3>2, <3>3 DEF Keeps, IInv
  <2>. QED
    BY <1>3, <2>3, <2>4 DEF PollAccess
<1>4. CASE ProcessStarts
  <2>1. CASE process' = "running" /\ UNCHANGED <<status, deadline>>
    <3>1. UNCHANGED <<asked, access, snapshot, reason, closing, session, status, deadline>> /\ process = "starting"
      BY <1>4, <2>1 DEF ProcessStarts
    <3>2. Page' /\ Readers'
      BY <2>1, <3>1 DEF IInv, Page, Readers, InStep, Query, Fits
    <3>3. [Contract!Next]_Contract!vars
      BY <3>1 DEF Contract!vars
    <3>. QED
      BY <3>2, <3>3 DEF Keeps, IInv
  <2>2. CASE process' = "off" /\ status' = "hardware_read_failed" /\ deadline' = FALSE
    <3>1. UNCHANGED <<asked, access, snapshot, reason, closing, session>> /\ process = "starting"
      BY <1>4 DEF ProcessStarts
    <3>2. Page'
      BY <2>2, <3>1 DEF IInv, Page
    <3>3. Readers'
      BY <2>2, <3>1 DEF IInv, Readers, InStep, Query, Fits
    <3>4. [Contract!Next]_Contract!vars
      BY <2>2, <3>1 DEF IInv, Page, Contract!Next, Contract!GiveUp
    <3>. QED
      BY <3>2, <3>3, <3>4 DEF Keeps, IInv
  <2>. QED
    BY <1>4, <2>1, <2>2 DEF ProcessStarts
<1>5. CASE ProcessEnds
  <2>. DEFINE left == [q \in 1..Queries |-> 0]
  <2>0. process = "running" /\ process' = "off" /\ UNCHANGED <<access, session>>
    BY <1>5 DEF ProcessEnds
  <2>1. access = 0 /\ status = "reading"
    BY <2>0 DEF IInv, Page
  <2>2. Queries \in Nat /\ left \in Seq(Nat)
    BY DEF InspectionAssumption
  <2>3. Len(left) = Queries
    BY <2>2
  <2>4. Fits(left)
    BY <2>3 DEF Fits
  <2>5. PICK whole \in BOOLEAN : Finished(left, whole)
    BY <1>5 DEF ProcessEnds
  <2>. HIDE DEF left
  <2>. QED
    BY <2>0, <2>1, <2>2, <2>4, <2>5, FinishedStep
<1>6. CASE KilledProcessEnds
  <2>0. process = "killed" /\ process' = "off" /\ UNCHANGED <<access, session>> /\ Finished(<<>>, FALSE)
    BY <1>6 DEF KilledProcessEnds
  <2>1. access = 0
    BY <2>0 DEF IInv, Page
  <2>2. <<>> \in Seq(Nat) /\ Fits(<<>>)
    BY EmptySeq DEF Fits
  <2>. QED
    BY <2>0, <2>1, <2>2, FinishedStep
<1>. QED
  BY <1>1, <1>2, <1>3, <1>4, <1>5, <1>6 DEF PageStep

-----------------------------------------------------------------------------
(* What holds of every behaviour.                                          *)

LEMMA NextIInv ==
  ASSUME InspectionAssumption, IInv, [Next]_vars
  PROVE  Keeps
<1>1. CASE PageStep
  BY <1>1, PageSteps
<1>2. ASSUME NEW r \in Requests, ThreadStep(r) \/ Answer(r)
      PROVE  Keeps
  <2>1. IInv'
    BY <1>2, ThreadSteps
  <2>2. UNCHANGED page
    BY <1>2 DEF ThreadStep, Launch, Connect, WithoutHelper, Send, Receive, RequestFails, Store, Report, Cleanup,
       Answer, Thread
  <2>. QED
    BY <2>1, <2>2 DEF Keeps, page, Contract!vars
<1>3. CASE UNCHANGED vars
  <2>1. UNCHANGED <<asked, access, process, snapshot, status, reason, deadline, closing, session>>
    BY <1>3 DEF vars, page
  <2>2. Page'
    BY <2>1 DEF IInv, Page
  <2>3. Readers'
    BY <2>1 DEF IInv, Readers, InStep, Query, Fits
  <2>. QED
    BY <2>1, <2>2, <2>3 DEF Keeps, IInv, Contract!vars
<1>. QED
  BY <1>1, <1>2, <1>3 DEF Next

LEMMA Invariant ==
  ASSUME InspectionAssumption
  PROVE  Spec => []IInv
<1>1. Init => IInv
  BY InitIInv
<1>2. IInv /\ [Next]_vars => IInv'
  BY NextIInv DEF Keeps
<1>. QED
  BY <1>1, <1>2, PTL DEF Spec

\* However many queries a reading has and whatever becomes of the readers the
\* page has dropped, an answer shown answers the query it stands for: a session
\* ends with the first query that fails (InspectorAccess.request).
THEOREM ReplyMatchesQueryHolds ==
  ASSUME InspectionAssumption
  PROVE  Spec => []ReplyMatchesQuery
<1>1. IInv => ReplyMatchesQuery
  <2>. SUFFICES ASSUME IInv  PROVE ReplyMatchesQuery
    OBVIOUS
  <2>1. snapshot.answers \in Seq(Nat) /\ Fits(snapshot.answers)
    BY DEF IInv, Readers
  <2>2. DOMAIN snapshot.answers = 1..Len(snapshot.answers)
    BY <2>1, LenProperties
  <2>. QED
    BY <2>1, <2>2 DEF Fits, ReplyMatchesQuery
<1>. QED
  BY <1>1, Invariant, PTL

\* The page implements the safety of PageContract: each of its steps asks, shows
\* the answer to the last request, gives it up, or is none of the user's
\* concern (HardwarePage.refresh, cancel, finished and poll_access).
THEOREM PageKeepsSafety ==
  ASSUME InspectionAssumption
  PROVE  Spec => Contract!Safety
<1>1. Init => Contract!Init
  <2>. SUFFICES ASSUME Init  PROVE Contract!Init
    OBVIOUS
  <2>1. asked = 0 /\ snapshot.request = 0
    BY DEF Init, Nothing
  <2>2. status = "not_read"
    BY DEF Init
  <2>3. status # "reading"
    BY <2>2
  <2>. QED
    BY <2>1, <2>2, <2>3 DEF Contract!Init
<1>2. IInv /\ [Next]_vars => [Contract!Next]_Contract!vars
  BY NextIInv DEF Keeps
<1>. QED
  BY <1>1, <1>2, Invariant, PTL DEF Spec, Contract!Safety
=============================================================================
