--------------------------- MODULE RequestsProofs ---------------------------
(***************************************************************************)
(* Theorems about Requests, for any number of attempts and any feed, of    *)
(* any length.                                                             *)
(***************************************************************************)
EXTENDS Requests, FeedDecisionProofs

(* The strengthening.  An answer "ok" comes from a request that was carried *)
(* out.  A write is repeated only after it was rejected, and until then    *)
(* there is one request of it, which is carried out or may still be.  An   *)
(* old token can still be renewed.                                         *)
CallInv ==
    /\ outcome = "pending" <=> pc # "done"
    /\ reply = "ok" => handled > 0
    /\ write = TRUE =>
        /\ attempt = 1
        /\ inbox \subseteq {"current"}
        /\ inbox # {} => handled = 0
        /\ pc = "send" => handled = 0 /\ inbox = {}
        /\ reply # "none" => inbox = {}
        /\ reply \in Rejections => handled = 0
    /\ token = "old" => authLeft = 1
    /\ client = "omada" /\ outcome = "auth" => token # "old"

(* A silence is raised as a failure, a rejection by the router's clients as *)
(* one of authentication, and nothing else is; a write gets one attempt.   *)
LEMMA LoopFacts ==
    /\ client \in Clients => \A a \in Silence \cup Done \cup Rejections :
          /\ Raises(a) \in Failures
          /\ client = "omada" /\ Raises(a) = "auth" => a \in Rejections
    /\ Attempts \in Nat \ {0} /\ Attempts <= Retries
    /\ write = TRUE => Attempts = 1
<1>1. ASSUME client \in Clients, NEW a \in Silence \cup Done \cup Rejections
      PROVE  /\ Raises(a) \in Failures
             /\ client = "omada" /\ Raises(a) = "auth" => a \in Rejections
  <2> USE <1>1 DEF Silence, Done, Rejections, Failures, Clients
  <2>1. CASE a = "cut"
    BY <2>1 DEF Raises
  <2>2. CASE a # "cut" /\ client = "feed"
    BY <2>2 DEF Raises
  <2>3. CASE a # "cut" /\ client # "feed"
    BY <2>3, Zenon DEF Raises
  <2> QED BY <2>1, <2>2, <2>3
<1>2. Attempts = 1 \/ Attempts = Retries
  BY DEF Attempts
<1>3. write = TRUE => Attempts = 1
  BY Zenon DEF Attempts
<1> QED BY <1>1, <1>2, <1>3, RetriesAssumption

(* At the start nothing has been sent.                                     *)
LEMMA Start == Init => TypeOK /\ CallInv
<1> SUFFICES ASSUME Init PROVE TypeOK /\ CallInv
  OBVIOUS
<1>1. token \in {"none", "old"}
  BY DEF Init
<1> QED
  BY <1>1, RetriesAssumption DEF Init, TypeOK, CallInv, HandledBound, Rejections

(* A received answer other than "ok" ends the call or repeats it.          *)
LEMMA ReceiveStep ==
    ASSUME TypeOK, CallInv, NEW a \in Silence \cup Done \cup Rejections, Receive(a),
           a = reply \/ (a \in Silence /\ reply = "none")
    PROVE  TypeOK' /\ CallInv'
<1>1. /\ pc = "await" /\ outcome = "pending" /\ attempt \in Nat /\ client \in Clients
      /\ UNCHANGED <<client, write, isp, policy, inbox, reply, handled>>
  BY DEF Receive, TypeOK, CallInv, callVars, otherVars
<1> USE <1>1 DEF TypeOK, CallInv
<1>2. CASE Renews(a)
  <2>1. /\ pc' = "send" /\ token' = "none" /\ authLeft' = authLeft - 1
        /\ UNCHANGED <<attempt, outcome>> /\ a \in Rejections /\ authLeft > 0
    BY <1>2 DEF Receive, RenewToken, Renews
  <2>2. write = TRUE => handled = 0 /\ inbox = {}
    BY <2>1 DEF Rejections, Silence
  <2> QED BY <2>1, <2>2
<1>3. CASE ~Renews(a) /\ MayRepeat(a)
  <2>1. /\ pc' = "send" /\ attempt' = attempt + 1 /\ authLeft' = 1
        /\ UNCHANGED <<outcome, token>> /\ attempt < Attempts
    BY <1>3 DEF Receive, NextAttempt, MayRepeat
  <2> QED BY <2>1, LoopFacts, RetriesAssumption
<1>4. CASE ~Renews(a) /\ ~MayRepeat(a)
  <2>1. pc' = "done" /\ outcome' = Raises(a) /\ UNCHANGED <<attempt, authLeft, token>>
    BY <1>4 DEF Receive, Return
  <2>2. outcome' \in Failures /\ outcome' # "pending"
    BY <2>1, LoopFacts DEF Failures
  <2>3. client = "omada" /\ outcome' = "auth" => token # "old"
    <3>1. ASSUME client = "omada", outcome' = "auth" PROVE a \in Rejections
      BY <2>1, <3>1, LoopFacts
    <3>2. ASSUME client = "omada", a \in Rejections PROVE authLeft = 0
      BY <1>4, <3>2 DEF Renews
    <3> QED BY <2>1, <3>1, <3>2
  <2> QED BY <2>1, <2>2, <2>3
<1> QED BY <1>2, <1>3, <1>4

(* What the other end does is seen in its answer, and in what it has done. *)
LEMMA OtherEndStep ==
    ASSUME TypeOK, CallInv, NEW r \in inbox, CarryOut(r) \/ Reject(r) \/ Lose(r)
    PROVE  TypeOK' /\ CallInv'
<1>1. /\ UNCHANGED <<callVars, loopVars>> /\ inbox' = inbox \ {r}
      /\ write = TRUE => r = "current" /\ handled = 0 /\ pc # "send" /\ inbox' = {}
  BY DEF CarryOut, Reject, Lose, TypeOK, CallInv
<1>2. handled \in 0 .. HandledBound
  BY DEF TypeOK
<1> USE <1>1, <1>2 DEF TypeOK, CallInv, callVars, loopVars, HandledBound
<1>3. CASE CarryOut(r)
  <2>1. handled' = (IF handled < HandledBound THEN handled + 1 ELSE handled)
    BY <1>3 DEF CarryOut
  <2>2. handled' \in 1 .. HandledBound
    BY <2>1
  <2>3. reply' \in Done \cup {reply}
    BY <1>3 DEF CarryOut, Reply
  <2>4. write = TRUE => reply' \notin Rejections
    BY <2>3 DEF Done, Rejections
  <2>5. handled' > 0 /\ handled' \in 0 .. HandledBound
    BY <2>2
  <2>6. TypeOK'
    BY <2>3, <2>5
  <2>7. CallInv'
    BY <2>3, <2>4, <2>5
  <2> QED BY <2>6, <2>7
<1>4. CASE Reject(r)
  <2>1. handled' = handled /\ (reply' = reply \/ reply' \in Rejections \cup (Done \ {"ok"}))
    BY <1>4 DEF Reject, Reply
  <2> QED BY <2>1 DEF Done, Rejections
<1>5. CASE Lose(r)
  BY <1>5 DEF Lose
<1> QED BY <1>3, <1>4, <1>5

(* Every step keeps it.                                                    *)
LEMMA Step == TypeOK /\ CallInv /\ [Next]_vars => TypeOK' /\ CallInv'
<1> SUFFICES ASSUME TypeOK, CallInv, [Next]_vars PROVE TypeOK' /\ CallInv'
  OBVIOUS
<1>1. CASE Authenticate
  <2>1. CASE token' = "new" /\ UNCHANGED <<pc, outcome>>
    BY <1>1, <2>1 DEF Authenticate, TypeOK, CallInv, callVars, otherVars
  <2>2. CASE (\E o \in {"auth", "network", "remote", "escape"} : Return(o)) /\ UNCHANGED token
    BY <1>1, <2>2 DEF Authenticate, Return, TypeOK, CallInv, callVars, otherVars, Failures
  <2> QED BY <1>1, <2>1, <2>2 DEF Authenticate
<1>2. CASE Send
  <2>1. inbox' = {"current"} \cup {"earlier" : r \in inbox}
    BY <1>2 DEF Send
  <2>2. inbox' \subseteq {"current", "earlier"} /\ (inbox = {} => inbox' = {"current"})
    BY <2>1
  <2> QED BY <1>2, <2>2 DEF Send, TypeOK, CallInv, callVars, Rejections
<1>3. CASE ReceiveReply
  <2>1. reply \in Silence \cup Done \cup Rejections
    BY <1>3 DEF ReceiveReply, TypeOK
  <2> QED BY <1>3, <2>1, ReceiveStep DEF ReceiveReply
<1>4. CASE StopWaiting
  BY <1>4, ReceiveStep DEF StopWaiting
<1>5. CASE Succeed
  BY <1>5 DEF Succeed, Return, TypeOK, CallInv, callVars, otherVars
<1>6. CASE ReadFeed
  <2>1. /\ pc = "await" /\ pc' = "done" /\ outcome' \in {"ok", "invalid"}
        /\ UNCHANGED <<callVars, attempt, authLeft, token, otherVars>>
    BY <1>6 DEF ReadFeed, Return
  <2> QED BY <2>1 DEF TypeOK, CallInv, callVars, otherVars, Failures
<1>7. CASE \E r \in inbox : CarryOut(r) \/ Reject(r) \/ Lose(r)
  BY <1>7, OtherEndStep
<1>8. CASE UNCHANGED vars
  BY <1>8 DEF vars, callVars, loopVars, otherVars, TypeOK, CallInv
<1> QED BY <1>1, <1>2, <1>3, <1>4, <1>5, <1>6, <1>7, <1>8 DEF Next, LoopStep

(* The strengthening holds always.                                         *)
LEMMA Always == Spec => [](TypeOK /\ CallInv)
BY Start, Step, PTL DEF Spec

(* Every variable keeps its type; the attempts keep their bound.           *)
THEOREM TypeCorrect == Spec => []TypeOK
BY Always, PTL

(* OmadaClient.request does not give up over a token that it could renew.  *)
THEOREM RejectedWithNewTokenOnly == Spec => []RejectedWithNewToken
<1>1. CallInv => RejectedWithNewToken
  BY DEF CallInv, RejectedWithNewToken
<1> QED BY <1>1, Always, PTL

(* Every call of the three routers' clients is one of Call: a write is     *)
(* carried out at most once, and success means that the request was        *)
(* carried out, whatever is lost, late, refused or sent again.             *)
THEOREM CallsAreHandledAsAsked == Spec => CallIsHandledAsAsked
<1>1. Init => Contract!Init
  BY DEF Init, Contract!Init
<1>2. TypeOK /\ CallInv /\ TypeOK' /\ [Next]_vars => [Contract!Next]_(Contract!vars)
  <2> SUFFICES ASSUME TypeOK, CallInv, TypeOK', [Next]_vars
               PROVE  [Contract!Next]_(Contract!vars)
    OBVIOUS
  <2> USE DEF Contract!Next, Contract!vars, callVars, loopVars, otherVars
  <2>1. CASE Authenticate
    <3>1. CASE \E o \in {"auth", "network", "remote", "escape"} : Return(o)
      BY <2>1, <3>1 DEF Authenticate, Return, Contract!Fail, CallInv
    <3> QED BY <2>1, <3>1 DEF Authenticate
  <2>2. CASE Send
    BY <2>2 DEF Send
  <2>3. ASSUME NEW a, Receive(a), a \in Silence \cup Done \cup Rejections
        PROVE  [Contract!Next]_(Contract!vars)
    <3>1. UNCHANGED <<write, handled>> /\ outcome = "pending"
      BY <2>3 DEF Receive, CallInv
    <3>2. outcome' = outcome \/ outcome' = Raises(a)
      BY <2>3 DEF Receive, Return
    <3>3. Raises(a) \notin {"pending", "ok"}
      BY <2>3, LoopFacts DEF TypeOK, Failures
    <3> QED BY <3>1, <3>2, <3>3 DEF Contract!Fail
  <2>4. CASE ReceiveReply \/ StopWaiting
    BY <2>3, <2>4 DEF ReceiveReply, StopWaiting, TypeOK
  <2>5. CASE Succeed
    BY <2>5 DEF Succeed, Return, CallInv, Contract!Succeed
  <2>6. CASE ReadFeed
    <3>1. /\ UNCHANGED <<write, handled>> /\ outcome = "pending" /\ handled > 0
          /\ outcome' \in {"ok", "invalid"}
      BY <2>6 DEF ReadFeed, Return, CallInv
    <3> QED BY <3>1 DEF Contract!Succeed, Contract!Fail
  <2>7. ASSUME NEW r \in inbox, CarryOut(r) PROVE [Contract!Next]_(Contract!vars)
    <3>1. write \in BOOLEAN /\ (write = TRUE => handled = 0)
      BY <2>7 DEF TypeOK, CallInv
    <3>2. UNCHANGED <<write, outcome>> /\ (handled' = handled \/ handled' = handled + 1)
      BY <2>7 DEF CarryOut
    <3>3. write => handled = 0
      BY <3>1, Zenon
    <3> QED BY <3>2, <3>3 DEF Contract!CarryOut
  <2>8. ASSUME NEW r \in inbox, Reject(r) \/ Lose(r) PROVE [Contract!Next]_(Contract!vars)
    BY <2>8 DEF Reject, Lose
  <2>9. CASE UNCHANGED vars
    BY <2>9 DEF vars
  <2> QED BY <2>1, <2>2, <2>4, <2>5, <2>6, <2>7, <2>8, <2>9 DEF Next, LoopStep
<1> QED BY <1>1, <1>2, Always, PTL DEF Spec, CallIsHandledAsAsked, Contract!Spec
-----------------------------------------------------------------------------
(* The end of a call *)

(* The steps that are left: an attempt is one request, and one more after  *)
(* a token was refused.                                                    *)
StepsInAttempt ==
    IF pc = "done" THEN 0 ELSE IF pc = "await" THEN 1 ELSE IF token = "none" THEN 3 ELSE 2
StepsLeft == 8 * (Retries - attempt) + 4 * authLeft + StepsInAttempt

(* Every client: each step of the loop, whatever it is answered, leaves    *)
(* fewer to take.                                                          *)
LoopAdvances == [][UNCHANGED loopVars \/ StepsLeft' < StepsLeft]_vars

(* What is left to take is a number.                                       *)
LEMMA StepsLeftType == TypeOK => StepsLeft \in 0 .. 8 * Retries - 1
<1> SUFFICES ASSUME TypeOK PROVE StepsLeft \in 0 .. 8 * Retries - 1
  OBVIOUS
<1>1. attempt \in 1 .. Retries /\ authLeft \in 0 .. 1
  BY DEF TypeOK
<1>2. StepsInAttempt \in 0 .. 3
  BY DEF StepsInAttempt
<1> QED BY <1>1, <1>2, RetriesAssumption DEF StepsLeft

(* The request loops: a renewal of the token, an attempt and a call are    *)
(* each taken from a stock that nothing fills again.  Of any number of     *)
(* retries, a call takes fewer than eight steps for each.                  *)
THEOREM CallsAdvance == Spec => LoopAdvances /\ [](StepsLeft \in 0 .. 8 * Retries - 1)
<1>1. TypeOK /\ TypeOK' /\ [Next]_vars => UNCHANGED loopVars \/ StepsLeft' < StepsLeft
  <2> SUFFICES ASSUME TypeOK, TypeOK', [Next]_vars
               PROVE  UNCHANGED loopVars \/ StepsLeft' < StepsLeft
    OBVIOUS
  <2>1. /\ attempt \in 1 .. Retries /\ attempt' \in 1 .. Retries
        /\ authLeft \in 0 .. 1 /\ authLeft' \in 0 .. 1
    BY DEF TypeOK
  <2> USE DEF StepsLeft, StepsInAttempt
  <2>2. CASE Authenticate
    BY <2>1, <2>2, RetriesAssumption DEF Authenticate, Return
  <2>3. CASE Send
    BY <2>1, <2>3, RetriesAssumption DEF Send
  <2>4. ASSUME NEW a, Receive(a) PROVE StepsLeft' < StepsLeft
    <3>1. CASE Renews(a)
      BY <2>1, <2>4, <3>1, RetriesAssumption DEF Receive, RenewToken
    <3>2. CASE ~Renews(a) /\ MayRepeat(a)
      BY <2>1, <2>4, <3>2, RetriesAssumption DEF Receive, NextAttempt
    <3>3. CASE ~Renews(a) /\ ~MayRepeat(a)
      BY <2>1, <2>4, <3>3, RetriesAssumption DEF Receive, Return
    <3> QED BY <3>1, <3>2, <3>3
  <2>5. CASE Succeed \/ ReadFeed
    <3>1. pc = "await" /\ pc' = "done" /\ UNCHANGED <<attempt, authLeft, token>>
      BY <2>5 DEF Succeed, ReadFeed, Return
    <3> QED BY <2>1, <3>1, RetriesAssumption
  <2>6. CASE \E r \in inbox : CarryOut(r) \/ Reject(r) \/ Lose(r)
    BY <2>6 DEF CarryOut, Reject, Lose
  <2>7. CASE UNCHANGED vars
    BY <2>7 DEF vars
  <2> QED BY <2>2, <2>3, <2>4, <2>5, <2>6, <2>7
          DEF Next, LoopStep, ReceiveReply, StopWaiting
<1> QED BY <1>1, TypeCorrect, StepsLeftType, PTL DEF Spec, LoopAdvances

-----------------------------------------------------------------------------
(* The feed *)

(* The strengthening: the snapshot is what the payload that arrived says,  *)
(* and no other payload arrives after it.                                  *)
FeedInv ==
    /\ payload \in Payload
    /\ client = "feed" /\ outcome = "ok" => reply = "ok"
    /\ client = "feed" /\ reply = "ok" /\ outcome \in {"ok", "invalid"} =>
          snapshot = Decide(payload, isp, policy)

LEMMA FeedStart == Init => FeedInv
<1> SUFFICES ASSUME Init PROVE FeedInv
  OBVIOUS
<1>1. EmptyPayload \in Payload
  BY DEF EmptyPayload, Payload
<1> QED BY <1>1 DEF Init, FeedInv

(* Only ReadFeed ends a call of the feed's client with a snapshot.         *)
LEMMA FeedStep == TypeOK /\ CallInv /\ FeedInv /\ [Next]_vars => FeedInv'
<1> SUFFICES ASSUME TypeOK, CallInv, FeedInv, [Next]_vars PROVE FeedInv'
  OBVIOUS
<1> USE DEF FeedInv, callVars, loopVars, otherVars
<1>1. outcome = "pending" <=> pc # "done"
  BY DEF CallInv
<1>2. CASE Authenticate \/ Send
  BY <1>1, <1>2 DEF Authenticate, Send, Return
<1>3. ASSUME NEW a \in Silence \cup Done \cup Rejections, Receive(a), reply \in {a, "none"}
      PROVE  FeedInv'
  <2>1. a # "ok" /\ outcome = "pending" /\ outcome' \in {outcome, Raises(a)}
        /\ UNCHANGED <<callVars, otherVars, snapshot>>
    BY <1>1, <1>3 DEF Receive, Return
  <2>2. Raises(a) # "ok"
    BY LoopFacts DEF TypeOK, Failures
  <2> QED BY <1>3, <2>1, <2>2
<1>4. CASE ReceiveReply \/ StopWaiting
  BY <1>3, <1>4 DEF ReceiveReply, StopWaiting, TypeOK
<1>5. CASE Succeed
  BY <1>5 DEF Succeed, Return
<1>6. CASE ReadFeed
  BY <1>6 DEF ReadFeed, Return
<1>7. ASSUME NEW r \in inbox, CarryOut(r) \/ Reject(r) \/ Lose(r)
      PROVE  FeedInv'
  <2>1. UNCHANGED <<callVars, loopVars>> /\ (pc = "await" \/ reply' = reply)
    BY <1>7 DEF CarryOut, Reject, Lose, Reply
  <2>2. payload' = payload \/ (reply # "ok" /\ reply' = "ok" /\ payload' \in Payloads)
    BY <1>7 DEF CarryOut, Reject, Lose
  <2> QED BY <1>1, <2>1, <2>2, PayloadsAssumption
<1>8. CASE UNCHANGED vars
  BY <1>8 DEF vars
<1> QED BY <1>2, <1>4, <1>5, <1>6, <1>7, <1>8 DEF Next, LoopStep

LEMMA FeedAlways == Spec => []FeedInv
BY FeedStart, FeedStep, Always, PTL DEF Spec

(* load_feed_snapshot: one more report of what the feed says already never *)
(* lifts the block and never changes a destination, in a feed of any       *)
(* length.                                                                 *)
THEOREM ReportsNeverLiftTheBlock == Spec => []ReportsNeverUnblock
<1>1. FeedInv => ReportsNeverUnblock
  <2> SUFFICES ASSUME FeedInv, outcome \in {"ok", "invalid"}, client = "feed", reply = "ok",
                      NEW i \in DOMAIN payload.data, NEW k \in DOMAIN payload.data
               PROVE  LET more == Decide([payload EXCEPT !.data =
                                              InsertAt(@, k, payload.data[i])], isp, policy)
                      IN more = snapshot \/ more = [snapshot EXCEPT !.blocked = snapshot.valid]
    BY DEF ReportsNeverUnblock
  <2> DEFINE q == [payload EXCEPT !.data = InsertAt(@, k, payload.data[i])]
  <2>1. payload \in Payload /\ payload.data \in Seq(Entry)
        /\ snapshot = Decide(payload, isp, policy)
    BY DEF FeedInv, Payload
  <2>2. /\ InsertAt(payload.data, k, payload.data[i]) \in Seq(Entry)
        /\ Repeats(payload.data, InsertAt(payload.data, k, payload.data[i]))
    BY <2>1, InsertRepeats
  <2>3. /\ q \in Payload /\ q.flag = payload.flag
        /\ q.data = InsertAt(payload.data, k, payload.data[i])
    BY <2>1, <2>2 DEF Payload
  <2>4. Repeats(payload.data, q.data)
    BY <2>2, <2>3
  <2> HIDE DEF q
  <2>5. \/ Decide(q, isp, policy) = snapshot
        \/ Decide(q, isp, policy) = [snapshot EXCEPT !.blocked = snapshot.valid]
    BY <2>1, <2>3, <2>4, DecideRepeats
  <2> QED BY <2>5 DEF q
<1> QED BY <1>1, FeedAlways, PTL

(* load_feed_snapshot: where all entries speak of now, a block by the      *)
(* history names the addresses that caused it, in a feed of any length.    *)
THEOREM BlocksNameTheirDestinations == Spec => []BlockNamesDestinations
<1>1. FeedInv => BlockNamesDestinations
  <2> SUFFICES ASSUME FeedInv, outcome = "ok", client = "feed", snapshot.blocked,
                      payload.flag = "absent", isp = AnyIsp,
                      \A i \in DOMAIN payload.data : Current(payload.data[i])
               PROVE  {i \in Ips : Hero(payload.data).count[i] > 0} \subseteq snapshot.destinations
    BY DEF BlockNamesDestinations
  <2>1. payload \in Payload /\ snapshot = Decide(payload, AnyIsp, policy)
    BY DEF FeedInv
  <2>2. snapshot.valid = TRUE
    BY <2>1 DEF Decide, Invalid, Snapshot
  <2> QED BY <2>1, <2>2, CountedAreNamed
<1> QED BY <1>1, FeedAlways, PTL

=============================================================================
